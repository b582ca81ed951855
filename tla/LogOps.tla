------------------------------- MODULE LogOps -------------------------------
(***************************************************************************)
(* The inductive invariant of Log, and the lemmas about operations,        *)
(* committers and sleepers: what begin_op(), end_op() and commit() do to   *)
(* the counters of struct log.  LogProofs has the lemmas about the blocks  *)
(* and the theorems.                                                       *)
(***************************************************************************)
EXTENDS Log, FiniteSetTheorems, TLAPS

USE DEF diskVars, cacheVars, logVars

\* TypeOK in the parts a step is checked for.
DataOK ==
    /\ home \in [Block -> Value]
    /\ logblk \in [1 .. LOGSIZE -> Value]
    /\ cache \in [Block -> Value]
    /\ pins \in [Block -> Nat]
HeadOK ==
    /\ head \in Seq(Block) /\ Len(head) <= LOGSIZE
    /\ lh \in Seq(Block) /\ Len(lh) <= LOGSIZE
    /\ outstanding \in Nat
    /\ tail \in 1 .. LOGSIZE + 1
CtlOK ==
    /\ committing \in BOOLEAN
    /\ pc \in [Thread -> CommitLabels \cup {"idle", "begin", "begin_sleep", "op"}]
    /\ written \in [Thread -> SUBSET Block]
    /\ sys \in {"up", "recover", "panic"}

\* outstanding counts the threads between begin_op() and end_op().
CountInv == IsFiniteSet(Active) /\ outstanding = Cardinality(Active)

\* committing is set exactly while somebody commits, alone; without operations and
\* a commit the transaction is empty.
CommitInv ==
    /\ committing <=> \E t \in Thread : pc[t] \in CommitLabels
    /\ committing => outstanding = 0
    /\ \A t, u \in Thread : pc[t] \in CommitLabels /\ pc[u] \in CommitLabels => t = u
    /\ sys = "recover" => \A t \in Thread : pc[t] = "idle"
    /\ sys = "up" /\ outstanding = 0 /\ ~committing => lh = <<>>

Distinct(h) == \A k, l \in DOMAIN h : h[k] = h[l] => k = l

\* What commit() has done when its thread is at pc[t].
Phase(t) ==
    /\ pc[t] \in {"write_log", "write_head", "install"} => tail \in 1 .. Len(lh)
    /\ pc[t] = "write_head" => tail = 1
    /\ pc[t] = "write_log" => \A k \in 1 .. tail - 1 : logblk[k] = cache[lh[k]]
    /\ pc[t] \in {"write_head", "install", "clear_head"} =>
          \A k \in DOMAIN lh : logblk[k] = cache[lh[k]]
    /\ pc[t] = "install" => \A k \in 1 .. tail - 1 : home[lh[k]] = logblk[k]
    /\ pc[t] = "clear_head" => \A k \in DOMAIN lh : home[lh[k]] = logblk[k]
    /\ head = IF pc[t] \in {"install", "clear_head"} THEN lh ELSE <<>>
    /\ pc[t] = "commit_done" => lh = <<>>

PhaseInv ==
    /\ Distinct(lh) /\ Distinct(head)
    /\ sys = "up" => /\ ~committing => head = <<>>
                     /\ \A t \in Thread : pc[t] \in CommitLabels => Phase(t)

\* A block in memory that is not pinned is the block at home.
PinInv ==
    sys = "up" =>
        /\ \A b \in Block : pins[b] = IF \E k \in Pending : lh[k] = b THEN 1 ELSE 0
        /\ \A b \in Block : pins[b] = 0 => cache[b] = home[b]

\* How far install_trans(1) has come.
RecoverInv ==
    sys = "recover" =>
        /\ lh = head /\ cache = home
        /\ \A b \in Block : pins[b] = 0
        /\ tail <= Len(lh) + 1
        /\ \A k \in 1 .. tail - 1 : home[lh[k]] = logblk[k]

IInv ==
    /\ TypeOK /\ CountInv /\ CommitInv /\ SleeperHasWaker
    /\ PhaseInv /\ PinInv /\ RecoverInv

\* The blocks reserved for the operations A that they, with w written, still leave.
Spare(A, w) == {p \in A \X (1 .. MAXOPBLOCKS) : p[2] <= MAXOPBLOCKS - Cardinality(w[p[1]])}

\* The transaction and what is still reserved fit in the log; with at most one operation
\* one block is left over.
SpaceInv ==
    /\ sys # "panic"
    /\ \A t \in Thread :
          /\ IsFiniteSet(written[t])
          /\ pc[t] = "op" => Cardinality(written[t]) <= OpBlocks
          /\ pc[t] = "op" /\ sys = "up" => written[t] \subseteq Blocks(lh)
          /\ pc[t] # "op" => written[t] = {}
    /\ sys = "up" => Len(lh) + Cardinality(Spare(Active, written))
                       <= LOGSIZE - (IF outstanding <= 1 THEN 1 ELSE 0)

-----------------------------------------------------------------------------
(* Operations. *)

LEMMA ActiveStep ==
    ASSUME NEW t \in Thread, IsFiniteSet(Active)
    PROVE  /\ pc[t] = "op" => Cardinality(Active \ {t}) = Cardinality(Active) - 1
           /\ pc[t] # "op" => Cardinality(Active \cup {t}) = Cardinality(Active) + 1
           /\ IsFiniteSet(Active \ {t}) /\ IsFiniteSet(Active \cup {t})
           /\ Cardinality(Active) \in Nat
           /\ Cardinality(Active) = 0 => Active = {}
<1>1. pc[t] = "op" => t \in Active
  BY DEF Active
<1>2. pc[t] # "op" => t \notin Active
  BY DEF Active
<1> QED
  BY <1>1, <1>2, FS_AddElement, FS_RemoveElement, FS_EmptySet, FS_CardinalityType

LEMMA CountStep ==
    ASSUME TypeOK, CountInv, CommitInv, Next
    PROVE  CountInv'
<1>1. ASSUME NEW t \in Thread, BeginOp(t)
      PROVE  CountInv'
  <2>1. CASE Admits
    <3>1. Active' = Active \cup {t}
      BY <1>1, <2>1 DEF BeginOp, Goto, Active, TypeOK
    <3> QED
      BY <1>1, <2>1, <3>1, ActiveStep DEF BeginOp, CountInv
  <2>2. CASE ~Admits
    <3>1. Active' = Active
      BY <1>1, <2>2 DEF BeginOp, Goto, Active, TypeOK
    <3> QED
      BY <1>1, <2>2, <3>1 DEF BeginOp, CountInv
  <2> QED
    BY <2>1, <2>2
<1>2. ASSUME NEW t \in Thread, EndOp(t)
      PROVE  CountInv'
  <2>1. ~committing
    <3>1. t \in Active
      BY <1>2 DEF EndOp, Active
    <3> QED
      BY <3>1, ActiveStep DEF CommitInv, CountInv
  <2>2. Active' = Active \ {t}
    BY <1>2, <2>1 DEF EndOp, Goto, Woken, Active, TypeOK, CommitLabels
  <2> QED
    BY <1>2, <2>1, <2>2, ActiveStep DEF EndOp, CountInv
<1>3. ASSUME NEW t \in Thread, CommitDone(t)
      PROVE  CountInv'
  <2>1. Active' = Active
    BY <1>3 DEF CommitDone, Woken, Active, TypeOK
  <2> QED
    BY <1>3, <2>1 DEF CommitDone, CountInv
<1>4. ASSUME NEW t \in Thread, NEW b \in Block, NEW v \in Value, LogWrite(t, b, v)
      PROVE  CountInv'
  BY <1>4 DEF LogWrite, CountInv, Active
<1>5. ASSUME NEW t \in Thread, WriteLog(t) \/ WriteHead(t) \/ Install(t) \/ ClearHead(t)
      PROVE  CountInv'
  <2>1. Active' = Active
    BY <1>5 DEF WriteLog, WriteHead, Install, ClearHead, Goto, Active, TypeOK
  <2> QED
    BY <1>5, <2>1 DEF WriteLog, WriteHead, Install, ClearHead, CountInv
<1>6. CASE Crash
  <2>1. Active' = {}
    BY <1>6 DEF Crash, Active
  <2> QED
    BY <1>6, <2>1, FS_EmptySet DEF Crash, CountInv
<1>7. CASE Recover \/ \E b \in Block : Evict(b)
  BY <1>7 DEF Recover, RecoverInstall, RecoverDone, Evict, CountInv, Active
<1> QED
  BY <1>1, <1>2, <1>3, <1>4, <1>5, <1>6, <1>7 DEF Next, ThreadStep

LEMMA TypeParts == TypeOK <=> DataOK /\ HeadOK /\ CtlOK
  BY DEF TypeOK, DataOK, HeadOK, CtlOK

LEMMA DataStep ==
    ASSUME DataOK, HeadOK, PhaseInv, PinInv, Next
    PROVE  DataOK'
<1> USE DEF DataOK
<1>1. ASSUME NEW t \in Thread, NEW b \in Block, NEW v \in Value, LogWrite(t, b, v)
      PROVE  DataOK'
  BY <1>1 DEF LogWrite
<1>2. ASSUME sys = "up", NEW t \in Thread, WriteLog(t)
      PROVE  DataOK'
  <2>1. tail \in 1 .. Len(lh) /\ lh[tail] \in Block
    BY <1>2 DEF WriteLog, PhaseInv, Phase, HeadOK, CommitLabels
  <2> QED
    BY <1>2, <2>1 DEF WriteLog, HeadOK
<1>3. ASSUME sys = "up", NEW t \in Thread, Install(t)
      PROVE  DataOK'
  <2>1. tail \in 1 .. Len(lh) /\ lh[tail] \in Block
    BY <1>3 DEF Install, PhaseInv, Phase, HeadOK, CommitLabels
  <2>2. tail \in Pending
    BY <1>3, <2>1 DEF Install, Pending, HeadOK
  <2>3. pins[lh[tail]] = 1
    BY <1>3, <2>1, <2>2 DEF PinInv
  <2>4. logblk[tail] \in Value
    BY <2>1, LogAssumption DEF HeadOK
  <2> QED
    BY <1>3, <2>1, <2>3, <2>4 DEF Install
<1>4. CASE sys = "recover" /\ RecoverInstall
  <2>1. tail \in 1 .. Len(lh) /\ lh[tail] \in Block
    BY <1>4 DEF RecoverInstall, HeadOK
  <2>2. logblk[tail] \in Value
    BY <2>1, LogAssumption DEF HeadOK
  <2> QED
    BY <1>4, <2>1, <2>2 DEF RecoverInstall
<1>5. ASSUME NEW t \in Thread, BeginOp(t) \/ EndOp(t) \/ WriteHead(t) \/ ClearHead(t) \/ CommitDone(t)
      PROVE  DataOK'
  BY <1>5 DEF BeginOp, EndOp, WriteHead, ClearHead, CommitDone
<1>6. CASE Crash \/ RecoverDone
  BY <1>6 DEF Crash, RecoverDone
<1>7. ASSUME NEW b \in Block, Evict(b)
      PROVE  DataOK'
  BY <1>7 DEF Evict
<1> QED
  BY <1>1, <1>2, <1>3, <1>4, <1>5, <1>6, <1>7 DEF Next, ThreadStep, Recover

LEMMA HeadStep ==
    ASSUME HeadOK, CountInv, Next
    PROVE  HeadOK'
<1> USE LogAssumption DEF HeadOK
<1>1. ASSUME NEW t \in Thread, NEW b \in Block, NEW v \in Value, LogWrite(t, b, v)
      PROVE  HeadOK'
  <2>1. CASE lh' = lh
    BY <1>1, <2>1 DEF LogWrite
  <2>2. CASE lh' # lh
    <3>1. lh' = Append(lh, b) /\ Len(lh) < LOGSIZE
      BY <1>1, <2>2 DEF LogWrite
    <3> QED
      BY <1>1, <3>1 DEF LogWrite
  <2> QED
    BY <2>1, <2>2
<1>2. ASSUME NEW t \in Thread, BeginOp(t)
      PROVE  HeadOK'
  BY <1>2 DEF BeginOp
<1>3. ASSUME NEW t \in Thread, EndOp(t)
      PROVE  HeadOK'
  <2>1. outstanding - 1 \in Nat
    <3>1. t \in Active
      BY <1>3 DEF EndOp, Active
    <3>2. Cardinality(Active \ {t}) \in Nat /\ Cardinality(Active \ {t}) = outstanding - 1
      BY <3>1, FS_RemoveElement, FS_CardinalityType DEF CountInv
    <3> QED
      BY <3>2
  <2> QED
    BY <1>3, <2>1 DEF EndOp
<1>4. ASSUME NEW t \in Thread, WriteLog(t) \/ Install(t)
      PROVE  HeadOK'
  BY <1>4 DEF WriteLog, Install
<1>5. ASSUME NEW t \in Thread, WriteHead(t) \/ CommitDone(t)
      PROVE  HeadOK'
  BY <1>5 DEF WriteHead, CommitDone
<1>6. ASSUME NEW t \in Thread, ClearHead(t)
      PROVE  HeadOK'
  BY <1>6 DEF ClearHead
<1>7. CASE Crash
  BY <1>7 DEF Crash
<1>8. CASE Recover
  <2>1. CASE RecoverInstall
    BY <2>1 DEF RecoverInstall
  <2>2. CASE RecoverDone
    BY <2>2 DEF RecoverDone
  <2> QED
    BY <1>8, <2>1, <2>2 DEF Recover
<1>9. ASSUME NEW b \in Block, Evict(b)
      PROVE  HeadOK'
  BY <1>9 DEF Evict
<1> QED
  BY <1>1, <1>2, <1>3, <1>4, <1>5, <1>6, <1>7, <1>8, <1>9 DEF Next, ThreadStep

LEMMA CtlStep ==
    ASSUME CtlOK, Next
    PROVE  CtlOK'
<1> USE DEF CtlOK
<1>1. ASSUME NEW t \in Thread, BeginOp(t) \/ EndOp(t)
      PROVE  CtlOK'
  BY <1>1 DEF BeginOp, EndOp, Goto, Woken, CommitLabels
<1>2. ASSUME NEW t \in Thread, NEW b \in Block, NEW v \in Value, LogWrite(t, b, v)
      PROVE  CtlOK'
  BY <1>2 DEF LogWrite
<1>3. ASSUME NEW t \in Thread, WriteLog(t) \/ WriteHead(t) \/ Install(t) \/ ClearHead(t) \/ CommitDone(t)
      PROVE  CtlOK'
  BY <1>3 DEF WriteLog, WriteHead, Install, ClearHead, CommitDone, Goto, Woken, CommitLabels
<1>4. CASE Crash \/ Recover
  BY <1>4 DEF Crash, Recover, RecoverInstall, RecoverDone
<1>5. ASSUME NEW b \in Block, Evict(b)
      PROVE  CtlOK'
  BY <1>5 DEF Evict
<1> QED
  BY <1>1, <1>2, <1>3, <1>4, <1>5 DEF Next, ThreadStep

LEMMA CommitStep ==
    ASSUME TypeOK, CountInv, CommitInv, PhaseInv, Next
    PROVE  CommitInv'
<1>1. ASSUME sys = "up", NEW t \in Thread, BeginOp(t)
      PROVE  CommitInv'
  <2>1. \A u \in Thread : pc'[u] \in CommitLabels <=> pc[u] \in CommitLabels
    BY <1>1 DEF BeginOp, Goto, CommitLabels, TypeOK
  <2>2. committing => outstanding' = 0
    BY <1>1 DEF BeginOp, Admits, CommitInv
  <2>3. outstanding' = 0 => outstanding = 0
    BY <1>1 DEF BeginOp, TypeOK
  <2> QED
    BY <1>1, <2>1, <2>2, <2>3 DEF BeginOp, CommitInv
<1>2. ASSUME sys = "up", NEW t \in Thread, EndOp(t)
      PROVE  CommitInv'
  <2>1. ~committing /\ \A u \in Thread : pc[u] \notin CommitLabels
    <3>1. t \in Active
      BY <1>2 DEF EndOp, Active
    <3> QED
      BY <3>1, ActiveStep DEF CommitInv, CountInv
  <2>2. CASE outstanding' = 0
    <3>1. /\ committing' = TRUE /\ sys' = "up"
          /\ pc' = [pc EXCEPT ![t] = IF lh = <<>> THEN "commit_done" ELSE "write_log"]
      BY <1>2, <2>1, <2>2 DEF EndOp, Goto
    <3>2. \A u \in Thread : pc'[u] \in CommitLabels <=> u = t
      BY <2>1, <3>1 DEF CommitLabels, TypeOK
    <3> QED
      BY <2>2, <3>1, <3>2 DEF CommitInv
  <2>3. CASE outstanding' # 0
    <3>1. committing' = FALSE /\ sys' = "up" /\ pc' = Woken(t, "idle")
      BY <1>2, <2>1, <2>3 DEF EndOp, TypeOK
    <3>2. \A u \in Thread : pc'[u] \notin CommitLabels
      BY <2>1, <3>1 DEF CommitLabels, Woken, TypeOK
    <3> QED
      BY <2>3, <3>1, <3>2 DEF CommitInv
  <2> QED
    BY <2>2, <2>3
<1>3. ASSUME sys = "up", NEW t \in Thread, NEW b \in Block, NEW v \in Value, LogWrite(t, b, v)
      PROVE  CommitInv'
  <2>1. outstanding # 0
    <3>1. t \in Active
      BY <1>3 DEF LogWrite, Active
    <3> QED
      BY <3>1, ActiveStep DEF CountInv
  <2> QED
    BY <1>3, <2>1 DEF LogWrite, CommitInv
<1>4. ASSUME sys = "up", NEW t \in Thread, WriteLog(t) \/ WriteHead(t) \/ Install(t) \/ ClearHead(t)
      PROVE  CommitInv'
  <2>1. \A u \in Thread : pc'[u] \in CommitLabels <=> pc[u] \in CommitLabels
    BY <1>4 DEF WriteLog, WriteHead, Install, ClearHead, Goto, CommitLabels, TypeOK
  <2>2. committing
    BY <1>4 DEF WriteLog, WriteHead, Install, ClearHead, CommitLabels, CommitInv
  <2>3. UNCHANGED <<outstanding, committing, sys>>
    BY <1>4 DEF WriteLog, WriteHead, Install, ClearHead
  <2> QED
    BY <1>4, <2>1, <2>2, <2>3 DEF CommitInv
<1>5. ASSUME sys = "up", NEW t \in Thread, CommitDone(t)
      PROVE  CommitInv'
  <2>1. \A u \in Thread : pc'[u] \notin CommitLabels
    BY <1>5 DEF CommitDone, Woken, CommitLabels, CommitInv, TypeOK
  <2>2. lh = <<>>
    BY <1>5 DEF CommitDone, PhaseInv, Phase, CommitLabels
  <2> QED
    BY <1>5, <2>1, <2>2 DEF CommitDone, CommitInv
<1>6. CASE Crash
  BY <1>6 DEF Crash, CommitInv, CommitLabels
<1>7. CASE Recover
  BY <1>7 DEF Recover, RecoverInstall, RecoverDone, CommitInv, CommitLabels
<1>8. ASSUME sys = "up", NEW b \in Block, Evict(b)
      PROVE  CommitInv'
  BY <1>8 DEF Evict, CommitInv
<1> QED
  BY <1>1, <1>2, <1>3, <1>4, <1>5, <1>6, <1>7, <1>8 DEF Next, ThreadStep

\* The thread that puts itself to sleep in begin_op() leaves behind an operation or a
\* committer, because the log has room for one operation when it is empty.
LEMMA WakerStep ==
    ASSUME TypeOK, CountInv, CommitInv, SleeperHasWaker, Next
    PROVE  SleeperHasWaker'
<1> DEFINE Waker(u) == pc[u] \in CommitLabels \cup {"op"}
<1>1. ASSUME sys = "up", NEW t \in Thread, BeginOp(t)
      PROVE  SleeperHasWaker'
  <2>1. \A u \in Thread : Waker(u) => u # t /\ Waker(u)'
    BY <1>1 DEF BeginOp, Goto, CommitLabels, TypeOK
  <2>2. CASE Admits
    BY <1>1, <2>2 DEF BeginOp, Goto, SleeperHasWaker, TypeOK
  <2>3. CASE ~Admits
    <3>1. \E u \in Thread : Waker(u)
      <4>1. CASE committing
        BY <4>1 DEF CommitInv
      <4>2. CASE ~committing
        <5>1. outstanding # 0
          <6>1. SUFFICES ASSUME outstanding = 0 PROVE FALSE
            OBVIOUS
          <6>2. Len(lh) = 0
            BY <1>1, <4>2, <6>1 DEF CommitInv
          <6> QED
            BY <2>3, <4>2, <6>1, <6>2, LogAssumption DEF Admits
        <5>2. Active # {}
          BY <5>1, FS_EmptySet DEF CountInv
        <5> QED
          BY <5>2 DEF Active
      <4> QED
        BY <4>1, <4>2
    <3> QED
      BY <2>1, <3>1 DEF SleeperHasWaker
  <2> QED
    BY <2>2, <2>3
<1>2. ASSUME sys = "up", NEW t \in Thread, EndOp(t)
      PROVE  SleeperHasWaker'
  <2>1. ~committing
    <3>1. t \in Active
      BY <1>2 DEF EndOp, Active
    <3> QED
      BY <3>1, ActiveStep DEF CommitInv, CountInv
  <2>2. CASE outstanding' = 0
    BY <1>2, <2>1, <2>2 DEF EndOp, Goto, SleeperHasWaker, CommitLabels, TypeOK
  <2>3. CASE outstanding' # 0
    BY <1>2, <2>1, <2>3 DEF EndOp, Woken, SleeperHasWaker, TypeOK
  <2> QED
    BY <2>2, <2>3
<1>3. ASSUME sys = "up", NEW t \in Thread, NEW b \in Block, NEW v \in Value, LogWrite(t, b, v)
      PROVE  SleeperHasWaker'
  BY <1>3 DEF LogWrite, SleeperHasWaker
<1>4. ASSUME sys = "up", NEW t \in Thread, WriteLog(t) \/ WriteHead(t) \/ Install(t) \/ ClearHead(t)
      PROVE  SleeperHasWaker'
  BY <1>4 DEF WriteLog, WriteHead, Install, ClearHead, Goto, SleeperHasWaker, CommitLabels, TypeOK
<1>5. ASSUME sys = "up", NEW t \in Thread, CommitDone(t)
      PROVE  SleeperHasWaker'
  BY <1>5 DEF CommitDone, Woken, SleeperHasWaker, TypeOK
<1>6. CASE Crash
  BY <1>6 DEF Crash, SleeperHasWaker
<1>7. CASE Recover \/ \E b \in Block : Evict(b)
  BY <1>7 DEF Recover, RecoverInstall, RecoverDone, Evict, SleeperHasWaker
<1> QED
  BY <1>1, <1>2, <1>3, <1>4, <1>5, <1>6, <1>7 DEF Next, ThreadStep

-----------------------------------------------------------------------------
(* The space in the log. *)

LEMMA SpareBound ==
    ASSUME NEW A, IsFiniteSet(A), NEW w
    PROVE  /\ IsFiniteSet(Spare(A, w)) /\ Cardinality(Spare(A, w)) \in Nat
           /\ Cardinality(Spare(A, w)) <= Cardinality(A) * MAXOPBLOCKS
<1>1. IsFiniteSet(1 .. MAXOPBLOCKS) /\ Cardinality(1 .. MAXOPBLOCKS) = MAXOPBLOCKS
  BY FS_Interval, LogAssumption
<1>2. /\ IsFiniteSet(A \X (1 .. MAXOPBLOCKS))
      /\ Cardinality(A \X (1 .. MAXOPBLOCKS)) = Cardinality(A) * MAXOPBLOCKS
  BY <1>1, FS_Product
<1>3. Spare(A, w) \subseteq A \X (1 .. MAXOPBLOCKS)
  BY DEF Spare
<1> QED
  BY <1>2, <1>3, FS_Subset, FS_CardinalityType

\* An operation has a block to spare whatever it has written.
LEMMA SpareOfActive ==
    ASSUME Fits, SpaceInv, CountInv, NEW t \in Active
    PROVE  <<t, 1>> \in Spare(Active, written)
<1>1. /\ t \in Thread /\ Cardinality(written[t]) <= OpBlocks
      /\ Cardinality(written[t]) \in Nat
  BY FS_CardinalityType DEF SpaceInv, Active
<1>2. 1 <= MAXOPBLOCKS - Cardinality(written[t]) /\ 1 \in 1 .. MAXOPBLOCKS
  BY <1>1, LogAssumption DEF Fits
<1> QED
  BY <1>2 DEF Spare

\* So log_write() finds the log shorter than it accepts.
LEMMA RoomToWrite ==
    ASSUME Fits, TypeOK, SpaceInv, CountInv, sys = "up", NEW t \in Thread, pc[t] = "op"
    PROVE  Len(lh) < LOGSIZE - 1 /\ outstanding >= 1
<1> DEFINE S == Spare(Active, written)
<1>1. t \in Active /\ IsFiniteSet(Active)
  BY DEF Active, CountInv
<1>2. <<t, 1>> \in S /\ IsFiniteSet(S) /\ Cardinality(S) \in Nat
  BY <1>1, SpareOfActive, SpareBound
<1>3. outstanding \in Nat \ {0}
  BY <1>1, FS_EmptySet DEF CountInv, TypeOK
<1>4. Len(lh) \in Nat /\ LOGSIZE \in Nat
  BY LogAssumption DEF TypeOK
<1>5. CASE outstanding <= 1
  <2>1. Cardinality(S) # 0
    BY <1>2, FS_EmptySet
  <2>2. Len(lh) + Cardinality(S) <= LOGSIZE - 1
    BY <1>5 DEF SpaceInv
  <2> QED
    BY <1>2, <1>3, <1>4, <2>1, <2>2
<1>6. CASE ~(outstanding <= 1)
  <2>1. PICK u \in Active : u # t
    <3>1. Cardinality(Active \ {t}) = outstanding - 1 /\ IsFiniteSet(Active \ {t})
      BY <1>1, FS_RemoveElement DEF CountInv
    <3>2. Active \ {t} # {}
      BY <1>3, <1>6, <3>1, FS_EmptySet
    <3> QED
      BY <3>2
  <2>2. <<u, 1>> \in S \ {<<t, 1>>}
    BY <2>1, SpareOfActive
  <2>3. /\ IsFiniteSet(S \ {<<t, 1>>}) /\ Cardinality(S \ {<<t, 1>>}) = Cardinality(S) - 1
        /\ Cardinality(S \ {<<t, 1>>}) \in Nat
    BY <1>2, FS_RemoveElement, FS_CardinalityType
  <2>4. Cardinality(S \ {<<t, 1>>}) # 0
    BY <2>2, <2>3, FS_EmptySet
  <2>5. Len(lh) + Cardinality(S) <= LOGSIZE
    BY <1>4, <1>6 DEF SpaceInv
  <2> QED
    BY <1>2, <1>3, <1>4, <2>3, <2>4, <2>5
<1> QED
  BY <1>5, <1>6

LEMMA SpaceStep ==
    ASSUME Fits, TypeOK, CountInv, CommitInv, SpaceInv, TypeOK', CountInv', Next
    PROVE  SpaceInv'
<1> DEFINE S == Spare(Active, written)
<1>0. /\ IsFiniteSet(S) /\ Cardinality(S) \in Nat
      /\ IsFiniteSet(S') /\ Cardinality(S') \in Nat
      /\ Cardinality(S') <= outstanding' * MAXOPBLOCKS
      /\ Len(lh) \in Nat /\ LOGSIZE \in Nat /\ MAXOPBLOCKS \in Nat /\ outstanding \in Nat
      /\ outstanding' \in Nat
  BY SpareBound, LogAssumption DEF CountInv, TypeOK
<1>1. ASSUME sys = "up", NEW t \in Thread, BeginOp(t)
      PROVE  SpaceInv'
  <2>1. \A u \in Thread : /\ pc'[u] = "op" => pc[u] = "op" \/ written[u] = {}
                          /\ pc'[u] # "op" => written[u] = {}
    BY <1>1 DEF BeginOp, Goto, SpaceInv, TypeOK
  <2>2. Cardinality({}) = 0
    BY FS_EmptySet
  <2>3. \A u \in Thread :
          /\ IsFiniteSet(written'[u])
          /\ pc'[u] = "op" => Cardinality(written'[u]) <= OpBlocks
          /\ pc'[u] = "op" => written'[u] \subseteq Blocks(lh)
          /\ pc'[u] # "op" => written'[u] = {}
    <3> TAKE u \in Thread
    <3>1. written'[u] = written[u] /\ IsFiniteSet(written[u])
      BY <1>1 DEF BeginOp, SpaceInv
    <3>2. CASE pc[u] = "op"
      BY <1>1, <2>1, <3>1, <3>2 DEF SpaceInv
    <3>3. CASE pc[u] # "op"
      <4>1. written[u] = {}
        BY <3>3 DEF SpaceInv
      <4>2. 0 <= OpBlocks
        BY LogAssumption
      <4> QED
        BY <2>2, <3>1, <4>1, <4>2
    <3> QED
      BY <3>2, <3>3
  <2>4. Len(lh) + Cardinality(S') <= LOGSIZE - (IF outstanding' <= 1 THEN 1 ELSE 0)
    <3>1. CASE Admits /\ outstanding = 0
      <4>1. Len(lh) = 0 /\ outstanding' = 1
        BY <1>1, <3>1 DEF BeginOp, Admits, CommitInv
      <4>2. outstanding' * MAXOPBLOCKS = MAXOPBLOCKS
        BY <1>0, <4>1
      <4> QED
        BY <1>0, <4>1, <4>2 DEF Fits
    <3>2. CASE Admits /\ outstanding # 0
      <4>1. Len(lh) + outstanding' * MAXOPBLOCKS <= LOGSIZE /\ ~(outstanding' <= 1)
        BY <1>0, <1>1, <3>2 DEF BeginOp, Admits
      <4>2. outstanding' * MAXOPBLOCKS \in Int
        BY <1>0
      <4> QED
        BY <1>0, <4>1, <4>2
    <3>3. CASE ~Admits
      <4>1. Active' = Active /\ written' = written /\ outstanding' = outstanding
        BY <1>1, <3>3 DEF BeginOp, Goto, Active, TypeOK
      <4> QED
        BY <1>1, <4>1 DEF SpaceInv
    <3> QED
      BY <3>1, <3>2, <3>3
  <2> QED
    BY <1>1, <2>3, <2>4 DEF BeginOp, SpaceInv, Blocks
<1>2. ASSUME sys = "up", NEW t \in Thread, EndOp(t)
      PROVE  SpaceInv'
  <2>1. t \in Active /\ ~committing
    <3>1. t \in Active
      BY <1>2 DEF EndOp, Active
    <3> QED
      BY <3>1, ActiveStep DEF CommitInv, CountInv
  <2>2. /\ \A u \in Thread : pc'[u] = "op" <=> u # t /\ pc[u] = "op"
        /\ written' = [written EXCEPT ![t] = {}] /\ sys' = "up" /\ lh' = lh
    BY <1>2, <2>1 DEF EndOp, Goto, Woken, CommitLabels, TypeOK
  <2>3. \A u \in Thread :
          /\ IsFiniteSet(written'[u])
          /\ pc'[u] = "op" => Cardinality(written'[u]) <= OpBlocks
          /\ pc'[u] = "op" => written'[u] \subseteq Blocks(lh')
          /\ pc'[u] # "op" => written'[u] = {}
    BY <1>2, <2>2, FS_EmptySet DEF SpaceInv, Blocks, TypeOK
  <2>4. S' \subseteq S \ {<<t, 1>>}
    <3>1. \A u \in Active' : u \in Active /\ u # t /\ written'[u] = written[u]
      BY <2>2 DEF Active, TypeOK
    <3> QED
      BY <3>1 DEF Spare
  <2>5. Cardinality(S \ {<<t, 1>>}) = Cardinality(S) - 1 /\ IsFiniteSet(S \ {<<t, 1>>})
    BY <1>0, <2>1, SpareOfActive, FS_RemoveElement
  <2>6. Cardinality(S') <= Cardinality(S) - 1
    BY <2>4, <2>5, FS_Subset
  <2>7. Len(lh) + Cardinality(S) <= LOGSIZE
    BY <1>0, <1>2 DEF SpaceInv
  <2>8. Len(lh) + Cardinality(S') <= LOGSIZE - 1
    BY <1>0, <2>6, <2>7
  <2>9. Len(lh') + Cardinality(S') <= LOGSIZE - (IF outstanding' <= 1 THEN 1 ELSE 0)
    BY <1>0, <2>2, <2>8
  <2> QED
    BY <2>2, <2>3, <2>9 DEF SpaceInv
<1>3. ASSUME sys = "up", NEW t \in Thread, NEW b \in Block, NEW v \in Value, LogWrite(t, b, v)
      PROVE  SpaceInv'
  <2>1. t \in Active /\ Active' = Active /\ pc' = pc /\ pc[t] = "op" /\ outstanding' = outstanding
    BY <1>3 DEF LogWrite, Active
  <2>2. Len(lh) < LOGSIZE - 1 /\ outstanding >= 1
    BY <1>3, <2>1, RoomToWrite
  <2>3. ~(Len(lh) >= LOGSIZE) /\ ~(Len(lh) >= LogBlocks - 1) /\ ~(outstanding < 1)
    BY <1>0, <2>2, LogAssumption DEF Fits
  <2>4. /\ sys' = "up" /\ written' = [written EXCEPT ![t] = @ \cup {b}]
        /\ lh' = IF b \in Blocks(lh) THEN lh ELSE Append(lh, b)
    BY <1>3, <2>3 DEF LogWrite
  <2>5. Blocks(lh') = Blocks(lh) \cup {b} /\ Len(lh') <= Len(lh) + 1
    <3>1. CASE b \in Blocks(lh)
      BY <1>0, <2>4, <3>1
    <3>2. CASE b \notin Blocks(lh)
      <4>1. lh' = Append(lh, b) /\ lh \in Seq(Block)
        BY <2>4, <3>2 DEF TypeOK
      <4>2. /\ DOMAIN lh' = DOMAIN lh \cup {Len(lh) + 1} /\ lh'[Len(lh) + 1] = b
            /\ \A k \in DOMAIN lh : lh'[k] = lh[k]
            /\ Len(lh') = Len(lh) + 1
        BY <4>1
      <4> QED
        BY <1>0, <4>2 DEF Blocks
    <3> QED
      BY <3>1, <3>2
  <2>6. /\ \A u \in Thread : u # t => written'[u] = written[u]
        /\ written'[t] = written[t] \cup {b}
    BY <2>4 DEF TypeOK
  <2>7. /\ IsFiniteSet(written[t]) /\ IsFiniteSet(written'[t])
        /\ Cardinality(written[t]) \in Nat
        /\ Cardinality(written'[t]) <= OpBlocks
        /\ Cardinality(written'[t]) =
             IF b \in written[t] THEN Cardinality(written[t]) ELSE Cardinality(written[t]) + 1
    <3>1. IsFiniteSet(written[t])
      BY DEF SpaceInv
    <3>2. Cardinality(written[t] \cup {b}) <= OpBlocks
      BY <1>3 DEF LogWrite
    <3>3. /\ IsFiniteSet(written[t] \cup {b}) /\ Cardinality(written[t]) \in Nat
          /\ b \in written[t] => Cardinality(written[t] \cup {b}) = Cardinality(written[t])
          /\ b \notin written[t] => Cardinality(written[t] \cup {b}) = Cardinality(written[t]) + 1
      BY <3>1, FS_AddElement, FS_CardinalityType
    <3> QED
      BY <2>6, <3>1, <3>2, <3>3
  <2>8. \A u \in Thread :
          /\ IsFiniteSet(written'[u])
          /\ pc'[u] = "op" => Cardinality(written'[u]) <= OpBlocks
          /\ pc'[u] = "op" => written'[u] \subseteq Blocks(lh')
          /\ pc'[u] # "op" => written'[u] = {}
    BY <1>3, <2>1, <2>5, <2>6, <2>7 DEF SpaceInv
  <2>9. Len(lh') + Cardinality(S') <= Len(lh) + Cardinality(S)
    <3>1. CASE b \in written[t]
      <4>1. written' = written
        BY <2>4, <3>1 DEF TypeOK
      <4>2. lh' = lh
        BY <1>3, <2>1, <2>4, <3>1 DEF SpaceInv
      <4> QED
        BY <1>0, <2>1, <4>1, <4>2
    <3>2. CASE b \notin written[t]
      <4> DEFINE c == MAXOPBLOCKS - Cardinality(written[t])
      <4>1. c \in 1 .. MAXOPBLOCKS /\ MAXOPBLOCKS - Cardinality(written'[t]) = c - 1
        BY <1>0, <2>7, <3>2, LogAssumption DEF Fits
      <4>2. S' \subseteq S \ {<<t, c>>}
        <5> SUFFICES ASSUME NEW p \in S'
                     PROVE  p \in S /\ p # <<t, c>>
          OBVIOUS
        <5>1. /\ p \in Active \X (1 .. MAXOPBLOCKS)
              /\ p[2] <= MAXOPBLOCKS - Cardinality(written'[p[1]])
              /\ p[1] \in Thread
          BY <2>1 DEF Spare, Active
        <5>2. CASE p[1] = t
          <6>1. p[2] <= c - 1 /\ p[2] \in Nat
            BY <4>1, <5>1, <5>2
          <6>2. p[2] <= c /\ p[2] # c
            BY <4>1, <6>1
          <6> QED
            BY <5>1, <5>2, <6>2 DEF Spare
        <5>3. CASE p[1] # t
          BY <2>6, <5>1, <5>3 DEF Spare
        <5> QED
          BY <5>2, <5>3
      <4>3. <<t, c>> \in S
        BY <1>0, <2>1, <2>7, <4>1 DEF Spare
      <4>4. Cardinality(S \ {<<t, c>>}) = Cardinality(S) - 1 /\ IsFiniteSet(S \ {<<t, c>>})
        BY <1>0, <4>3, FS_RemoveElement
      <4>5. Cardinality(S') <= Cardinality(S) - 1
        BY <4>2, <4>4, FS_Subset
      <4>6. Len(lh') \in Nat
        BY DEF TypeOK
      <4> HIDE DEF c, S
      <4> QED
        BY <1>0, <2>5, <4>5, <4>6
    <3> QED
      BY <3>1, <3>2
  <2>10. Len(lh') + Cardinality(S') <= LOGSIZE - (IF outstanding' <= 1 THEN 1 ELSE 0)
    <3>1. Len(lh) + Cardinality(S) <= LOGSIZE - (IF outstanding' <= 1 THEN 1 ELSE 0)
      BY <1>3, <2>1 DEF SpaceInv
    <3>2. Len(lh') \in Nat
      BY DEF TypeOK
    <3> QED
      BY <1>0, <2>9, <3>1, <3>2
  <2> QED
    BY <2>4, <2>8, <2>10 DEF SpaceInv
<1>4. ASSUME sys = "up", NEW t \in Thread,
             WriteLog(t) \/ WriteHead(t) \/ Install(t) \/ ClearHead(t) \/ CommitDone(t)
      PROVE  SpaceInv'
  <2>1. /\ \A u \in Thread : pc'[u] = "op" <=> pc[u] = "op"
        /\ written' = written /\ sys' = sys /\ outstanding' = outstanding
    <3>1. CASE WriteLog(t) \/ WriteHead(t)
      BY <3>1 DEF WriteLog, WriteHead, Goto, TypeOK
    <3>2. CASE Install(t)
      <4>1. pc[t] = "install" /\ (pc' = pc \/ pc' = [pc EXCEPT ![t] = "clear_head"])
        BY <3>2 DEF Install, Goto
      <4> QED
        BY <3>2, <4>1 DEF Install, TypeOK
    <3>3. CASE ClearHead(t)
      BY <3>3 DEF ClearHead, Goto, TypeOK
    <3>4. CASE CommitDone(t)
      BY <3>4 DEF CommitDone, Woken, TypeOK
    <3> QED
      BY <1>4, <3>1, <3>2, <3>3, <3>4
  <2>2. \A u \in Thread : pc[u] # "op"
    <3>1. outstanding = 0
      BY <1>4 DEF WriteLog, WriteHead, Install, ClearHead, CommitDone, CommitInv, CommitLabels
    <3> QED
      BY <3>1, ActiveStep DEF CountInv, Active
  <2>3. Active' = Active
    BY <2>1 DEF Active
  <2>4. Len(lh') <= Len(lh) /\ Len(lh') \in Nat
    BY <1>0, <1>4 DEF WriteLog, WriteHead, Install, ClearHead, CommitDone
  <2>5. Len(lh) + Cardinality(S) <= LOGSIZE - (IF outstanding' <= 1 THEN 1 ELSE 0)
    BY <1>4, <2>1 DEF SpaceInv
  <2>6. Len(lh') + Cardinality(S') <= LOGSIZE - (IF outstanding' <= 1 THEN 1 ELSE 0)
    BY <1>0, <2>1, <2>3, <2>4, <2>5
  <2> QED
    BY <2>1, <2>2, <2>6 DEF SpaceInv
<1>5. CASE Crash
  BY <1>5, FS_EmptySet DEF Crash, SpaceInv
<1>6. CASE Recover
  <2>1. \A u \in Thread : pc[u] = "idle"
    BY <1>6 DEF Recover, CommitInv
  <2>2. CASE RecoverInstall
    BY <1>6, <2>1, <2>2 DEF Recover, RecoverInstall, SpaceInv
  <2>3. CASE RecoverDone
    <3>1. /\ lh' = <<>> /\ sys' = "up" /\ outstanding' = outstanding
          /\ pc' = pc /\ written' = written /\ Active' = {}
      BY <2>1, <2>3 DEF RecoverDone, Active
    <3>2. outstanding' = 0 /\ Cardinality(S') = 0
      <4>1. S' = {}
        BY <3>1 DEF Spare
      <4> QED
        BY <3>1, <4>1, FS_EmptySet DEF CountInv
    <3>3. Len(lh') = 0
      BY <3>1
    <3>4. Len(lh') + Cardinality(S') <= LOGSIZE - (IF outstanding' <= 1 THEN 1 ELSE 0)
      BY <1>0, <3>2, <3>3 DEF Fits
    <3> QED
      BY <2>1, <3>1, <3>4 DEF SpaceInv
  <2> QED
    BY <1>6, <2>2, <2>3 DEF Recover
<1>7. ASSUME sys = "up", NEW b \in Block, Evict(b)
      PROVE  SpaceInv'
  BY <1>7 DEF Evict, SpaceInv, Active, Blocks
<1> QED
  BY <1>1, <1>2, <1>3, <1>4, <1>5, <1>6, <1>7 DEF Next, ThreadStep
=============================================================================
