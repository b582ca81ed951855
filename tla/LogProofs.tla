------------------------------ MODULE LogProofs ------------------------------
(***************************************************************************)
(* The redo log, for every number of threads, blocks and values and every  *)
(* size of the log: the consistency of its state, and that it implements   *)
(* AtomicDisk across crashes, recovery included.                           *)
(***************************************************************************)
EXTENDS LogOps

USE DEF diskVars, cacheVars, logVars

-----------------------------------------------------------------------------
(* Which entries of the transaction are not yet at home. *)

LEMMA PendingIs ==
    ASSUME TypeOK, CommitInv, NEW t \in Thread, pc[t] \in CommitLabels
    PROVE  /\ pc[t] = "install" => Pending = tail .. Len(lh)
           /\ pc[t] = "clear_head" => Pending = {}
           /\ pc[t] \notin {"install", "clear_head"} => Pending = 1 .. Len(lh)
<1>1. \A u \in Thread : pc[u] \in {"install", "clear_head"} => u = t
  BY DEF CommitInv, CommitLabels
<1> QED
  BY <1>1 DEF Pending

LEMMA PendingWithoutCommit ==
    ASSUME CommitInv, ~committing
    PROVE  Pending = 1 .. Len(lh)
BY DEF CommitInv, Pending, CommitLabels

\* bget() cannot lose a change: the block it reads again is the one it dropped.
LEMMA EvictKeeps ==
    ASSUME TypeOK, PinInv, sys = "up", NEW b \in Block, Evict(b)
    PROVE  cache' = cache
BY DEF TypeOK, PinInv, Evict

\* The transaction when log_write() returns.
LEMMA LogWriteKeeps ==
    ASSUME TypeOK, CountInv, CommitInv, PhaseInv, NEW t \in Thread, NEW b \in Block,
           NEW v \in Value, LogWrite(t, b, v)
    PROVE  /\ ~committing /\ Distinct(lh')
           /\ \/ lh' = lh /\ pins' = pins /\ (sys' = "panic" \/ b \in Blocks(lh))
              \/ /\ lh' = Append(lh, b) /\ b \notin Blocks(lh)
                 /\ pins' = [pins EXCEPT ![b] = @ + 1]
<1>1. ~committing
  <2>1. t \in Active
    BY DEF LogWrite, Active
  <2> QED
    BY <2>1, ActiveStep DEF CommitInv, CountInv
<1>2. CASE lh' = Append(lh, b) /\ b \notin Blocks(lh) /\ pins' = [pins EXCEPT ![b] = @ + 1]
  <2>1. \A k \in DOMAIN lh : lh[k] # b
    BY <1>2 DEF Blocks
  <2>2. lh \in Seq(Block)
    BY DEF TypeOK
  <2>3. Distinct(lh)
    BY DEF PhaseInv
  <2>4. Distinct(lh')
    BY <1>2, <2>1, <2>2, <2>3 DEF Distinct
  <2> QED
    BY <1>1, <1>2, <2>4
<1>3. CASE lh' = lh /\ pins' = pins /\ (sys' = "panic" \/ b \in Blocks(lh))
  BY <1>1, <1>3 DEF PhaseInv, Distinct
<1> QED
  BY <1>2, <1>3 DEF LogWrite

-----------------------------------------------------------------------------
(* The phases of commit(). *)

LEMMA PhaseStep ==
    ASSUME TypeOK, CountInv, CommitInv, PhaseInv, PinInv, RecoverInv, Next
    PROVE  PhaseInv'
<1> DEFINE Others(t) == \A u \in Thread : u # t => pc'[u] \notin CommitLabels
<1>1. ASSUME sys = "up", NEW t \in Thread, BeginOp(t)
      PROVE  PhaseInv'
  <2>1. \A u \in Thread : pc'[u] \in CommitLabels => pc'[u] = pc[u]
    BY <1>1 DEF BeginOp, Goto, CommitLabels, TypeOK
  <2>2. UNCHANGED <<diskVars, cacheVars, lh, committing, tail, sys>>
    BY <1>1 DEF BeginOp
  <2> QED
    BY <2>1, <2>2 DEF PhaseInv, Phase, Distinct
<1>2. ASSUME sys = "up", NEW t \in Thread, EndOp(t)
      PROVE  PhaseInv'
  <2>1. ~committing /\ (\A u \in Thread : pc[u] \notin CommitLabels)
    <3>1. t \in Active
      BY <1>2 DEF EndOp, Active
    <3> QED
      BY <3>1, ActiveStep DEF CommitInv, CountInv
  <2>2. head = <<>>
    BY <1>2, <2>1 DEF PhaseInv
  <2>3. UNCHANGED <<diskVars, cacheVars, lh, sys>> /\ tail' = 1
    BY <1>2, <2>1 DEF EndOp
  <2>4. \A u \in Thread : pc'[u] \in CommitLabels =>
            pc'[u] = IF lh = <<>> THEN "commit_done" ELSE "write_log"
    BY <1>2, <2>1 DEF EndOp, Goto, Woken, CommitLabels, TypeOK
  <2>5. lh # <<>> => Len(lh) \in Nat \ {0}
    BY DEF TypeOK
  <2>6. \A u \in Thread : pc'[u] \in CommitLabels => Phase(u)'
    BY <2>2, <2>3, <2>4, <2>5 DEF Phase
  <2> QED
    BY <2>2, <2>3, <2>6 DEF PhaseInv, Distinct
<1>3. ASSUME sys = "up", NEW t \in Thread, NEW b \in Block, NEW v \in Value, LogWrite(t, b, v)
      PROVE  PhaseInv'
  <2>1. ~committing /\ Distinct(lh')
    BY <1>3, LogWriteKeeps
  <2>2. \A u \in Thread : pc'[u] \notin CommitLabels
    BY <1>3, <2>1 DEF LogWrite, CommitInv
  <2> QED
    BY <1>3, <2>1, <2>2 DEF LogWrite, PhaseInv, Distinct
<1>4. ASSUME sys = "up", NEW t \in Thread, WriteLog(t)
      PROVE  PhaseInv'
  <2>1. Others(t)
    BY <1>4 DEF WriteLog, Goto, CommitInv, CommitLabels, TypeOK
  <2>2. committing /\ Phase(t) /\ pc[t] = "write_log"
    BY <1>4 DEF WriteLog, CommitInv, PhaseInv, CommitLabels
  <2>3. \A k \in 1 .. tail : logblk'[k] = cache[lh[k]]
    <3>1. tail \in 1 .. LOGSIZE /\ 1 .. tail \subseteq 1 .. LOGSIZE
      BY <2>2, LogAssumption DEF Phase, TypeOK
    <3>2. \A k \in 1 .. tail : k = tail \/ k \in 1 .. tail - 1
      BY <3>1
    <3>3. \A k \in 1 .. tail : logblk'[k] = IF k = tail THEN cache[lh[tail]] ELSE logblk[k]
      BY <1>4, <3>1 DEF WriteLog, TypeOK
    <3> QED
      BY <2>2, <3>2, <3>3 DEF Phase
  <2>4. Phase(t)'
    <3>1. CASE tail < Len(lh)
      BY <1>4, <2>2, <2>3, <3>1 DEF WriteLog, Phase, TypeOK
    <3>2. CASE ~(tail < Len(lh))
      <4>1. pc'[t] = "write_head" /\ tail' = 1 /\ DOMAIN lh = 1 .. tail
        BY <1>4, <2>2, <3>2 DEF WriteLog, Phase, Goto, TypeOK
      <4> QED
        BY <1>4, <2>2, <2>3, <4>1 DEF WriteLog, Phase
    <3> QED
      BY <3>1, <3>2
  <2> QED
    BY <1>4, <2>1, <2>2, <2>4 DEF WriteLog, PhaseInv, Distinct
<1>5. ASSUME sys = "up", NEW t \in Thread, WriteHead(t)
      PROVE  PhaseInv'
  <2>1. Others(t)
    BY <1>5 DEF WriteHead, Goto, CommitInv, CommitLabels, TypeOK
  <2>2. committing /\ Phase(t) /\ pc[t] = "write_head"
    BY <1>5 DEF WriteHead, CommitInv, PhaseInv, CommitLabels
  <2>3. pc'[t] = "install"
    BY <1>5 DEF WriteHead, Goto, TypeOK
  <2>4. Phase(t)'
    BY <1>5, <2>2, <2>3 DEF WriteHead, Phase
  <2> QED
    BY <1>5, <2>1, <2>2, <2>4 DEF WriteHead, PhaseInv, Distinct
<1>6. ASSUME sys = "up", NEW t \in Thread, Install(t)
      PROVE  PhaseInv'
  <2>1. Others(t)
    BY <1>6 DEF Install, Goto, CommitInv, CommitLabels, TypeOK
  <2>2. committing /\ Phase(t) /\ pc[t] = "install"
    BY <1>6 DEF Install, CommitInv, PhaseInv, CommitLabels
  <2>3. tail \in 1 .. Len(lh) /\ lh[tail] \in Block /\ cache' = cache
    <3>1. tail \in 1 .. Len(lh) /\ lh[tail] \in Block
      BY <2>2 DEF Phase, TypeOK
    <3>2. logblk[tail] = cache[lh[tail]]
      BY <2>2, <3>1 DEF Phase, TypeOK
    <3>3. cache' = [cache EXCEPT ![lh[tail]] = cache[lh[tail]]]
      BY <1>6, <3>2 DEF Install
    <3> QED
      BY <3>1, <3>3 DEF TypeOK
  <2>4. \A k \in 1 .. tail : home'[lh[k]] = logblk[k]
    <3>1. \A k \in 1 .. tail - 1 : lh[k] \in Block /\ lh[k] # lh[tail]
      BY <2>3 DEF PhaseInv, Distinct, TypeOK
    <3> QED
      BY <1>6, <2>2, <2>3, <3>1 DEF Install, Phase, TypeOK
  <2>5. Phase(t)'
    <3>1. CASE tail < Len(lh)
      BY <1>6, <2>2, <2>3, <2>4, <3>1 DEF Install, Phase, TypeOK
    <3>2. CASE ~(tail < Len(lh))
      <4>1. pc'[t] = "clear_head" /\ DOMAIN lh = 1 .. tail
        BY <1>6, <2>3, <3>2 DEF Install, Goto, TypeOK
      <4> QED
        BY <1>6, <2>2, <2>3, <2>4, <4>1 DEF Install, Phase
    <3> QED
      BY <3>1, <3>2
  <2> QED
    BY <1>6, <2>1, <2>2, <2>5 DEF Install, PhaseInv, Distinct
<1>7. ASSUME sys = "up", NEW t \in Thread, ClearHead(t) \/ CommitDone(t)
      PROVE  PhaseInv'
  <2>1. Others(t) /\ committing
    BY <1>7 DEF ClearHead, CommitDone, Goto, Woken, CommitInv, CommitLabels, TypeOK
  <2>2. CASE ClearHead(t)
    <3>1. pc'[t] = "commit_done"
      BY <2>2 DEF ClearHead, Goto, TypeOK
    <3>2. Phase(t)'
      BY <2>2, <3>1 DEF ClearHead, Phase
    <3> QED
      BY <2>1, <2>2, <3>2 DEF ClearHead, PhaseInv, Distinct
  <2>3. CASE CommitDone(t)
    <3>1. pc'[t] = "idle" /\ head = <<>>
      BY <1>7, <2>3 DEF CommitDone, Woken, PhaseInv, Phase, CommitLabels, TypeOK
    <3> QED
      BY <2>1, <2>3, <3>1 DEF CommitDone, PhaseInv, Distinct, CommitLabels
  <2> QED
    BY <1>7, <2>2, <2>3
<1>8. CASE Crash
  BY <1>8 DEF Crash, PhaseInv, Distinct
<1>9. CASE Recover
  BY <1>9 DEF Recover, RecoverInstall, RecoverDone, CommitInv, PhaseInv, Distinct, CommitLabels
<1>10. ASSUME sys = "up", NEW b \in Block, Evict(b)
       PROVE  PhaseInv'
  <2>1. cache' = cache
    BY <1>10, EvictKeeps
  <2> QED
    BY <1>10, <2>1 DEF Evict, PhaseInv, Phase, Distinct
<1> QED
  BY <1>1, <1>2, <1>3, <1>4, <1>5, <1>6, <1>7, <1>8, <1>9, <1>10 DEF Next, ThreadStep

-----------------------------------------------------------------------------
(* Pins, and recovery. *)

LEMMA PinStep ==
    ASSUME TypeOK, CountInv, CommitInv, PhaseInv, PinInv, RecoverInv, CommitInv', Next
    PROVE  PinInv'
<1>1. ASSUME sys = "up", NEW t \in Thread, BeginOp(t)
      PROVE  PinInv'
  <2>1. Pending' = Pending
    BY <1>1 DEF BeginOp, Goto, Pending, TypeOK
  <2> QED
    BY <1>1, <2>1 DEF BeginOp, PinInv
<1>2. ASSUME sys = "up", NEW t \in Thread, EndOp(t)
      PROVE  PinInv'
  <2>1. ~committing
    <3>1. t \in Active
      BY <1>2 DEF EndOp, Active
    <3> QED
      BY <3>1, ActiveStep DEF CommitInv, CountInv
  <2>2. Pending = 1 .. Len(lh)
    BY <2>1, PendingWithoutCommit
  <2>3. \A u \in Thread : pc'[u] \notin {"install", "clear_head"}
    BY <1>2, <2>1 DEF EndOp, Goto, Woken, CommitInv, CommitLabels, TypeOK
  <2>4. Pending' = 1 .. Len(lh)
    BY <1>2, <2>3 DEF EndOp, Pending
  <2> QED
    BY <1>2, <2>2, <2>4 DEF EndOp, PinInv
<1>3. ASSUME sys = "up", NEW t \in Thread, NEW b \in Block, NEW v \in Value, LogWrite(t, b, v)
      PROVE  PinInv'
  <2>1. ~committing /\ Pending = DOMAIN lh /\ lh \in Seq(Block)
    BY <1>3, LogWriteKeeps, PendingWithoutCommit DEF TypeOK
  <2>2. lh' \in Seq(Block) /\ Pending' = DOMAIN lh'
    <3>1. lh' \in Seq(Block)
      BY <1>3, <2>1, LogWriteKeeps
    <3>2. \A u \in Thread : pc'[u] \notin {"install", "clear_head"}
      BY <1>3, <2>1 DEF LogWrite, CommitInv, CommitLabels
    <3> QED
      BY <3>1, <3>2 DEF Pending
  <2>3. \A c \in Block : c # b => cache'[c] = cache[c]
    BY <1>3 DEF LogWrite, TypeOK
  <2>4. CASE lh' = lh /\ pins' = pins /\ (sys' = "panic" \/ b \in Blocks(lh))
    <3>1. sys' = "up" => pins[b] = 1
      BY <1>3, <2>1, <2>4 DEF PinInv, Blocks
    <3> QED
      BY <1>3, <2>1, <2>2, <2>3, <2>4, <3>1 DEF LogWrite, PinInv
  <2>5. CASE /\ lh' = Append(lh, b) /\ b \notin Blocks(lh)
             /\ pins' = [pins EXCEPT ![b] = @ + 1]
    <3>1. pins[b] = 0
      BY <1>3, <2>1, <2>5 DEF PinInv, Blocks
    <3>2. pins'[b] = 1 /\ \A c \in Block : c # b => pins'[c] = pins[c]
      BY <2>5, <3>1 DEF TypeOK
    <3>3. \A c \in Block :
             (\E k \in DOMAIN lh' : lh'[k] = c) <=> (c = b \/ \E k \in DOMAIN lh : lh[k] = c)
      BY <2>1, <2>5
    <3> QED
      BY <1>3, <2>1, <2>2, <2>3, <3>2, <3>3 DEF LogWrite, PinInv
  <2> QED
    BY <1>3, <2>4, <2>5, LogWriteKeeps
<1>4. ASSUME sys = "up", NEW t \in Thread, WriteLog(t) \/ WriteHead(t)
      PROVE  PinInv'
  <2>1. pc[t] \in {"write_log", "write_head"} /\ Pending = 1 .. Len(lh) /\ tail \in 1 .. Len(lh)
    BY <1>4, PendingIs DEF WriteLog, WriteHead, CommitLabels, PhaseInv, Phase
  <2>2. \A u \in Thread : u # t => pc'[u] \notin CommitLabels
    BY <1>4 DEF WriteLog, WriteHead, Goto, CommitInv, CommitLabels, TypeOK
  <2>3. Pending' = 1 .. Len(lh)
    <3>1. CASE WriteLog(t)
      <4>1. pc'[t] \in {"write_log", "write_head"}
        BY <3>1 DEF WriteLog, Goto, TypeOK
      <4> QED
        BY <2>2, <3>1, <4>1 DEF WriteLog, Pending, CommitLabels
    <3>2. CASE WriteHead(t)
      <4>1. pc'[t] = "install" /\ tail' = 1
        BY <1>4, <3>2 DEF WriteHead, Goto, PhaseInv, Phase, CommitLabels, TypeOK
      <4> QED
        BY <3>2, <4>1 DEF WriteHead, Pending
    <3> QED
      BY <1>4, <3>1, <3>2
  <2> QED
    BY <1>4, <2>1, <2>3 DEF WriteLog, WriteHead, PinInv
<1>5. ASSUME sys = "up", NEW t \in Thread, Install(t)
      PROVE  PinInv'
  <2>1. /\ pc[t] = "install" /\ Pending = tail .. Len(lh) /\ tail \in 1 .. Len(lh)
        /\ lh \in Seq(Block) /\ lh[tail] \in Block
    BY <1>5, PendingIs DEF Install, CommitLabels, PhaseInv, Phase, TypeOK
  <2>2. \A u \in Thread : u # t => pc'[u] \notin CommitLabels
    BY <1>5 DEF Install, Goto, CommitInv, CommitLabels, TypeOK
  <2>3. Pending' = tail + 1 .. Len(lh)
    <3>1. CASE tail < Len(lh)
      BY <1>5, <2>1, <3>1 DEF Install, Pending
    <3>2. CASE ~(tail < Len(lh))
      <4>1. pc'[t] = "clear_head" /\ tail = Len(lh)
        BY <1>5, <2>1, <3>2 DEF Install, Goto, TypeOK
      <4>2. Pending' = {}
        BY <2>2, <4>1 DEF Pending, CommitLabels
      <4> QED
        BY <2>1, <4>1, <4>2
    <3> QED
      BY <3>1, <3>2
  <2>4. pins[lh[tail]] = 1
    BY <1>5, <2>1 DEF PinInv
  <2>5. /\ \A c \in Block : pins'[c] = IF c = lh[tail] THEN 0 ELSE pins[c]
        /\ \A c \in Block : c # lh[tail] => home'[c] = home[c] /\ cache'[c] = cache[c]
        /\ home'[lh[tail]] = cache'[lh[tail]]
    BY <1>5, <2>1, <2>4 DEF Install, TypeOK
  <2>6. \A c \in Block :
           (\E k \in tail + 1 .. Len(lh) : lh[k] = c)
             <=> (c # lh[tail] /\ \E k \in tail .. Len(lh) : lh[k] = c)
    <3>1. \A k \in tail + 1 .. Len(lh) : lh[k] # lh[tail]
      BY <2>1 DEF PhaseInv, Distinct
    <3>2. tail .. Len(lh) = {tail} \cup (tail + 1 .. Len(lh))
      BY <2>1
    <3> QED
      BY <3>1, <3>2
  <2>7. sys' = "up" /\ lh' = lh
    BY <1>5 DEF Install
  <2> QED
    BY <1>5, <2>1, <2>3, <2>5, <2>6, <2>7 DEF PinInv
<1>6. ASSUME sys = "up", NEW t \in Thread, ClearHead(t)
      PROVE  PinInv'
  <2>1. pc[t] = "clear_head" /\ Pending = {}
    BY <1>6, PendingIs DEF ClearHead, CommitLabels
  <2>2. \A u \in Thread : pc'[u] \notin {"install", "clear_head"}
    BY <1>6 DEF ClearHead, Goto, CommitInv, CommitLabels, TypeOK
  <2>3. Pending' = {}
    BY <1>6, <2>2 DEF ClearHead, Pending
  <2> QED
    BY <1>6, <2>1, <2>3 DEF ClearHead, PinInv
<1>7. ASSUME sys = "up", NEW t \in Thread, CommitDone(t)
      PROVE  PinInv'
  <2>1. pc[t] = "commit_done" /\ Pending = 1 .. Len(lh)
    BY <1>7, PendingIs DEF CommitDone, CommitLabels
  <2>2. \A u \in Thread : pc'[u] \notin {"install", "clear_head"}
    BY <1>7 DEF CommitDone, Woken, CommitInv, CommitLabels, TypeOK
  <2>3. Pending' = 1 .. Len(lh)
    BY <1>7, <2>2 DEF CommitDone, Pending
  <2> QED
    BY <1>7, <2>1, <2>3 DEF CommitDone, PinInv
<1>8. CASE Crash
  BY <1>8 DEF Crash, PinInv
<1>9. CASE Recover
  <2>1. CASE RecoverInstall
    BY <1>9, <2>1 DEF Recover, RecoverInstall, PinInv
  <2>2. CASE RecoverDone
    <3>1. Pending' = {}
      BY <1>9, <2>2 DEF Recover, RecoverDone, CommitInv, Pending
    <3> QED
      BY <1>9, <2>2, <3>1 DEF Recover, RecoverDone, RecoverInv, PinInv
  <2> QED
    BY <1>9, <2>1, <2>2 DEF Recover
<1>10. ASSUME sys = "up", NEW b \in Block, Evict(b)
       PROVE  PinInv'
  <2>1. cache' = cache /\ Pending' = Pending
    BY <1>10, EvictKeeps DEF Evict, Pending
  <2> QED
    BY <1>10, <2>1 DEF Evict, PinInv
<1> QED
  BY <1>1, <1>2, <1>3, <1>4, <1>5, <1>6, <1>7, <1>8, <1>9, <1>10 DEF Next, ThreadStep

LEMMA RecoverStep ==
    ASSUME TypeOK, CommitInv, PhaseInv, RecoverInv, Next
    PROVE  RecoverInv'
<1>1. CASE sys' # "recover"
  BY <1>1 DEF RecoverInv
<1>2. CASE Crash
  BY <1>2 DEF Crash, RecoverInv, TypeOK
<1>3. CASE sys = "recover" /\ RecoverInstall
  <2>1. /\ lh = head /\ cache = home /\ tail \in 1 .. Len(lh) /\ lh[tail] \in Block
        /\ 1 .. tail + 1 - 1 = (1 .. tail - 1) \cup {tail}
    BY <1>3 DEF RecoverInstall, RecoverInv, TypeOK
  <2>2. cache' = home' /\ lh' = head' /\ tail' <= Len(lh') + 1
    BY <1>3, <2>1 DEF RecoverInstall
  <2>3. \A k \in 1 .. tail : home'[lh[k]] = logblk[k]
    <3>1. \A k \in 1 .. tail - 1 : lh[k] \in Block /\ lh[k] # lh[tail]
      BY <2>1 DEF PhaseInv, Distinct, TypeOK
    <3> QED
      BY <1>3, <2>1, <3>1 DEF RecoverInstall, RecoverInv, TypeOK
  <2> QED
    BY <1>3, <2>1, <2>2, <2>3 DEF RecoverInstall, RecoverInv
<1>4. ASSUME sys = "up", \/ \E t \in Thread : ThreadStep(t)
                         \/ \E b \in Block : Evict(b)
      PROVE  sys' # "recover"
  BY <1>4 DEF ThreadStep, BeginOp, EndOp, LogWrite, WriteLog, WriteHead, Install, ClearHead,
              CommitDone, Evict
<1> QED
  BY <1>1, <1>2, <1>3, <1>4 DEF Next, Recover, RecoverDone

-----------------------------------------------------------------------------
(* The theorems. *)

LEMMA InitIInv == Init => IInv
<1> SUFFICES ASSUME Init PROVE IInv
  OBVIOUS
<1>1. DataOK /\ HeadOK /\ CtlOK
  <2>1. DataOK
    BY DEF Init, DataOK
  <2>2. HeadOK
    BY LogAssumption DEF Init, HeadOK
  <2>3. CtlOK
    BY DEF Init, CtlOK
  <2> QED
    BY <2>1, <2>2, <2>3
<1>2. Active = {} /\ Pending = {}
  BY DEF Init, Active, Pending
<1>3. CountInv
  BY <1>2, FS_EmptySet DEF Init, CountInv
<1>4. CommitInv /\ SleeperHasWaker /\ RecoverInv
  BY DEF Init, CommitInv, CommitLabels, SleeperHasWaker, RecoverInv
<1>5. PhaseInv
  BY DEF Init, PhaseInv, Distinct, CommitLabels
<1>6. PinInv
  BY <1>2 DEF Init, PinInv
<1> QED
  BY <1>1, <1>3, <1>4, <1>5, <1>6, TypeParts DEF IInv

LEMMA NextIInv == IInv /\ [Next]_vars => IInv'
<1> SUFFICES ASSUME IInv, [Next]_vars PROVE IInv'
  OBVIOUS
<1>1. CASE Next
  <2>1. DataOK' /\ HeadOK' /\ CtlOK'
    BY <1>1, TypeParts, DataStep, HeadStep, CtlStep DEF IInv
  <2>2. TypeOK'
    BY <2>1 DEF TypeOK, DataOK, HeadOK, CtlOK
  <2>3. CountInv' /\ CommitInv' /\ SleeperHasWaker'
    BY <1>1, CountStep, CommitStep, WakerStep DEF IInv
  <2>4. PhaseInv' /\ PinInv' /\ RecoverInv'
    BY <1>1, <2>3, PhaseStep, PinStep, RecoverStep DEF IInv
  <2> QED
    BY <2>2, <2>3, <2>4 DEF IInv
<1>2. CASE UNCHANGED vars
  <2>1. TypeOK' /\ CountInv' /\ CommitInv' /\ SleeperHasWaker'
    BY <1>2 DEF vars, IInv, TypeOK, CountInv, CommitInv, SleeperHasWaker, Active
  <2>2. PhaseInv' /\ PinInv' /\ RecoverInv'
    BY <1>2 DEF vars, IInv, PhaseInv, Phase, Distinct, PinInv, Pending, RecoverInv
  <2> QED
    BY <2>1, <2>2 DEF IInv
<1> QED
  BY <1>1, <1>2

\* The log is consistent, for every number of threads and blocks: a buffer with
\* changes that are not at home is pinned once and no other is, commit() has the log to
\* itself, and whoever begin_op() puts to sleep has somebody to wake it up.
THEOREM LogSafety == Spec => []LogConsistent
<1>1. IInv => LogConsistent
  <2> SUFFICES ASSUME IInv PROVE LogConsistent
    OBVIOUS
  <2>1. TypeOK /\ SleeperHasWaker
    BY DEF IInv
  <2>2. PinnedWhilePending
    BY DEF IInv, PinInv, PhaseInv, Distinct, PinnedWhilePending
  <2>3. CommitAlone
    <3> SUFFICES ASSUME NEW t \in Thread, pc[t] \in CommitLabels
                 PROVE  /\ committing /\ outstanding = 0
                        /\ \A u \in Thread \ {t} : pc[u] \notin CommitLabels \cup {"op"}
      BY DEF CommitAlone
    <3>1. committing /\ outstanding = 0
      BY DEF IInv, CommitInv
    <3>2. Active = {}
      BY <3>1, ActiveStep DEF IInv, CountInv
    <3> QED
      BY <3>1, <3>2 DEF IInv, CommitInv, Active
  <2> QED
    BY <2>1, <2>2, <2>3 DEF LogConsistent
<1> QED
  BY <1>1, InitIInv, NextIInv, PTL DEF Spec

\* What begin_op() is for ("this op might exhaust log space; wait for commit"): with the
\* sizes of the code, and operations that keep to one block less than their reservation,
\* neither log_write() nor end_op() ever panics, whatever operations run together.
THEOREM LogSpaceSuffices == Fits => (Spec => []NeverExhausted)
<1> SUFFICES ASSUME Fits PROVE Spec => []NeverExhausted
  OBVIOUS
<1>1. Init => SpaceInv
  <2> SUFFICES ASSUME Init PROVE SpaceInv
    OBVIOUS
  <2>1. Spare(Active, written) = {} /\ Len(lh) = 0
    BY DEF Init, Active, Spare
  <2>2. Cardinality(Spare(Active, written)) = 0
    BY <2>1, FS_EmptySet
  <2>3. Len(lh) + Cardinality(Spare(Active, written)) <= LOGSIZE - 1
    BY <2>1, <2>2, LogAssumption DEF Fits
  <2> QED
    BY <2>3, FS_EmptySet DEF Init, SpaceInv
<1>2. IInv /\ SpaceInv /\ IInv' /\ [Next]_vars => SpaceInv'
  <2>1. IInv /\ SpaceInv /\ IInv' /\ Next => SpaceInv'
    BY SpaceStep DEF IInv
  <2>2. SpaceInv /\ UNCHANGED vars => SpaceInv'
    BY DEF vars, SpaceInv, Active, Blocks
  <2> QED
    BY <2>1, <2>2
<1>3. SpaceInv => NeverExhausted
  BY DEF SpaceInv, NeverExhausted
<1> QED
  BY <1>1, <1>2, <1>3, InitIInv, NextIInv, PTL DEF Spec

\* What the next boot would find, with and without a transaction in the header.
LEMMA DurableIs ==
    ASSUME TypeOK, Distinct(head)
    PROVE  /\ head = <<>> => Durable = home
           /\ \A k \in DOMAIN head : Durable[head[k]] = logblk[k]
           /\ \A b \in Block : b \notin Blocks(head) => Durable[b] = home[b]
<1>1. head \in Seq(Block) /\ home \in [Block -> Value]
  BY DEF TypeOK
<1>2. ASSUME NEW k \in DOMAIN head
      PROVE  Durable[head[k]] = logblk[k]
  <2>1. head[k] \in Block /\ head[k] \in Blocks(head)
    BY <1>1, <1>2 DEF Blocks
  <2>2. (CHOOSE l \in DOMAIN head : head[l] = head[k]) = k
    BY <1>2 DEF Distinct
  <2> QED
    BY <2>1, <2>2 DEF Durable
<1>3. \A b \in Block : b \notin Blocks(head) => Durable[b] = home[b]
  BY DEF Durable
<1>4. ASSUME head = <<>>
      PROVE  Durable = home
  <2>1. Blocks(head) = {}
    BY <1>4 DEF Blocks
  <2> QED
    BY <1>1, <2>1 DEF Durable
<1> QED
  BY <1>2, <1>3, <1>4

\* Two functions on Block that agree are one.
LEMMA SameBlocks ==
    ASSUME NEW f, NEW g, f = [b \in Block |-> f[b]], g = [b \in Block |-> g[b]],
           \A b \in Block : f[b] = g[b]
    PROVE  f = g
<1>1. [b \in Block |-> f[b]] = [b \in Block |-> g[b]]
  OBVIOUS
<1> QED
  BY <1>1

\* Installing a block of the transaction in the header changes nothing for the next
\* boot, and once all are at home nothing depends on the header.
LEMMA InstallKeeps ==
    ASSUME TypeOK, Distinct(head), UNCHANGED <<head, logblk>>, NEW k \in DOMAIN head,
           home' = [home EXCEPT ![head[k]] = logblk[k]]
    PROVE  Durable' = Durable
<1>1. \A b \in Block : b \notin Blocks(head) => home'[b] = home[b]
  BY DEF TypeOK, Blocks
<1>2. Blocks(head)' = Blocks(head)
  BY DEF Blocks
<1> QED
  BY <1>1, <1>2 DEF Durable

LEMMA InstalledIsHome ==
    ASSUME TypeOK, Distinct(head), \A k \in DOMAIN head : home[head[k]] = logblk[k]
    PROVE  Durable = home
<1>1. \A b \in Block : Durable[b] = home[b]
  <2> TAKE b \in Block
  <2>1. CASE b \in Blocks(head)
    <3>1. PICK k \in DOMAIN head : head[k] = b
      BY <2>1 DEF Blocks
    <3> QED
      BY <3>1, DurableIs
  <2>2. CASE b \notin Blocks(head)
    BY <2>2, DurableIs
  <2> QED
    BY <2>1, <2>2
<1>2. Durable = [b \in Block |-> Durable[b]] /\ home = [b \in Block |-> home[b]]
  BY DEF Durable, TypeOK
<1> QED
  BY <1>1, <1>2, SameBlocks

\* write_head() makes durable what memory holds.
LEMMA CommitMakesDurable ==
    ASSUME IInv, sys = "up", NEW t \in Thread, WriteHead(t)
    PROVE  Durable' = cache
<1>1. TypeOK /\ TypeOK' /\ Distinct(head') /\ head' = lh
  BY NextIInv DEF IInv, PhaseInv, WriteHead, Next, ThreadStep
<1>2. /\ pc[t] = "write_head" /\ UNCHANGED <<home, logblk>>
      /\ \A k \in DOMAIN lh : logblk[k] = cache[lh[k]]
  BY DEF IInv, PhaseInv, Phase, WriteHead, CommitLabels
<1>3. Pending = DOMAIN lh
  BY <1>2, PendingIs DEF IInv, TypeOK, CommitLabels
<1>4. \A b \in Block : Durable'[b] = cache[b]
  <2> TAKE b \in Block
  <2>1. CASE b \in Blocks(lh)
    <3>1. PICK k \in DOMAIN lh : lh[k] = b
      BY <2>1 DEF Blocks
    <3>2. Durable'[head'[k]] = logblk'[k]
      <4>1. (CHOOSE l \in DOMAIN head' : head'[l] = head'[k]) = k
        BY <1>1, <3>1 DEF Distinct
      <4> QED
        BY <1>1, <2>1, <3>1, <4>1 DEF Durable, Blocks
    <3> QED
      BY <1>1, <1>2, <3>1, <3>2
  <2>2. CASE b \notin Blocks(lh)
    <3>1. cache[b] = home[b]
      BY <1>3, <2>2 DEF IInv, PinInv, Blocks
    <3>2. Durable'[b] = home'[b]
      BY <1>1, <2>2 DEF Durable, Blocks
    <3> QED
      BY <1>2, <3>1, <3>2
  <2> QED
    BY <2>1, <2>2
<1>5. Durable' = [b \in Block |-> Durable'[b]] /\ cache = [b \in Block |-> cache[b]]
  BY <1>1 DEF Durable, TypeOK
<1> QED
  BY <1>4, <1>5, SameBlocks

LEMMA AtomicStep ==
    ASSUME IInv, Next
    PROVE  Abstract!Next \/ UNCHANGED <<Mem, Durable, Active>>
<1>0. /\ TypeOK /\ Distinct(head)
      /\ CountInv /\ CommitInv
  BY DEF IInv, PhaseInv
<1>1. ASSUME sys = "up", NEW t \in Thread, BeginOp(t)
      PROVE  Abstract!Next \/ UNCHANGED <<Mem, Durable, Active>>
  <2>1. UNCHANGED <<Mem, Durable>>
    BY <1>1 DEF BeginOp, Mem, Durable, Blocks
  <2>2. CASE Admits
    <3>1. t \notin Active /\ Active' = Active \cup {t}
      BY <1>0, <1>1, <2>2 DEF BeginOp, Goto, Active, TypeOK
    <3> QED
      BY <2>1, <3>1 DEF Abstract!Next, Abstract!Begin
  <2>3. CASE ~Admits
    BY <1>0, <1>1, <2>1, <2>3 DEF BeginOp, Goto, Active, TypeOK
  <2> QED
    BY <2>2, <2>3
<1>2. ASSUME sys = "up", NEW t \in Thread, EndOp(t)
      PROVE  Abstract!Next
  <2>1. t \in Active
    BY <1>2 DEF EndOp, Active
  <2>2. ~committing
    BY <1>0, <2>1, ActiveStep DEF CommitInv, CountInv
  <2>3. UNCHANGED <<Mem, Durable>>
    BY <1>2, <2>2 DEF EndOp, Mem, Durable, Blocks
  <2>4. Active' = Active \ {t}
    BY <1>0, <1>2, <2>2 DEF EndOp, Goto, Woken, Active, TypeOK, CommitLabels
  <2> QED
    BY <2>1, <2>3, <2>4 DEF Abstract!Next, Abstract!End
<1>3. ASSUME sys = "up", NEW t \in Thread, NEW b \in Block, NEW v \in Value, LogWrite(t, b, v)
      PROVE  Abstract!Next
  <2>1. t \in Active /\ Active' = Active
    BY <1>3 DEF LogWrite, Active
  <2>2. Mem' = [Mem EXCEPT ![b] = v] /\ Durable' = Durable
    BY <1>3 DEF LogWrite, Mem, Durable, Blocks
  <2> QED
    BY <2>1, <2>2 DEF Abstract!Next, Abstract!Write
<1>4. ASSUME sys = "up", NEW t \in Thread, WriteLog(t)
      PROVE  UNCHANGED <<Mem, Durable, Active>>
  <2>1. head = <<>>
    BY <1>4 DEF IInv, PhaseInv, Phase, WriteLog, CommitLabels
  <2>2. UNCHANGED Durable
    BY <1>4, <2>1 DEF WriteLog, Durable, Blocks
  <2> QED
    BY <1>0, <1>4, <2>2 DEF WriteLog, Goto, Mem, Active, TypeOK
<1>5. ASSUME sys = "up", NEW t \in Thread, WriteHead(t)
      PROVE  Abstract!Next
  <2>1. Durable' = cache
    BY <1>5, CommitMakesDurable
  <2>2. Active = {}
    <3>1. outstanding = 0
      BY <1>0, <1>5 DEF WriteHead, CommitInv, CommitLabels
    <3> QED
      BY <1>0, <1>5, <3>1, ActiveStep DEF CountInv
  <2>3. Active' = Active /\ Mem = cache /\ Mem' = cache
    BY <1>0, <1>5 DEF WriteHead, Goto, Mem, Active, TypeOK
  <2> QED
    BY <2>1, <2>2, <2>3 DEF Abstract!Next, Abstract!Commit
<1>6. ASSUME sys = "up", NEW t \in Thread, Install(t)
      PROVE  UNCHANGED <<Mem, Durable, Active>>
  <2>1. head = lh /\ tail \in DOMAIN lh /\ logblk[tail] = cache[lh[tail]] /\ lh[tail] \in Block
    BY <1>0, <1>6 DEF IInv, PhaseInv, Phase, Install, CommitLabels, TypeOK
  <2>2. UNCHANGED Durable
    BY <1>0, <1>6, <2>1, InstallKeeps DEF Install
  <2>3. cache' = cache
    BY <1>0, <1>6, <2>1 DEF Install, TypeOK
  <2> QED
    BY <1>0, <1>6, <2>2, <2>3 DEF Install, Goto, Mem, Active, TypeOK
<1>7. ASSUME sys = "up", NEW t \in Thread, ClearHead(t)
      PROVE  UNCHANGED <<Mem, Durable, Active>>
  <2>1. Durable = home
    BY <1>0, <1>7, InstalledIsHome DEF IInv, PhaseInv, Phase, ClearHead, CommitLabels
  <2>2. Durable' = home
    BY <1>0, <1>7 DEF ClearHead, Durable, Blocks, TypeOK
  <2> QED
    BY <1>0, <1>7, <2>1, <2>2 DEF ClearHead, Goto, Mem, Active, TypeOK
<1>8. ASSUME sys = "up", NEW t \in Thread, CommitDone(t)
      PROVE  UNCHANGED <<Mem, Durable, Active>>
  <2>1. UNCHANGED <<Mem, Durable>>
    BY <1>8 DEF CommitDone, Mem, Durable, Blocks
  <2> QED
    BY <1>0, <1>8, <2>1 DEF CommitDone, Woken, Active, TypeOK
<1>9. CASE Crash
  <2>1. Durable' = Durable
    BY <1>9 DEF Crash, Durable, Blocks
  <2>2. Mem' = Durable' /\ Active' = {}
    BY <1>9 DEF Crash, Mem, Active
  <2> QED
    BY <2>1, <2>2 DEF Abstract!Next, Abstract!Crash
<1>10. CASE sys = "recover" /\ RecoverInstall
  <2>1. head = lh /\ tail \in DOMAIN head
    BY <1>0, <1>10 DEF IInv, RecoverInv, RecoverInstall, TypeOK
  <2>2. UNCHANGED Durable
    BY <1>0, <1>10, <2>1, InstallKeeps DEF RecoverInstall
  <2> QED
    BY <1>10, <2>2 DEF RecoverInstall, Mem, Active
<1>11. CASE sys = "recover" /\ RecoverDone
  <2>1. head = lh /\ cache = home /\ \A k \in DOMAIN head : home[head[k]] = logblk[k]
    BY <1>0, <1>11 DEF IInv, RecoverInv, RecoverDone, TypeOK
  <2>2. Durable = home
    BY <1>0, <2>1, InstalledIsHome
  <2>3. Durable' = home
    BY <1>0, <1>11 DEF RecoverDone, Durable, Blocks, TypeOK
  <2> QED
    BY <1>11, <2>1, <2>2, <2>3 DEF RecoverDone, Mem, Active
<1>12. ASSUME sys = "up", NEW b \in Block, Evict(b)
       PROVE  UNCHANGED <<Mem, Durable, Active>>
  <2>1. cache' = cache
    BY <1>0, <1>12, EvictKeeps DEF IInv
  <2> QED
    BY <1>12, <2>1 DEF Evict, Mem, Durable, Blocks, Active
<1> QED
  BY <1>1, <1>2, <1>3, <1>4, <1>5, <1>6, <1>7, <1>8, <1>9, <1>10, <1>11, <1>12
  DEF Next, ThreadStep, Recover

\* The log implements AtomicDisk: write_head() makes every change so far durable in one
\* step, with no operation in progress, and a crash at any point, between two blocks of
\* recovery included, returns memory to the last such step.
THEOREM LogAtomic == Spec => AtomicAndDurable
<1>1. Init => Abstract!Init
  <2> SUFFICES ASSUME Init PROVE Abstract!Init
    OBVIOUS
  <2>1. IInv
    BY InitIInv
  <2>2. Durable = home
    BY <2>1, DurableIs DEF IInv, PhaseInv, Init
  <2> QED
    BY <2>2 DEF Init, Mem, Active, Abstract!Init
<1>2. IInv /\ [Next]_vars => [Abstract!Next]_<<Mem, Durable, Active>>
  <2> SUFFICES ASSUME IInv, [Next]_vars
               PROVE  Abstract!Next \/ UNCHANGED <<Mem, Durable, Active>>
    OBVIOUS
  <2>1. CASE Next
    BY <2>1, AtomicStep
  <2>2. CASE UNCHANGED vars
    BY <2>2 DEF vars, Mem, Durable, Blocks, Active
  <2> QED
    BY <2>1, <2>2
<1> QED
  BY <1>1, <1>2, InitIInv, NextIInv, PTL DEF Spec, AtomicAndDurable, Abstract!Spec
=============================================================================
