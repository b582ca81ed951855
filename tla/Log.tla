--------------------------------- MODULE Log ---------------------------------
(***************************************************************************)
(* The redo log of kernel/log.c: begin_op, log_write, end_op, commit and   *)
(* the recovery of initlog(), with a crash possible between any two disk   *)
(* writes, recovery's own included.  A step of the log code is one         *)
(* critical section of log.lock or one synchronous block write; sleep()    *)
(* and wakeup() on &log are atomic under log.lock (see Proc).              *)
(***************************************************************************)
EXTENDS Integers, Sequences, FiniteSets

CONSTANTS
    Block,        \* the home blocks of the file system
    Value,        \* what a block can hold
    Thread,       \* the processes that make file system calls
    MAXOPBLOCKS,  \* blocks begin_op() reserves for one operation
    OpBlocks,     \* distinct blocks an operation really writes, at most
    LOGSIZE,      \* entries of struct logheader
    LogBlocks     \* log.size: blocks of the on-disk log, its header included

ASSUME LogAssumption ==
    /\ IsFiniteSet(Thread)
    /\ MAXOPBLOCKS \in Nat \ {0}
    /\ OpBlocks \in 1 .. MAXOPBLOCKS
    /\ LOGSIZE \in Nat /\ MAXOPBLOCKS <= LOGSIZE
    /\ LogBlocks \in Nat

\* The sizes of kernel/param.h: several operations fit in the log, mkfs makes it LOGSIZE
\* blocks long, and an operation leaves a block of its reservation unused.
Fits == OpBlocks < MAXOPBLOCKS /\ MAXOPBLOCKS < LOGSIZE /\ LOGSIZE <= LogBlocks

VARIABLES
    home, logblk, head,  \* on disk: home blocks, log blocks, header block
    cache, pins,         \* buffer cache: contents, and references by bpin()
    lh,                  \* log.lh: the block numbers of the transaction
    outstanding, committing,
    pc,                  \* position of each thread
    tail,                \* the loop variable of write_log() and install_trans()
    written,             \* the blocks a thread's operation has written
    sys                  \* "up", "recover" (in initlog), "panic"

diskVars == <<home, logblk, head>>
cacheVars == <<cache, pins>>
logVars == <<lh, outstanding, committing>>
vars == <<diskVars, cacheVars, logVars, pc, tail, written, sys>>

CommitLabels == {"write_log", "write_head", "install", "clear_head", "commit_done"}

Init ==
    /\ home \in [Block -> Value]
    /\ logblk \in {[k \in 1 .. LOGSIZE |-> v] : v \in Value}
    /\ head = <<>>
    /\ cache = home
    /\ pins = [b \in Block |-> 0]
    /\ lh = <<>>
    /\ outstanding = 0
    /\ committing = FALSE
    /\ pc = [t \in Thread |-> "idle"]
    /\ tail = 1
    /\ written = [t \in Thread |-> {}]
    /\ sys = "up"

\* The block numbers in a header.
Blocks(h) == {h[k] : k \in DOMAIN h}

Goto(t, l) == pc' = [pc EXCEPT ![t] = l]

\* pc after wakeup(&log), with t going on at l.
Woken(t, l) ==
    [u \in Thread |-> IF u = t THEN l
                      ELSE IF pc[u] = "begin_sleep" THEN "begin" ELSE pc[u]]

-----------------------------------------------------------------------------
(* begin_op(), log_write() and end_op(). *)

\* Mutant of Admits: the reservation forgets the operation that asks.
AdmitsOneMore == ~committing /\ Len(lh) + outstanding * MAXOPBLOCKS <= LOGSIZE

Admits == ~committing /\ Len(lh) + (outstanding + 1) * MAXOPBLOCKS <= LOGSIZE

\* begin_op(), at its first try or woken from sleep(&log).
BeginOp(t) ==
    /\ pc[t] \in {"idle", "begin"}
    /\ IF Admits
       THEN outstanding' = outstanding + 1 /\ Goto(t, "op")
       ELSE UNCHANGED outstanding /\ Goto(t, "begin_sleep")
    /\ UNCHANGED <<diskVars, cacheVars, lh, committing, tail, written, sys>>

\* Mutant of LogWrite: bpin() is outside the test for a new block.
LogWritePinsAlways(t, b, v) ==
    /\ pc[t] = "op"
    /\ Cardinality(written[t] \cup {b}) <= OpBlocks
    /\ cache' = [cache EXCEPT ![b] = v]
    /\ written' = [written EXCEPT ![t] = @ \cup {b}]
    /\ IF Len(lh) >= LOGSIZE \/ Len(lh) >= LogBlocks - 1 \/ outstanding < 1
       THEN sys' = "panic" /\ UNCHANGED <<lh, pins>>
       ELSE /\ UNCHANGED sys
            /\ IF b \in Blocks(lh)
               THEN UNCHANGED lh /\ pins' = [pins EXCEPT ![b] = @ + 1]
               ELSE /\ lh' = Append(lh, b)
                    /\ pins' = [pins EXCEPT ![b] = @ + 1]
    /\ UNCHANGED <<diskVars, outstanding, committing, pc, tail>>

\* The caller changes a buffer and calls log_write(): absorbed if the block is
\* in the transaction already, appended and pinned otherwise; the check of the
\* log's size comes first, for a block that would be absorbed too.
LogWrite(t, b, v) ==
    /\ pc[t] = "op"
    /\ Cardinality(written[t] \cup {b}) <= OpBlocks
    /\ cache' = [cache EXCEPT ![b] = v]
    /\ written' = [written EXCEPT ![t] = @ \cup {b}]
    /\ IF Len(lh) >= LOGSIZE \/ Len(lh) >= LogBlocks - 1 \/ outstanding < 1
       THEN sys' = "panic" /\ UNCHANGED <<lh, pins>>
       ELSE /\ UNCHANGED sys
            /\ IF b \in Blocks(lh)
               THEN UNCHANGED <<lh, pins>>
               ELSE /\ lh' = Append(lh, b)
                    /\ pins' = [pins EXCEPT ![b] = @ + 1]
    /\ UNCHANGED <<diskVars, outstanding, committing, pc, tail>>

\* Mutant of EndOp: an operation that is not the last does not wakeup(&log).
EndOpNoWakeup(t) ==
    /\ pc[t] = "op"
    /\ outstanding' = outstanding - 1
    /\ written' = [written EXCEPT ![t] = {}]
    /\ IF committing
       THEN sys' = "panic" /\ UNCHANGED <<committing, pc, tail>>
       ELSE /\ UNCHANGED sys
            /\ tail' = 1
            /\ IF outstanding' = 0
               THEN /\ committing' = TRUE
                    /\ Goto(t, IF lh = <<>> THEN "commit_done" ELSE "write_log")
               ELSE /\ UNCHANGED committing
                    /\ Goto(t, "idle")
    /\ UNCHANGED <<diskVars, cacheVars, lh>>

\* end_op(): the last operation commits, any other wakes up begin_op().
EndOp(t) ==
    /\ pc[t] = "op"
    /\ outstanding' = outstanding - 1
    /\ written' = [written EXCEPT ![t] = {}]
    /\ IF committing
       THEN sys' = "panic" /\ UNCHANGED <<committing, pc, tail>>
       ELSE /\ UNCHANGED sys
            /\ tail' = 1
            /\ IF outstanding' = 0
               THEN /\ committing' = TRUE
                    /\ Goto(t, IF lh = <<>> THEN "commit_done" ELSE "write_log")
               ELSE /\ UNCHANGED committing
                    /\ pc' = Woken(t, "idle")
    /\ UNCHANGED <<diskVars, cacheVars, lh>>

-----------------------------------------------------------------------------
(* commit(), without log.lock. *)

\* One block of write_log(): from the cache to the log.
WriteLog(t) ==
    /\ pc[t] = "write_log"
    /\ logblk' = [logblk EXCEPT ![tail] = cache[lh[tail]]]
    /\ IF tail < Len(lh)
       THEN tail' = tail + 1 /\ UNCHANGED pc
       ELSE tail' = 1 /\ Goto(t, "write_head")
    /\ UNCHANGED <<home, head, cacheVars, logVars, written, sys>>

\* write_head(), the real commit.
WriteHead(t) ==
    /\ pc[t] = "write_head"
    /\ head' = lh
    /\ Goto(t, "install")
    /\ UNCHANGED <<home, logblk, cacheVars, logVars, tail, written, sys>>

\* One block of install_trans(): from the log to its home, and unpinned.
Install(t) ==
    /\ pc[t] = "install"
    /\ home' = [home EXCEPT ![lh[tail]] = logblk[tail]]
    /\ cache' = [cache EXCEPT ![lh[tail]] = logblk[tail]]
    /\ pins' = [pins EXCEPT ![lh[tail]] = @ - 1]
    /\ IF tail < Len(lh)
       THEN tail' = tail + 1 /\ UNCHANGED pc
       ELSE tail' = 1 /\ Goto(t, "clear_head")
    /\ UNCHANGED <<logblk, head, logVars, written, sys>>

\* log.lh.n = 0 and the second write_head(), which erases the transaction.
ClearHead(t) ==
    /\ pc[t] = "clear_head"
    /\ lh' = <<>>
    /\ head' = <<>>
    /\ Goto(t, "commit_done")
    /\ UNCHANGED <<home, logblk, cacheVars, outstanding, committing, tail, written, sys>>

\* The end of end_op() after commit(): wake up everyone in begin_op().
CommitDone(t) ==
    /\ pc[t] = "commit_done"
    /\ committing' = FALSE
    /\ pc' = Woken(t, "idle")
    /\ UNCHANGED <<diskVars, cacheVars, lh, outstanding, tail, written, sys>>

-----------------------------------------------------------------------------
(* The buffer cache, crashes and recovery. *)

\* bget() recycles the buffer of a block nobody refers to: it is read again from
\* its home when it is next used.
Evict(b) ==
    /\ pins[b] = 0
    /\ cache' = [cache EXCEPT ![b] = home[b]]
    /\ UNCHANGED <<diskVars, pins, logVars, pc, tail, written, sys>>

\* Power is lost, running or in recovery; the next boot gets as far as read_head().
Crash ==
    /\ sys' = "recover"
    /\ lh' = head
    /\ cache' = home
    /\ pins' = [b \in Block |-> 0]
    /\ outstanding' = 0
    /\ committing' = FALSE
    /\ pc' = [t \in Thread |-> "idle"]
    /\ tail' = 1
    /\ written' = [t \in Thread |-> {}]
    /\ UNCHANGED diskVars

\* One block of install_trans(1), which does not unpin.
RecoverInstall ==
    /\ tail <= Len(lh)
    /\ home' = [home EXCEPT ![lh[tail]] = logblk[tail]]
    /\ cache' = [cache EXCEPT ![lh[tail]] = logblk[tail]]
    /\ tail' = tail + 1
    /\ UNCHANGED <<logblk, head, pins, logVars, pc, written, sys>>

\* Mutant of RecoverDone: the header is cleared before the log is installed.
RecoverDoneEarly ==
    /\ lh' = <<>>
    /\ head' = <<>>
    /\ tail' = 1
    /\ sys' = "up"
    /\ UNCHANGED <<home, logblk, cacheVars, outstanding, committing, pc, written>>

\* The end of recover_from_log(): log.lh.n = 0 and write_head().
RecoverDone ==
    /\ tail > Len(lh)
    /\ lh' = <<>>
    /\ head' = <<>>
    /\ tail' = 1
    /\ sys' = "up"
    /\ UNCHANGED <<home, logblk, cacheVars, outstanding, committing, pc, written>>

-----------------------------------------------------------------------------

ThreadStep(t) ==
    \/ BeginOp(t) \/ EndOp(t) \/ \E b \in Block, v \in Value : LogWrite(t, b, v)
    \/ WriteLog(t) \/ WriteHead(t) \/ Install(t) \/ ClearHead(t) \/ CommitDone(t)

Recover == sys = "recover" /\ (RecoverInstall \/ RecoverDone)

Next ==
    \/ sys = "up" /\ ((\E t \in Thread : ThreadStep(t)) \/ \E b \in Block : Evict(b))
    \/ Recover
    \/ Crash

Spec == Init /\ [][Next]_vars

\* Every operation reaches its end_op(), and end_op(), commit() and recovery run to
\* their ends: no file system call waits for another between begin_op() and
\* end_op() other than for a lock, and the rest is straight-line code.  A thread
\* need not start an operation, nor write in one.
FairSpec ==
    /\ Spec
    /\ \A t \in Thread :
          WF_vars(sys = "up" /\ (\/ EndOp(t) \/ WriteLog(t) \/ WriteHead(t) \/ Install(t)
                                 \/ ClearHead(t) \/ CommitDone(t)))
    /\ WF_vars(Recover)

-----------------------------------------------------------------------------
(* Properties. *)

TypeOK ==
    /\ home \in [Block -> Value]
    /\ logblk \in [1 .. LOGSIZE -> Value]
    /\ head \in Seq(Block) /\ Len(head) <= LOGSIZE
    /\ cache \in [Block -> Value]
    /\ pins \in [Block -> Nat]
    /\ lh \in Seq(Block) /\ Len(lh) <= LOGSIZE
    /\ outstanding \in Nat
    /\ committing \in BOOLEAN
    /\ pc \in [Thread -> CommitLabels \cup {"idle", "begin", "begin_sleep", "op"}]
    /\ tail \in 1 .. LOGSIZE + 1
    /\ written \in [Thread -> SUBSET Block]
    /\ sys \in {"up", "recover", "panic"}

\* The blocks the next boot would find: the log of a header that was written
\* replaces the home blocks.
Durable ==
    [b \in Block |->
        IF b \in Blocks(head) THEN logblk[CHOOSE k \in DOMAIN head : head[k] = b] ELSE home[b]]

\* The blocks as the running system sees them, and the operations in progress.
Mem == IF sys = "recover" THEN Durable ELSE cache
Active == {t \in Thread : pc[t] = "op"}

\* The log implements AtomicDisk: a commit is the write of the header, and a crash
\* at any point, recovery included, returns to the last one.
Abstract == INSTANCE AtomicDisk WITH mem <- Mem, durable <- Durable, active <- Active
AtomicAndDurable == Abstract!Spec

\* The entries of the transaction that are not yet at home.
Pending ==
    IF \E t \in Thread : pc[t] = "install" THEN tail .. Len(lh)
    ELSE IF \E t \in Thread : pc[t] = "clear_head" THEN {}
    ELSE 1 .. Len(lh)

\* A buffer with changes that are not yet at home is pinned, so bget() cannot
\* recycle it, and no pin is leaked; and thanks to the absorption in log_write() no
\* block is in the transaction twice.
PinnedWhilePending ==
    sys = "up" =>
        /\ \A b \in Block : pins[b] = IF \E k \in Pending : lh[k] = b THEN 1 ELSE 0
        /\ \A k, l \in DOMAIN lh : lh[k] = lh[l] => k = l

\* commit() has the log to itself: one committer, and no operation between
\* begin_op() and end_op() (so end_op()'s panic("log.committing") is unreachable).
CommitAlone ==
    \A t \in Thread : pc[t] \in CommitLabels =>
        /\ committing
        /\ outstanding = 0
        /\ \A u \in Thread \ {t} : pc[u] \notin CommitLabels \cup {"op"}

\* A thread asleep in begin_op() has someone to wake it up: an operation that will
\* call end_op(), or a committer.
SleeperHasWaker ==
    \A t \in Thread : pc[t] = "begin_sleep" =>
        \E u \in Thread : pc[u] \in CommitLabels \cup {"op"}

\* All of these, in a log whose state is well formed.
LogConsistent == TypeOK /\ PinnedWhilePending /\ CommitAlone /\ SleeperHasWaker

\* A sleeper in begin_op() is woken up, or the machine restarts.
BeginOpWakes ==
    \A t \in Thread : pc[t] = "begin_sleep" ~> pc[t] # "begin_sleep"

\* begin_op() waits when an "op might exhaust log space": an operation it has let in,
\* that keeps to OpBlocks blocks, never meets a panic of log_write() or end_op().
NeverExhausted == sys # "panic"
=============================================================================
