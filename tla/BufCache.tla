------------------------------ MODULE BufCache ------------------------------
(***************************************************************************)
(* The buffer cache (kernel/bio.c) and the sleep locks of its buffers      *)
(* (kernel/sleeplock.c).  A step is one critical section of bcache.lock or *)
(* of a sleep lock's spin lock, or one transfer.  A thread reads a block,  *)
(* may change it and write it, or hand it to the log, which pins it before *)
(* brelse() and, later, writes and unpins it.                              *)
(***************************************************************************)
EXTENDS Integers, FiniteSets

CONSTANTS
    Thread, NoThread,   \* uses of a buffer: a process that holds two at once, as bmap()
                        \* does around balloc() and install_trans() does, is two of them
    Block, NoBlock,
    Value,
    NBUF,
    MaxPinned   \* blocks the log keeps pinned at the same time

ASSUME BufCacheAssumption ==
    /\ IsFiniteSet(Thread)
    /\ NBUF \in Nat \ {0} /\ MaxPinned \in Nat
    /\ NoThread \notin Thread /\ NoBlock \notin Block

Buf == 1 .. NBUF

VARIABLES
    lru,                            \* bcache.head: most recently used first
    blockno, valid, refcnt, data,   \* struct buf
    holder,                         \* its sleep lock
    pinned,                         \* blocks the log has pinned
    disk,
    latest,                         \* history: the last value given to a block
    pc, want, buf                   \* threads: position, block asked for, buffer

bufVars == <<lru, blockno, valid, refcnt>>
vars == <<bufVars, data, holder, pinned, disk, latest, pc, want, buf>>

\* binit() puts every buffer at the head of the list.
Init ==
    /\ lru = [k \in Buf |-> NBUF + 1 - k]
    /\ blockno = [b \in Buf |-> NoBlock]
    /\ valid = [b \in Buf |-> FALSE]
    /\ refcnt = [b \in Buf |-> 0]
    /\ disk \in {[k \in Block |-> v] : v \in Value}
    /\ latest = disk
    /\ data \in {[b \in Buf |-> v] : v \in Value}
    /\ holder = [b \in Buf |-> NoThread]
    /\ pinned = {}
    /\ pc = [t \in Thread |-> "out"]
    /\ want = [t \in Thread |-> NoBlock]
    /\ buf = [t \in Thread |-> 1]

Goto(t, l) == pc' = [pc EXCEPT ![t] = l]

Cached(k) == {b \in Buf : blockno[b] = k}
\* Mutant: a buffer that nobody has locked is recycled, pinned or not.
UnusedUnlocked == {b \in Buf : holder[b] = NoThread}
Unused == {b \in Buf : refcnt[b] = 0}

\* The buffer of s that a walk from the head of the list, or from its tail, meets first.
First(b, s) == b \in s /\ \E k \in Buf : lru[k] = b /\ \A j \in 1 .. k - 1 : lru[j] \notin s
Last(b, s) == b \in s /\ \E k \in Buf : lru[k] = b /\ \A j \in k + 1 .. NBUF : lru[j] \notin s

\* The list with b moved to its head.
Position(b) == CHOOSE k \in Buf : lru[k] = b
ToHead(b) ==
    [k \in Buf |-> IF k = 1 THEN b ELSE IF k <= Position(b) THEN lru[k - 1] ELSE lru[k]]

-----------------------------------------------------------------------------

\* bget() finds the block in the cache.
BgetHit(t, k) ==
    /\ pc[t] = "out"
    /\ \E b \in Buf :
          /\ First(b, Cached(k))
          /\ refcnt' = [refcnt EXCEPT ![b] = @ + 1]
          /\ buf' = [buf EXCEPT ![t] = b]
    /\ want' = [want EXCEPT ![t] = k]
    /\ Goto(t, "acquiresleep")
    /\ UNCHANGED <<lru, blockno, valid, data, holder, pinned, disk, latest>>

\* bget() recycles the least recently used buffer without references; without one
\* it panics.
BgetRecycle(t, k) ==
    /\ pc[t] = "out"
    /\ Cached(k) = {}
    /\ \E b \in Buf :
          /\ Last(b, Unused)
          /\ blockno' = [blockno EXCEPT ![b] = k]
          /\ valid' = [valid EXCEPT ![b] = FALSE]
          /\ refcnt' = [refcnt EXCEPT ![b] = 1]
          /\ buf' = [buf EXCEPT ![t] = b]
    /\ want' = [want EXCEPT ![t] = k]
    /\ Goto(t, "acquiresleep")
    /\ UNCHANGED <<lru, data, holder, pinned, disk, latest>>

\* acquiresleep(), also after each wakeup(): take the lock or sleep.
AcquireSleep(t) ==
    /\ pc[t] = "acquiresleep"
    /\ IF holder[buf[t]] = NoThread
       THEN holder' = [holder EXCEPT ![buf[t]] = t] /\ Goto(t, "bread")
       ELSE UNCHANGED holder /\ Goto(t, "asleep")
    /\ UNCHANGED <<bufVars, data, pinned, disk, latest, want, buf>>

\* bread() reads the block unless the buffer is valid.
Bread(t) ==
    /\ pc[t] = "bread"
    /\ LET b == buf[t]
       IN  /\ data' = [data EXCEPT ![b] = IF valid[b] THEN @ ELSE disk[blockno[b]]]
           /\ valid' = [valid EXCEPT ![b] = TRUE]
    /\ Goto(t, "use")
    /\ UNCHANGED <<lru, blockno, refcnt, holder, pinned, disk, latest, want, buf>>

\* The caller changes the block and calls bwrite().
Bwrite(t, v) ==
    /\ pc[t] = "use"
    /\ data' = [data EXCEPT ![buf[t]] = v]
    /\ disk' = [disk EXCEPT ![blockno[buf[t]]] = v]
    /\ latest' = [latest EXCEPT ![want[t]] = v]
    /\ UNCHANGED <<bufVars, holder, pinned, pc, want, buf>>

\* The caller changes the block and calls log_write(), which pins a buffer that is new
\* to the transaction.
Bpin(t, v) ==
    /\ pc[t] = "use"
    /\ want[t] \in pinned \/ Cardinality(pinned) < MaxPinned
    /\ data' = [data EXCEPT ![buf[t]] = v]
    /\ latest' = [latest EXCEPT ![want[t]] = v]
    /\ refcnt' = [refcnt EXCEPT ![buf[t]] = IF want[t] \in pinned THEN @ ELSE @ + 1]
    /\ pinned' = pinned \cup {want[t]}
    /\ UNCHANGED <<lru, blockno, valid, holder, disk, pc, want, buf>>

\* install_trans(): write the buffer home and unpin it.
Bunpin(t) ==
    /\ pc[t] = "use"
    /\ want[t] \in pinned
    /\ disk' = [disk EXCEPT ![blockno[buf[t]]] = data[buf[t]]]
    /\ refcnt' = [refcnt EXCEPT ![buf[t]] = @ - 1]
    /\ pinned' = pinned \ {want[t]}
    /\ UNCHANGED <<lru, blockno, valid, data, holder, latest, pc, want, buf>>

\* brelse(): releasesleep() wakes up all who wait for the buffer ...
ReleaseSleep(t) ==
    /\ pc[t] = "use"
    /\ holder' = [holder EXCEPT ![buf[t]] = NoThread]
    /\ pc' = [u \in Thread |->
                 IF u = t THEN "brelse"
                 ELSE IF pc[u] = "asleep" /\ buf[u] = buf[t] THEN "acquiresleep" ELSE pc[u]]
    /\ UNCHANGED <<bufVars, data, pinned, disk, latest, want, buf>>

\* ... then the reference goes, and the last one moves the buffer to the head.
Brelse(t) ==
    /\ pc[t] = "brelse"
    /\ LET b == buf[t]
       IN  /\ refcnt' = [refcnt EXCEPT ![b] = @ - 1]
           /\ lru' = IF refcnt[b] = 1 THEN ToHead(b) ELSE lru
    /\ want' = [want EXCEPT ![t] = NoBlock]
    /\ buf' = [buf EXCEPT ![t] = 1]
    /\ Goto(t, "out")
    /\ UNCHANGED <<blockno, valid, data, holder, pinned, disk, latest>>

-----------------------------------------------------------------------------

Next == \E t \in Thread :
    \/ \E k \in Block : BgetHit(t, k) \/ BgetRecycle(t, k)
    \/ AcquireSleep(t) \/ Bread(t) \/ Bunpin(t) \/ ReleaseSleep(t) \/ Brelse(t)
    \/ \E v \in Value : Bwrite(t, v) \/ Bpin(t, v)

Spec == Init /\ [][Next]_vars

-----------------------------------------------------------------------------
(* Properties. *)

TypeOK ==
    /\ lru \in [Buf -> Buf] /\ \A b \in Buf : \E k \in Buf : lru[k] = b
    /\ blockno \in [Buf -> Block \cup {NoBlock}]
    /\ valid \in [Buf -> BOOLEAN]
    /\ refcnt \in [Buf -> Nat]
    /\ data \in [Buf -> Value] /\ disk \in [Block -> Value] /\ latest \in [Block -> Value]
    /\ holder \in [Buf -> Thread \cup {NoThread}]
    /\ pinned \subseteq Block
    /\ pc \in [Thread -> {"out", "acquiresleep", "asleep", "bread", "use", "brelse"}]
    /\ want \in [Thread -> Block \cup {NoBlock}] /\ buf \in [Thread -> Buf]

\* "Only one process at a time can use a buffer", and a block has at most one buffer:
\* two processes that have read the same block are never in it together.
OneCopy ==
    /\ \A b, c \in Buf : b # c /\ blockno[b] = blockno[c] => blockno[b] = NoBlock
    /\ \A t, u \in Thread : t # u /\ {pc[t], pc[u]} \subseteq {"bread", "use"} => want[t] # want[u]

\* Whoever has read a block sees the last value any process gave it, although buffers
\* are recycled between bget()'s release of bcache.lock and its acquiresleep().
Coherent ==
    \A t \in Thread : pc[t] = "use" => blockno[buf[t]] = want[t] /\ data[buf[t]] = latest[want[t]]

\* A process that waits for a buffer sleeps only while somebody holds it.
SleeperHasHolder == \A t \in Thread : pc[t] = "asleep" => holder[buf[t]] # NoThread

\* "bget: no buffers" needs more blocks in use and pinned than there are buffers: with a
\* buffer for every use and every pin it is never reached.  The code does not see to that.
Enough == NBUF >= Cardinality(Thread) + MaxPinned
NeverOutOfBuffers ==
    Enough => \A t \in Thread, k \in Block : pc[t] = "out" /\ Cached(k) = {} => Unused # {}

\* The cache has one copy of a block, which one process uses at a time and which holds
\* its last value; whoever waits for a buffer waits for a holder, and bget() finds a
\* buffer as long as threads and pins are no more than NBUF.
CacheCoherent == TypeOK /\ OneCopy /\ Coherent /\ SleeperHasHolder /\ NeverOutOfBuffers
=============================================================================
