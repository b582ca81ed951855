--------------------------- MODULE BufCacheProofs ---------------------------
(***************************************************************************)
(* The buffer cache, for every number of threads, blocks and buffers.      *)
(***************************************************************************)
EXTENDS BufCache, FiniteSetTheorems, TLAPS

USE DEF bufVars

\* TypeOK in the parts a step is checked for.
ListOK == lru \in [Buf -> Buf] /\ \A b \in Buf : \E k \in Buf : lru[k] = b
BufOK ==
    /\ blockno \in [Buf -> Block \cup {NoBlock}]
    /\ data \in [Buf -> Value] /\ disk \in [Block -> Value] /\ latest \in [Block -> Value]
    /\ holder \in [Buf -> Thread \cup {NoThread}]
    /\ pinned \subseteq Block
    /\ want \in [Thread -> Block \cup {NoBlock}] /\ buf \in [Thread -> Buf]
ValidOK == valid \in [Buf -> BOOLEAN]
CtlOK == pc \in [Thread -> {"out", "acquiresleep", "asleep", "bread", "use", "brelse"}]
CountOK == refcnt \in [Buf -> Nat]

\* Threads between bget() and the end of brelse() refer to a buffer.
Refs(b) == {t \in Thread : pc[t] # "out" /\ buf[t] = b}

\* A buffer's count is its threads and the pin of the log.
RefInv ==
    \A b \in Buf :
        refcnt[b] = Cardinality(Refs(b)) + (IF blockno[b] \in pinned THEN 1 ELSE 0)

\* A block has one buffer; a thread's buffer is the one of the block it asked for.
NameInv ==
    /\ \A b, c \in Buf : blockno[b] = blockno[c] /\ blockno[b] # NoBlock => b = c
    /\ \A t \in Thread : pc[t] # "out" => want[t] \in Block /\ blockno[buf[t]] = want[t]

\* The sleep lock.
LockInv ==
    /\ \A t \in Thread : pc[t] \in {"bread", "use"} => holder[buf[t]] = t
    /\ \A b \in Buf : holder[b] # NoThread => pc[holder[b]] \in {"bread", "use"} /\ buf[holder[b]] = b
    /\ SleeperHasHolder

\* A valid buffer has the last value of its block, and so has the disk for a block that
\* the log does not pin; what is pinned is in a valid buffer.
DataInv ==
    /\ \A b \in Buf : valid[b] => blockno[b] \in Block /\ data[b] = latest[blockno[b]]
    /\ \A k \in Block : k \notin pinned => disk[k] = latest[k]
    /\ \A k \in pinned : \E b \in Buf : blockno[b] = k /\ valid[b]
    /\ \A t \in Thread : pc[t] = "use" => valid[buf[t]]

PinInv == IsFiniteSet(pinned) /\ Cardinality(pinned) <= MaxPinned

IInv == TypeOK /\ RefInv /\ NameInv /\ LockInv /\ DataInv /\ PinInv

LEMMA TypeParts == TypeOK <=> ListOK /\ BufOK /\ ValidOK /\ CtlOK /\ CountOK
  BY DEF TypeOK, ListOK, BufOK, ValidOK, CtlOK, CountOK

-----------------------------------------------------------------------------
(* References. *)

LEMMA RefsFinite ==
    ASSUME NEW b \in Buf
    PROVE  IsFiniteSet(Refs(b)) /\ Cardinality(Refs(b)) \in Nat
<1>1. Refs(b) \subseteq Thread
  BY DEF Refs
<1> QED
  BY <1>1, BufCacheAssumption, FS_Subset, FS_CardinalityType

\* A buffer without references is nobody's, and its block is not pinned.
LEMMA UnusedIsFree ==
    ASSUME RefInv, NEW b \in Buf, refcnt[b] = 0
    PROVE  Refs(b) = {} /\ blockno[b] \notin pinned
<1>1. Cardinality(Refs(b)) \in Nat /\ IsFiniteSet(Refs(b))
  BY RefsFinite
<1>2. Cardinality(Refs(b)) = 0 /\ blockno[b] \notin pinned
  BY <1>1 DEF RefInv
<1> QED
  BY <1>1, <1>2, FS_EmptySet

\* What bget() does to the references, with the buffer it finds.
LEMMA HitPicks ==
    ASSUME TypeOK, NEW t \in Thread, NEW k \in Block, BgetHit(t, k)
    PROVE  \E b \in Buf :
              /\ blockno[b] = k
              /\ refcnt' = [refcnt EXCEPT ![b] = @ + 1]
              /\ buf' = [buf EXCEPT ![t] = b]
BY DEF BgetHit, First, Cached

LEMMA RecyclePicks ==
    ASSUME TypeOK, NEW t \in Thread, NEW k \in Block, BgetRecycle(t, k)
    PROVE  /\ \A c \in Buf : blockno[c] # k
           /\ \E b \in Buf :
                 /\ refcnt[b] = 0
                 /\ blockno' = [blockno EXCEPT ![b] = k]
                 /\ valid' = [valid EXCEPT ![b] = FALSE]
                 /\ refcnt' = [refcnt EXCEPT ![b] = 1]
                 /\ buf' = [buf EXCEPT ![t] = b]
BY DEF BgetRecycle, Last, Cached, Unused

LEMMA RefStep ==
    ASSUME TypeOK, RefInv, NameInv, DataInv, Next
    PROVE  RefInv'
<1>1. ASSUME NEW t \in Thread, NEW k \in Block, BgetHit(t, k)
      PROVE  RefInv'
  <2>1. PICK b \in Buf : /\ blockno[b] = k
                         /\ refcnt' = [refcnt EXCEPT ![b] = @ + 1]
                         /\ buf' = [buf EXCEPT ![t] = b]
    BY <1>1, HitPicks
  <2>2. \A c \in Buf : /\ t \notin Refs(c)
                       /\ Refs(c)' = IF c = b THEN Refs(c) \cup {t} ELSE Refs(c)
    BY <1>1, <2>1 DEF BgetHit, Goto, Refs, TypeOK
  <2>3. \A c \in Buf : Cardinality(Refs(c)') =
                         IF c = b THEN Cardinality(Refs(c)) + 1 ELSE Cardinality(Refs(c))
    BY <2>2, RefsFinite, FS_AddElement
  <2>4. UNCHANGED <<blockno, pinned>> /\ \A c \in Buf : Cardinality(Refs(c)) \in Nat
    BY <1>1, RefsFinite DEF BgetHit
  <2> QED
    BY <2>1, <2>3, <2>4 DEF RefInv, TypeOK
<1>2. ASSUME NEW t \in Thread, NEW k \in Block, BgetRecycle(t, k)
      PROVE  RefInv'
  <2>1. PICK b \in Buf : /\ refcnt[b] = 0
                         /\ blockno' = [blockno EXCEPT ![b] = k]
                         /\ refcnt' = [refcnt EXCEPT ![b] = 1]
                         /\ buf' = [buf EXCEPT ![t] = b]
    BY <1>2, RecyclePicks
  <2>2. Refs(b) = {}
    BY <2>1, UnusedIsFree
  <2>3. \A c \in Buf : Refs(c)' = IF c = b THEN {t} ELSE Refs(c)
    BY <1>2, <2>1, <2>2 DEF BgetRecycle, Goto, Refs, TypeOK
  <2>4. pinned' = pinned /\ k \notin pinned
    <3>1. \A c \in Buf : blockno[c] # k
      BY <1>2, RecyclePicks
    <3> QED
      BY <1>2, <3>1 DEF BgetRecycle, DataInv
  <2>5. \A c \in Buf : Cardinality(Refs(c)') = IF c = b THEN 1 ELSE Cardinality(Refs(c))
    BY <2>3, FS_Singleton
  <2> QED
    BY <2>1, <2>4, <2>5 DEF RefInv, TypeOK
<1>3. ASSUME NEW t \in Thread, AcquireSleep(t) \/ Bread(t) \/ ReleaseSleep(t)
      PROVE  RefInv'
  <2>1. \A c \in Buf : Refs(c)' = Refs(c)
    BY <1>3 DEF AcquireSleep, Bread, ReleaseSleep, Goto, Refs, TypeOK
  <2>2. UNCHANGED <<refcnt, blockno, pinned>>
    BY <1>3 DEF AcquireSleep, Bread, ReleaseSleep
  <2> QED
    BY <2>1, <2>2 DEF RefInv
<1>4. ASSUME NEW t \in Thread, NEW v \in Value, Bwrite(t, v)
      PROVE  RefInv'
  BY <1>4 DEF Bwrite, Refs, RefInv
<1>5. ASSUME NEW t \in Thread, NEW v \in Value, Bpin(t, v)
      PROVE  RefInv'
  <2>1. /\ \A c \in Buf : Refs(c)' = Refs(c) /\ Cardinality(Refs(c)) \in Nat
        /\ blockno' = blockno /\ buf[t] \in Buf /\ blockno[buf[t]] = want[t] /\ want[t] \in Block
    BY <1>5, RefsFinite DEF Bpin, Refs, TypeOK, NameInv
  <2>2. CASE want[t] \in pinned
    BY <1>5, <2>1, <2>2 DEF Bpin, RefInv, TypeOK
  <2>3. CASE want[t] \notin pinned
    <3>1. \A c \in Buf : c # buf[t] => blockno[c] # want[t]
      BY <2>1, BufCacheAssumption DEF NameInv
    <3>2. refcnt' = [refcnt EXCEPT ![buf[t]] = @ + 1] /\ pinned' = pinned \cup {want[t]}
      BY <1>5, <2>3 DEF Bpin
    <3> QED
      BY <2>1, <2>3, <3>1, <3>2 DEF RefInv, TypeOK
  <2> QED
    BY <2>2, <2>3
<1>6. ASSUME NEW t \in Thread, Bunpin(t)
      PROVE  RefInv'
  <2>1. /\ \A c \in Buf : Refs(c)' = Refs(c) /\ Cardinality(Refs(c)) \in Nat
        /\ blockno' = blockno /\ buf[t] \in Buf /\ blockno[buf[t]] = want[t] /\ want[t] \in Block
    BY <1>6, RefsFinite DEF Bunpin, Refs, TypeOK, NameInv
  <2>2. \A c \in Buf : c # buf[t] => blockno[c] # want[t]
    BY <2>1, BufCacheAssumption DEF NameInv
  <2>3. /\ refcnt' = [refcnt EXCEPT ![buf[t]] = @ - 1] /\ pinned' = pinned \ {want[t]}
        /\ want[t] \in pinned
    BY <1>6 DEF Bunpin
  <2> QED
    BY <2>1, <2>2, <2>3 DEF RefInv, TypeOK
<1>7. ASSUME NEW t \in Thread, Brelse(t)
      PROVE  RefInv'
  <2>1. PICK b \in Buf : b = buf[t]
    BY DEF TypeOK
  <2>2. UNCHANGED <<blockno, pinned>> /\ refcnt' = [refcnt EXCEPT ![b] = @ - 1]
    BY <1>7, <2>1 DEF Brelse
  <2>3. /\ t \in Refs(b)
        /\ \A c \in Buf : Refs(c)' = IF c = b THEN Refs(c) \ {t} ELSE Refs(c)
    BY <1>7, <2>1 DEF Brelse, Goto, Refs, TypeOK
  <2>4. \A c \in Buf : Cardinality(Refs(c)') =
                         IF c = b THEN Cardinality(Refs(c)) - 1 ELSE Cardinality(Refs(c))
    BY <2>3, RefsFinite, FS_RemoveElement
  <2>5. \A c \in Buf : Cardinality(Refs(c)) \in Nat
    BY RefsFinite
  <2> QED
    BY <2>2, <2>4, <2>5 DEF RefInv, TypeOK
<1> QED
  BY <1>1, <1>2, <1>3, <1>4, <1>5, <1>6, <1>7 DEF Next

-----------------------------------------------------------------------------
(* Types. *)

\* Moving a buffer to the head of the list keeps all the others on it.
LEMMA ToHeadIsList ==
    ASSUME ListOK, NEW b \in Buf
    PROVE  ToHead(b) \in [Buf -> Buf] /\ \A c \in Buf : \E k \in Buf : ToHead(b)[k] = c
<1>1. Position(b) \in Buf /\ lru[Position(b)] = b
  BY DEF ListOK, Position
<1>2. NBUF \in Nat \ {0} /\ 1 \in Buf
  BY BufCacheAssumption DEF Buf
<1>3. \A k \in Buf : k # 1 /\ k <= Position(b) => k - 1 \in Buf
  BY <1>1, <1>2 DEF Buf
<1>4. ToHead(b) \in [Buf -> Buf]
  BY <1>3 DEF ToHead, ListOK
<1>5. ASSUME NEW c \in Buf
      PROVE  \E k \in Buf : ToHead(b)[k] = c
  <2>1. PICK j \in Buf : lru[j] = c
    BY DEF ListOK
  <2>2. CASE c = b
    BY <1>2, <2>2 DEF ToHead
  <2>3. CASE c # b /\ j < Position(b)
    <3>1. /\ j + 1 \in Buf /\ j + 1 # 1 /\ j + 1 <= Position(b)
          /\ (j + 1) - 1 = j
      BY <1>1, <1>2, <2>3 DEF Buf
    <3>2. ToHead(b)[j + 1] = c
      BY <2>1, <3>1 DEF ToHead
    <3> QED
      BY <3>1, <3>2
  <2>4. CASE c # b /\ ~(j < Position(b))
    <3>1. j # 1 /\ ~(j <= Position(b))
      BY <1>1, <1>2, <2>1, <2>4 DEF Buf
    <3> QED
      BY <2>1, <3>1 DEF ToHead
  <2> QED
    BY <2>2, <2>3, <2>4
<1> QED
  BY <1>4, <1>5

LEMMA TypeStep ==
    ASSUME TypeOK, RefInv, NameInv, Next
    PROVE  TypeOK'
<1>0. ListOK /\ BufOK /\ ValidOK /\ CtlOK /\ CountOK
  BY TypeParts
<1>1. ListOK'
  <2>1. CASE lru' = lru
    BY <1>0, <2>1 DEF ListOK
  <2>2. ASSUME NEW t \in Thread, Brelse(t), lru' # lru
        PROVE  ListOK'
    <3>1. lru' = ToHead(buf[t]) /\ buf[t] \in Buf
      BY <1>0, <2>2 DEF Brelse, BufOK
    <3> QED
      BY <1>0, <3>1, ToHeadIsList DEF ListOK
  <2> QED
    BY <2>1, <2>2 DEF Next, BgetHit, BgetRecycle, AcquireSleep, Bread, Bwrite, Bpin, Bunpin,
                      ReleaseSleep
<1>2. BufOK'
  <2> USE DEF BufOK
  <2>1. ASSUME NEW t \in Thread, NEW k \in Block, BgetHit(t, k) \/ BgetRecycle(t, k)
        PROVE  BufOK'
    BY <1>0, <2>1, HitPicks, RecyclePicks DEF BgetHit, BgetRecycle
  <2>2. ASSUME NEW t \in Thread, NEW v \in Value, Bwrite(t, v) \/ Bpin(t, v)
        PROVE  BufOK'
    <3>1. want[t] \in Block /\ blockno[buf[t]] = want[t]
      BY <2>2 DEF Bwrite, Bpin, NameInv
    <3> QED
      BY <1>0, <2>2, <3>1 DEF Bwrite, Bpin
  <2>3. ASSUME NEW t \in Thread, Bread(t) \/ Bunpin(t)
        PROVE  BufOK'
    <3>1. want[t] \in Block /\ blockno[buf[t]] = want[t]
      BY <2>3 DEF Bread, Bunpin, NameInv
    <3> QED
      BY <1>0, <2>3, <3>1 DEF Bread, Bunpin
  <2>4. ASSUME NEW t \in Thread, AcquireSleep(t) \/ ReleaseSleep(t)
        PROVE  BufOK'
    BY <1>0, <2>4 DEF AcquireSleep, ReleaseSleep
  <2>5. ASSUME NEW t \in Thread, Brelse(t)
        PROVE  BufOK'
    <3>1. 1 \in Buf
      BY BufCacheAssumption DEF Buf
    <3> QED
      BY <1>0, <2>5, <3>1 DEF Brelse
  <2> QED
    BY <2>1, <2>2, <2>3, <2>4, <2>5 DEF Next
<1>3. ValidOK'
  <2>1. ASSUME NEW t \in Thread, NEW k \in Block, BgetRecycle(t, k)
        PROVE  ValidOK'
    BY <1>0, <2>1, RecyclePicks DEF ValidOK
  <2>2. ASSUME NEW t \in Thread, Bread(t)
        PROVE  ValidOK'
    BY <1>0, <2>2 DEF ValidOK, Bread
  <2>3. CASE valid' = valid
    BY <1>0, <2>3 DEF ValidOK
  <2> QED
    BY <2>1, <2>2, <2>3 DEF Next, BgetHit, AcquireSleep, Bwrite, Bpin, Bunpin, ReleaseSleep, Brelse
<1>4. CtlOK'
  BY <1>0 DEF CtlOK, Next, BgetHit, BgetRecycle, AcquireSleep, Bread, Bwrite, Bpin, Bunpin,
              ReleaseSleep, Brelse, Goto
<1>5. CountOK'
  <2>1. \A b \in Buf : Cardinality(Refs(b)) \in Nat
    BY RefsFinite
  <2>2. ASSUME NEW t \in Thread, NEW k \in Block, BgetHit(t, k) \/ BgetRecycle(t, k)
        PROVE  CountOK'
    BY <1>0, <2>2, HitPicks, RecyclePicks DEF CountOK
  <2>3. ASSUME NEW t \in Thread, NEW v \in Value, Bpin(t, v)
        PROVE  CountOK'
    BY <1>0, <2>3 DEF CountOK, BufOK, Bpin
  <2>4. ASSUME NEW t \in Thread, Bunpin(t)
        PROVE  CountOK'
    <3>1. refcnt[buf[t]] - 1 \in Nat
      BY <1>0, <2>1, <2>4 DEF Bunpin, RefInv, NameInv, CountOK, BufOK
    <3> QED
      BY <1>0, <2>4, <3>1 DEF CountOK, Bunpin
  <2>5. ASSUME NEW t \in Thread, Brelse(t)
        PROVE  CountOK'
    <3>1. buf[t] \in Buf /\ t \in Refs(buf[t])
      BY <1>0, <2>5 DEF Brelse, Refs, BufOK
    <3>2. Cardinality(Refs(buf[t])) # 0
      BY <3>1, RefsFinite, FS_EmptySet
    <3>3. refcnt[buf[t]] - 1 \in Nat
      BY <1>0, <2>1, <3>1, <3>2 DEF RefInv, CountOK
    <3> QED
      BY <1>0, <2>5, <3>3 DEF CountOK, Brelse
  <2>6. CASE refcnt' = refcnt
    BY <1>0, <2>6 DEF CountOK
  <2> QED
    BY <2>2, <2>3, <2>4, <2>5, <2>6 DEF Next, AcquireSleep, Bread, Bwrite, ReleaseSleep
<1> QED
  BY <1>1, <1>2, <1>3, <1>4, <1>5 DEF TypeOK, ListOK, BufOK, ValidOK, CtlOK, CountOK

-----------------------------------------------------------------------------
(* Names, locks and contents. *)

LEMMA NameStep ==
    ASSUME TypeOK, RefInv, NameInv, Next
    PROVE  NameInv'
<1>1. ASSUME NEW t \in Thread, NEW k \in Block, BgetHit(t, k)
      PROVE  NameInv'
  <2>1. PICK b \in Buf : blockno[b] = k /\ buf' = [buf EXCEPT ![t] = b]
    BY <1>1, HitPicks
  <2> QED
    BY <1>1, <2>1 DEF BgetHit, Goto, NameInv, TypeOK
<1>2. ASSUME NEW t \in Thread, NEW k \in Block, BgetRecycle(t, k)
      PROVE  NameInv'
  <2>1. \A c \in Buf : blockno[c] # k
    BY <1>2, RecyclePicks
  <2>2. PICK b \in Buf : /\ refcnt[b] = 0
                         /\ blockno' = [blockno EXCEPT ![b] = k]
                         /\ buf' = [buf EXCEPT ![t] = b]
    BY <1>2, RecyclePicks
  <2>3. \A u \in Thread : pc[u] # "out" => buf[u] # b
    BY <2>2, UnusedIsFree DEF Refs
  <2>4. \A c, d \in Buf : blockno'[c] = blockno'[d] /\ blockno'[c] # NoBlock => c = d
    BY <2>1, <2>2 DEF NameInv, TypeOK
  <2>5. \A u \in Thread : pc'[u] # "out" => want'[u] \in Block /\ blockno'[buf'[u]] = want'[u]
    <3> TAKE u \in Thread
    <3>1. CASE u = t
      BY <1>2, <2>2, <3>1 DEF BgetRecycle, TypeOK
    <3>2. CASE u # t
      BY <1>2, <2>2, <2>3, <3>2 DEF BgetRecycle, Goto, NameInv, TypeOK
    <3> QED
      BY <3>1, <3>2
  <2> QED
    BY <2>4, <2>5 DEF NameInv
<1>3. ASSUME NEW t \in Thread, AcquireSleep(t) \/ Bread(t) \/ ReleaseSleep(t)
      PROVE  NameInv'
  BY <1>3 DEF AcquireSleep, Bread, ReleaseSleep, Goto, NameInv, TypeOK
<1>4. ASSUME NEW t \in Thread, Brelse(t)
      PROVE  NameInv'
  BY <1>4 DEF Brelse, Goto, NameInv, TypeOK
<1>5. ASSUME NEW t \in Thread, Bunpin(t) \/ \E v \in Value : Bwrite(t, v) \/ Bpin(t, v)
      PROVE  NameInv'
  BY <1>5 DEF Bunpin, Bwrite, Bpin, NameInv
<1> QED
  BY <1>1, <1>2, <1>3, <1>4, <1>5 DEF Next

LEMMA LockStep ==
    ASSUME TypeOK, LockInv, Next
    PROVE  LockInv'
<1> USE DEF LockInv, SleeperHasHolder
<1>1. ASSUME NEW t \in Thread, NEW k \in Block, BgetHit(t, k) \/ BgetRecycle(t, k)
      PROVE  LockInv'
  <2>1. /\ holder' = holder /\ pc' = [pc EXCEPT ![t] = "acquiresleep"] /\ pc[t] = "out"
        /\ \A u \in Thread : u # t => buf'[u] = buf[u]
    BY <1>1 DEF BgetHit, BgetRecycle, Goto, TypeOK
  <2>2. \A b \in Buf : holder[b] # t
    BY <2>1, BufCacheAssumption DEF TypeOK
  <2> QED
    BY <2>1, <2>2 DEF TypeOK
<1>2. ASSUME NEW t \in Thread, AcquireSleep(t)
      PROVE  LockInv'
  <2>1. CASE holder[buf[t]] = NoThread
    BY <1>2, <2>1, BufCacheAssumption DEF AcquireSleep, Goto, TypeOK
  <2>2. CASE holder[buf[t]] # NoThread
    BY <1>2, <2>2, BufCacheAssumption DEF AcquireSleep, Goto, TypeOK
  <2> QED
    BY <2>1, <2>2
<1>3. ASSUME NEW t \in Thread, Bread(t)
      PROVE  LockInv'
  BY <1>3, BufCacheAssumption DEF Bread, Goto, TypeOK
<1>4. ASSUME NEW t \in Thread, ReleaseSleep(t)
      PROVE  LockInv'
  BY <1>4, BufCacheAssumption DEF ReleaseSleep, TypeOK
<1>5. ASSUME NEW t \in Thread, Brelse(t)
      PROVE  LockInv'
  <2>1. \A b \in Buf : holder[b] # t
    BY <1>5, BufCacheAssumption DEF Brelse, TypeOK
  <2> QED
    BY <1>5, <2>1 DEF Brelse, Goto, TypeOK
<1>6. ASSUME NEW t \in Thread, Bunpin(t) \/ \E v \in Value : Bwrite(t, v) \/ Bpin(t, v)
      PROVE  LockInv'
  BY <1>6 DEF Bunpin, Bwrite, Bpin
<1> QED
  BY <1>1, <1>2, <1>3, <1>4, <1>5, <1>6 DEF Next

LEMMA DataStep ==
    ASSUME TypeOK, RefInv, NameInv, LockInv, DataInv, Next
    PROVE  DataInv'
<1>0. /\ \A t \in Thread : buf[t] \in Buf
      /\ \A t \in Thread : pc[t] # "out" => want[t] \in Block /\ blockno[buf[t]] = want[t]
      /\ NoBlock \notin Block /\ NoThread \notin Thread
  BY BufCacheAssumption DEF NameInv, TypeOK
<1>1. ASSUME NEW t \in Thread, NEW k \in Block, BgetHit(t, k)
      PROVE  DataInv'
  <2>1. \A u \in Thread : pc'[u] = "use" => pc[u] = "use" /\ buf'[u] = buf[u]
    BY <1>1 DEF BgetHit, Goto, TypeOK
  <2> QED
    BY <1>1, <2>1 DEF BgetHit, DataInv
<1>2. ASSUME NEW t \in Thread, NEW k \in Block, BgetRecycle(t, k)
      PROVE  DataInv'
  <2>1. PICK b \in Buf : /\ refcnt[b] = 0
                         /\ blockno' = [blockno EXCEPT ![b] = k]
                         /\ valid' = [valid EXCEPT ![b] = FALSE]
                         /\ buf' = [buf EXCEPT ![t] = b]
    BY <1>2, RecyclePicks
  <2>2. Refs(b) = {} /\ blockno[b] \notin pinned
    BY <2>1, UnusedIsFree
  <2>3. \A u \in Thread : pc'[u] = "use" => pc[u] = "use" /\ buf'[u] = buf[u] /\ buf[u] # b
    BY <1>2, <2>2 DEF BgetRecycle, Goto, Refs, TypeOK
  <2>4. \A c \in Buf : /\ c = b => ~valid'[c]
                       /\ c # b => valid'[c] = valid[c] /\ blockno'[c] = blockno[c]
    BY <2>1 DEF TypeOK
  <2>5. UNCHANGED <<data, pinned, disk, latest>>
    BY <1>2 DEF BgetRecycle
  <2>6. \A c \in Buf : valid'[c] => blockno'[c] \in Block /\ data'[c] = latest'[blockno'[c]]
    BY <2>4, <2>5 DEF DataInv
  <2>7. \A j \in pinned' : \E c \in Buf : blockno'[c] = j /\ valid'[c]
    <3> TAKE j \in pinned'
    <3>1. PICK c \in Buf : blockno[c] = j /\ valid[c]
      BY <2>5 DEF DataInv
    <3>2. c # b
      BY <2>2, <2>5, <3>1
    <3> QED
      BY <2>4, <3>1, <3>2
  <2>8. \A u \in Thread : pc'[u] = "use" => valid'[buf'[u]]
    BY <1>0, <2>3, <2>4 DEF DataInv
  <2> QED
    BY <2>5, <2>6, <2>7, <2>8 DEF DataInv
<1>3. ASSUME NEW t \in Thread, AcquireSleep(t) \/ ReleaseSleep(t)
      PROVE  DataInv'
  <2>1. \A u \in Thread : pc'[u] = "use" => pc[u] = "use"
    BY <1>3 DEF AcquireSleep, ReleaseSleep, Goto, TypeOK
  <2> QED
    BY <1>3, <2>1 DEF AcquireSleep, ReleaseSleep, DataInv
<1>4. ASSUME NEW t \in Thread, Bread(t)
      PROVE  DataInv'
  <2>1. PICK b \in Buf : b = buf[t]
    BY <1>0
  <2>2. blockno[b] \in Block
    BY <1>0, <1>4, <2>1 DEF Bread
  <2>3. /\ data' = [data EXCEPT ![b] = IF valid[b] THEN @ ELSE disk[blockno[b]]]
        /\ valid' = [valid EXCEPT ![b] = TRUE]
        /\ UNCHANGED <<blockno, pinned, disk, latest, buf>>
    BY <1>4, <2>1 DEF Bread
  <2>4. data'[b] = latest[blockno[b]]
    <3>1. CASE valid[b]
      BY <2>3, <3>1 DEF DataInv, TypeOK
    <3>2. CASE ~valid[b]
      <4>1. blockno[b] \notin pinned
        BY <1>0, <2>2, <3>2 DEF DataInv, NameInv
      <4> QED
        BY <2>2, <2>3, <3>2, <4>1 DEF DataInv, TypeOK
    <3> QED
      BY <3>1, <3>2
  <2>5. \A c \in Buf : /\ c = b => valid'[c]
                       /\ c # b => valid'[c] = valid[c] /\ data'[c] = data[c]
    BY <2>3 DEF TypeOK
  <2>6. \A u \in Thread : pc'[u] = "use" => u = t \/ pc[u] = "use"
    BY <1>4 DEF Bread, Goto, TypeOK
  <2>7. \A c \in Buf : valid'[c] => blockno'[c] \in Block /\ data'[c] = latest'[blockno'[c]]
    BY <2>2, <2>3, <2>4, <2>5 DEF DataInv
  <2>8. \A j \in pinned' : \E c \in Buf : blockno'[c] = j /\ valid'[c]
    BY <2>3, <2>5 DEF DataInv
  <2>9. \A u \in Thread : pc'[u] = "use" => valid'[buf'[u]]
    BY <1>0, <2>1, <2>3, <2>5, <2>6 DEF DataInv
  <2> QED
    BY <2>3, <2>7, <2>8, <2>9 DEF DataInv
<1>5. ASSUME NEW t \in Thread, NEW v \in Value, Bwrite(t, v) \/ Bpin(t, v)
      PROVE  DataInv'
  <2>1. PICK b \in Buf : b = buf[t]
    BY <1>0
  <2>2. /\ pc[t] = "use" /\ blockno[b] = want[t] /\ want[t] \in Block /\ valid[b]
        /\ \A c \in Buf : c # b => blockno[c] # want[t]
    BY <1>0, <1>5, <2>1 DEF Bwrite, Bpin, DataInv, NameInv
  <2>3. /\ data' = [data EXCEPT ![b] = v] /\ latest' = [latest EXCEPT ![want[t]] = v]
        /\ UNCHANGED <<blockno, valid, pc, buf>>
    BY <1>5, <2>1 DEF Bwrite, Bpin
  <2>4. \A c \in Buf : valid'[c] => blockno'[c] \in Block /\ data'[c] = latest'[blockno'[c]]
    BY <2>2, <2>3 DEF DataInv, TypeOK
  <2>5. /\ \A j \in Block : j \notin pinned' => disk'[j] = latest'[j]
        /\ \A j \in pinned' : \E c \in Buf : blockno'[c] = j /\ valid'[c]
    <3>1. CASE Bwrite(t, v)
      BY <2>1, <2>2, <2>3, <3>1 DEF Bwrite, DataInv, TypeOK
    <3>2. CASE Bpin(t, v)
      BY <2>1, <2>2, <2>3, <3>2 DEF Bpin, DataInv, TypeOK
    <3> QED
      BY <1>5, <3>1, <3>2
  <2> QED
    BY <2>3, <2>4, <2>5 DEF DataInv
<1>6. ASSUME NEW t \in Thread, Bunpin(t)
      PROVE  DataInv'
  <2>1. /\ pc[t] = "use" /\ blockno[buf[t]] = want[t] /\ want[t] \in Block
        /\ data[buf[t]] = latest[want[t]]
    BY <1>0, <1>6 DEF Bunpin, DataInv
  <2> QED
    BY <1>6, <2>1 DEF Bunpin, DataInv, TypeOK
<1>7. ASSUME NEW t \in Thread, Brelse(t)
      PROVE  DataInv'
  <2>1. \A u \in Thread : pc'[u] = "use" => pc[u] = "use" /\ buf'[u] = buf[u]
    BY <1>7 DEF Brelse, Goto, TypeOK
  <2> QED
    BY <1>7, <2>1 DEF Brelse, DataInv
<1> QED
  BY <1>1, <1>2, <1>3, <1>4, <1>5, <1>6, <1>7 DEF Next

LEMMA PinStep ==
    ASSUME PinInv, Next
    PROVE  PinInv'
<1>1. ASSUME NEW t \in Thread, NEW v \in Value, Bpin(t, v)
      PROVE  PinInv'
  <2>1. /\ pinned' = pinned \cup {want[t]}
        /\ want[t] \in pinned \/ Cardinality(pinned) < MaxPinned
    BY <1>1 DEF Bpin
  <2>2. Cardinality(pinned) \in Nat
    BY FS_CardinalityType DEF PinInv
  <2>3. /\ IsFiniteSet(pinned \cup {want[t]})
        /\ want[t] \in pinned => pinned \cup {want[t]} = pinned
        /\ want[t] \notin pinned => Cardinality(pinned \cup {want[t]}) = Cardinality(pinned) + 1
    BY FS_AddElement DEF PinInv
  <2>4. Cardinality(pinned \cup {want[t]}) <= MaxPinned
    BY <2>1, <2>2, <2>3, BufCacheAssumption DEF PinInv
  <2> QED
    BY <2>1, <2>3, <2>4 DEF PinInv
<1>2. ASSUME NEW t \in Thread, Bunpin(t)
      PROVE  PinInv'
  <2>1. pinned' = pinned \ {want[t]} /\ Cardinality(pinned) \in Nat
    BY <1>2, FS_CardinalityType DEF Bunpin, PinInv
  <2>2. /\ IsFiniteSet(pinned \ {want[t]}) /\ want[t] \in pinned
        /\ Cardinality(pinned \ {want[t]}) = Cardinality(pinned) - 1
    BY <1>2, FS_RemoveElement DEF Bunpin, PinInv
  <2>3. Cardinality(pinned \ {want[t]}) <= MaxPinned
    BY <2>1, <2>2, BufCacheAssumption DEF PinInv
  <2> QED
    BY <2>1, <2>2, <2>3 DEF PinInv
<1>3. CASE pinned' = pinned
  BY <1>3 DEF PinInv
<1> QED
  BY <1>1, <1>2, <1>3 DEF Next, BgetHit, BgetRecycle, AcquireSleep, Bread, Bwrite, ReleaseSleep, Brelse

-----------------------------------------------------------------------------
(* The theorem. *)

\* Fewer buffers are referred to than there are other threads and pins.
LEMMA BufferLeft ==
    ASSUME IInv, Enough, NEW t \in Thread, pc[t] = "out"
    PROVE  Unused # {}
<1> SUFFICES ASSUME Unused = {} PROVE FALSE
  OBVIOUS
<1> DEFINE D == Thread \ {t}
           B1 == {b \in Buf : \E u \in D : buf[u] = b}
           B2 == {b \in Buf : blockno[b] \in pinned}
<1>1. /\ IsFiniteSet(D) /\ Cardinality(D) = Cardinality(Thread) - 1
      /\ Cardinality(Thread) \in Nat /\ Cardinality(D) \in Nat
  BY BufCacheAssumption, FS_RemoveElement, FS_CardinalityType
<1>2. IsFiniteSet(B1) /\ Cardinality(B1) <= Cardinality(D) /\ Cardinality(B1) \in Nat
  <2>1. [u \in D |-> buf[u]] \in Surjection(D, B1)
    BY DEF Surjection, IInv, TypeOK
  <2> QED
    BY <1>1, <2>1, FS_Surjection, FS_CardinalityType
<1>3. IsFiniteSet(B2) /\ Cardinality(B2) <= Cardinality(pinned) /\ Cardinality(B2) \in Nat
  <2>1. \A b, c \in B2 : blockno[b] = blockno[c] => b = c
    BY BufCacheAssumption DEF IInv, NameInv, TypeOK
  <2>2. [b \in B2 |-> blockno[b]] \in Injection(B2, pinned)
    BY <2>1 DEF Injection, IsInjective
  <2> QED
    BY <2>2, FS_Injection, FS_CardinalityType DEF IInv, PinInv
<1>4. Buf \subseteq B1 \cup B2
  <2> SUFFICES ASSUME NEW b \in Buf, b \notin B2 PROVE b \in B1
    OBVIOUS
  <2>1. refcnt[b] # 0 /\ blockno[b] \notin pinned
    BY DEF Unused
  <2>2. Refs(b) # {}
    BY <2>1, FS_EmptySet DEF IInv, RefInv
  <2> QED
    BY <2>2 DEF Refs
<1>5. /\ IsFiniteSet(B1 \cup B2)
      /\ Cardinality(B1 \cup B2) <= Cardinality(B1) + Cardinality(B2)
      /\ Cardinality(B1 \cup B2) \in Nat
  <2>1. IsFiniteSet(B1 \cap B2) /\ Cardinality(B1 \cap B2) \in Nat
    BY <1>2, FS_Intersection, FS_CardinalityType
  <2>2. /\ IsFiniteSet(B1 \cup B2)
        /\ Cardinality(B1 \cup B2) = Cardinality(B1) + Cardinality(B2) - Cardinality(B1 \cap B2)
    BY <1>2, <1>3, FS_Union
  <2>3. Cardinality(B1 \cup B2) \in Nat
    BY <2>2, FS_CardinalityType
  <2> HIDE DEF B1, B2
  <2> QED
    BY <1>2, <1>3, <2>1, <2>2, <2>3
<1>6. Cardinality(Buf) = NBUF
  BY FS_Interval, BufCacheAssumption DEF Buf
<1>7. NBUF <= Cardinality(B1 \cup B2)
  BY <1>4, <1>5, <1>6, FS_Subset
<1>8. Cardinality(pinned) <= MaxPinned /\ Cardinality(pinned) \in Nat
  BY FS_CardinalityType DEF IInv, PinInv
<1> HIDE DEF D, B1, B2
<1> QED
  BY <1>1, <1>2, <1>3, <1>5, <1>7, <1>8, BufCacheAssumption DEF Enough

\* The buffer cache, for every number of threads, blocks and buffers: one buffer for a
\* block, one process in it at a time, and it sees the last value any process gave the
\* block, although bget() lets go of bcache.lock before it sleeps for the buffer and
\* buffers are recycled; and with a buffer for every thread and every pin bget() does
\* not panic.
THEOREM CacheSafety == Spec => []CacheCoherent
<1>1. Init => IInv
  <2> SUFFICES ASSUME Init PROVE IInv
    OBVIOUS
  <2>1. ListOK
    <3>1. \A k \in Buf : NBUF + 1 - k \in Buf /\ NBUF + 1 - (NBUF + 1 - k) = k
      BY BufCacheAssumption DEF Buf
    <3> QED
      BY <3>1 DEF Init, ListOK
  <2>2. BufOK /\ CountOK
    BY BufCacheAssumption DEF Init, BufOK, CountOK, Buf
  <2>3. ValidOK /\ CtlOK
    BY DEF Init, ValidOK, CtlOK
  <2>4. RefInv
    <3>1. \A b \in Buf : Refs(b) = {}
      BY DEF Init, Refs
    <3>2. \A b \in Buf : Cardinality(Refs(b)) = 0 /\ refcnt[b] = 0 /\ blockno[b] \notin pinned
      BY <3>1, FS_EmptySet DEF Init
    <3> QED
      BY <3>2 DEF RefInv
  <2>5. NameInv /\ LockInv
    BY DEF Init, NameInv, LockInv, SleeperHasHolder
  <2>6. DataInv
    BY DEF Init, DataInv
  <2>7. PinInv
    BY FS_EmptySet, BufCacheAssumption DEF Init, PinInv
  <2> QED
    BY <2>1, <2>2, <2>3, <2>4, <2>5, <2>6, <2>7, TypeParts DEF IInv
<1>2. IInv /\ [Next]_vars => IInv'
  <2>1. IInv /\ Next => IInv'
    BY TypeStep, RefStep, NameStep, LockStep, DataStep, PinStep DEF IInv
  <2>2. IInv /\ UNCHANGED vars => IInv'
    BY DEF vars, IInv, TypeOK, RefInv, Refs, NameInv, LockInv, SleeperHasHolder, DataInv, PinInv
  <2> QED
    BY <2>1, <2>2
<1>3. IInv => CacheCoherent
  <2> SUFFICES ASSUME IInv PROVE CacheCoherent
    OBVIOUS
  <2>1. OneCopy
    <3>1. \A b, c \in Buf : b # c /\ blockno[b] = blockno[c] => blockno[b] = NoBlock
      BY DEF IInv, NameInv
    <3>2. ASSUME NEW t \in Thread, NEW u \in Thread, t # u,
                 pc[t] \in {"bread", "use"}, pc[u] \in {"bread", "use"}
          PROVE  want[t] # want[u]
      <4>1. holder[buf[t]] = t /\ holder[buf[u]] = u /\ buf[t] \in Buf /\ buf[u] \in Buf
        BY <3>2 DEF IInv, LockInv, TypeOK
      <4>2. buf[t] # buf[u]
        BY <3>2, <4>1
      <4> QED
        BY <3>2, <4>1, <4>2, BufCacheAssumption DEF IInv, NameInv
    <3> QED
      BY <3>1, <3>2 DEF OneCopy
  <2>2. Coherent
    BY DEF IInv, NameInv, DataInv, TypeOK, Coherent
  <2>3. NeverOutOfBuffers
    BY BufferLeft DEF NeverOutOfBuffers
  <2> QED
    BY <2>1, <2>2, <2>3 DEF IInv, LockInv, CacheCoherent
<1> QED
  BY <1>1, <1>2, <1>3, PTL DEF Spec
=============================================================================
