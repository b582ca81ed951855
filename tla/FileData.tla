------------------------------- MODULE FileData -------------------------------
(* The content of files: the block bitmap (balloc, bfree), the block addresses *)
(* of an inode (bmap, itrunc), readi, writei, and fileread and filewrite, which *)
(* use them through the offset of a struct file.  A step is one block of a     *)
(* write; the bitmap's buffer lock makes an allocation atomic.                 *)
EXTENDS Integers, Sequences, FiniteSets, FiniteSetsExt

CONSTANTS
    Thread, NoThread,
    Inode, File, InodeOf,       \* open files, and the inode of each
    Block,                      \* numbers of the data blocks, from 1
    BSIZE, BPB,                 \* bytes in a block, blocks that one bitmap block describes
    NDIRECT, NINDIRECT,
    MAXOPBLOCKS,
    Count,                      \* bound: sizes of the reads and writes
    Value, Stale                \* Value[t]: the byte that t writes; a byte of a free block

VARIABLES
    used,     \* blocks whose bit is set in the bitmap
    data,     \* data[b]: bytes of the cached block
    ind,      \* ind[b]: the block as a table of addresses
    ino,      \* ino[i]: addrs and size
    off,      \* off[f]: offset of the open file
    lock,     \* lock[i]: thread that holds the inode's lock
    th,       \* th[t]: a filewrite() under way
    logged    \* logged[t]: what its transaction has given to log_write()

vars == <<used, data, ind, ino, off, lock, th, logged>>

MAXFILE == NDIRECT + NINDIRECT
Idle == [pc |-> "idle", f |-> CHOOSE f \in File : TRUE, left |-> 0, n1 |-> 0, tot |-> 0, start |-> 0]
Zero == [k \in 0..BSIZE - 1 |-> 0]
Garbage == [k \in 0..BSIZE - 1 |-> Stale]
NoAddrs == [k \in 0..NINDIRECT - 1 |-> 0]
Inum(t) == InodeOf[th[t].f]

TypeOK ==
    /\ used \subseteq Block
    /\ data \in [Block -> [0..BSIZE - 1 -> {0, Stale} \cup {Value[t] : t \in Thread}]]
    /\ ind \in [Block -> [0..NINDIRECT - 1 -> Block \cup {0}]]
    /\ ino \in [Inode -> [addrs : [0..NDIRECT -> Block \cup {0}], size : 0..MAXFILE * BSIZE]]
    /\ off \in [File -> 0..MAXFILE * BSIZE]
    /\ lock \in [Inode -> Thread \cup {NoThread}]
    /\ \A t \in Thread : th[t].pc \in {"idle", "chunk", "loop", "end", "torn"} /\ th[t].tot \in 0..th[t].n1

Init ==
    /\ used = {}
    /\ data = [b \in Block |-> Garbage] /\ ind = [b \in Block |-> NoAddrs]
    /\ ino = [i \in Inode |-> [addrs |-> [k \in 0..NDIRECT |-> 0], size |-> 0]]
    /\ off = [f \in File |-> 0]
    /\ lock = [i \in Inode |-> NoThread]
    /\ th = [t \in Thread |-> Idle]
    /\ logged = [t \in Thread |-> {}]

(***************************************************************************)
(* balloc(), bmap() and itrunc()                                           *)
(***************************************************************************)
BBLOCK(b) == <<"bitmap", b \div BPB>>

\* With no free block balloc() panics, which the instances leave out.  The k-th
\* free block, which balloc() finds when k - 1 were taken before it.
Free(k) == CHOOSE b \in Block \ used : Cardinality({c \in Block \ used : c < b}) = k - 1

\* bmap(ip, bn): the address, and the blocks it allocates for the table and for it.
bmap(ip, bn) ==
    IF bn < NDIRECT
    THEN IF ip.addrs[bn] # 0 THEN [addr |-> ip.addrs[bn], new |-> {}, table |-> 0]
         ELSE [addr |-> Free(1), new |-> {Free(1)}, table |-> 0]
    ELSE IF ip.addrs[NDIRECT] = 0
    THEN [addr |-> Free(2), new |-> {Free(1), Free(2)}, table |-> Free(1)]
    ELSE LET table == ip.addrs[NDIRECT]
             a == ind[table][bn - NDIRECT]
         IN IF a # 0 THEN [addr |-> a, new |-> {}, table |-> table]
            ELSE [addr |-> Free(1), new |-> {Free(1)}, table |-> table]

\* The addresses of an inode, its table's included.
Blocks(ip) ==
    ({ip.addrs[k] : k \in 0..NDIRECT}
       \cup (IF ip.addrs[NDIRECT] = 0 THEN {} ELSE {ind[ip.addrs[NDIRECT]][k] : k \in 0..NINDIRECT - 1})) \ {0}

\* The table of addresses is not freed (mutant of Freed).
FreedNotTable(ip) == Blocks(ip) \ {ip.addrs[NDIRECT]}

Freed(ip) == Blocks(ip)

\* The content of the freed blocks stays where it is; nobody may look at it.
itrunc(i) ==
    /\ used' = used \ Freed(ino[i])
    /\ data' = [b \in Block |-> IF b \in Blocks(ino[i]) THEN Garbage ELSE data[b]]
    /\ ind' = [b \in Block |-> IF b \in Blocks(ino[i]) THEN NoAddrs ELSE ind[b]]
    /\ ino' = [ino EXCEPT ![i] = [addrs |-> [k \in 0..NDIRECT |-> 0], size |-> 0]]

(***************************************************************************)
(* open() again, fileread() and filewrite()                                *)
(***************************************************************************)
InUse(f) == \E t \in Thread : th[t].pc # "idle" /\ th[t].f = f

\* A new struct file in place of f, perhaps with O_TRUNC.
Open(t, f, trunc) ==
    /\ th[t].pc = "idle" /\ ~InUse(f) /\ lock[InodeOf[f]] = NoThread
    /\ off' = [off EXCEPT ![f] = 0]
    /\ IF trunc THEN itrunc(InodeOf[f]) ELSE UNCHANGED <<used, data, ind, ino>>
    /\ UNCHANGED <<lock, th, logged>>

\* readi()'s count: nothing past the end of the file.
ReadCount(i, o, n) == IF o > ino[i].size THEN 0 ELSE IF o + n > ino[i].size THEN ino[i].size - o ELSE n

Read(t, f, n) ==
    LET i == InodeOf[f] IN
    /\ th[t].pc = "idle" /\ lock[i] = NoThread
    /\ off' = [off EXCEPT ![f] = @ + ReadCount(i, @, n)]
    /\ UNCHANGED <<used, data, ind, ino, lock, th, logged>>

Write(t, f, n) ==
    /\ th[t].pc = "idle"
    /\ th' = [th EXCEPT ![t] = [Idle EXCEPT !.pc = "chunk", !.f = f, !.left = n]]
    /\ UNCHANGED <<used, data, ind, ino, off, lock, logged>>

ChunkMax == ((MAXOPBLOCKS - 1 - 1 - 2) \div 2) * BSIZE

\* begin_op(), ilock() and the tests of writei(); a chunk that fails them ends
\* the call.
Chunk(t) ==
    LET r == th[t]
        i == Inum(t)
        o == off[r.f]
        n1 == Min({r.left, ChunkMax})
    IN
    /\ r.pc = "chunk" /\ lock[i] = NoThread
    /\ IF o > ino[i].size \/ o + n1 > MAXFILE * BSIZE
       THEN th' = [th EXCEPT ![t] = Idle] /\ UNCHANGED lock
       ELSE /\ th' = [th EXCEPT ![t] = [r EXCEPT !.pc = "loop", !.n1 = n1, !.tot = 0, !.start = o]]
            /\ lock' = [lock EXCEPT ![i] = t]
    /\ UNCHANGED <<used, data, ind, ino, off, logged>>

\* Every block is filled from its start (mutant of First).
FirstZero(o) == 0

\* Where in its block the byte at o is.
First(o) == o % BSIZE

\* bzero() of a block that balloc() has taken.
Fresh(b, new) == IF b \in new THEN Zero ELSE data[b]

\* One turn of writei()'s loop, in which either_copyin() copies c of the m bytes
\* and fails when c < m.
Turn(t, c) ==
    LET r == th[t]
        i == Inum(t)
        o == r.start + r.tot
        x == bmap(ino[i], o \div BSIZE)
        m == Min({r.n1 - r.tot, BSIZE - (o % BSIZE)})
        first == First(o)
        table == x.table # 0 /\ x.new # {}
    IN
    /\ r.pc = "loop" /\ r.tot < r.n1 /\ c <= m
    /\ used' = used \cup x.new
    /\ data' = [data EXCEPT ![x.addr] = [k \in 0..BSIZE - 1 |->
                   IF k >= first /\ k < first + c THEN Value[t] ELSE Fresh(x.addr, x.new)[k]]]
    /\ ind' = IF x.table = 0 THEN ind
              ELSE [ind EXCEPT ![x.table] = [(IF x.table \in x.new THEN NoAddrs ELSE @)
                                               EXCEPT ![o \div BSIZE - NDIRECT] = x.addr]]
    /\ ino' = [ino EXCEPT ![i].addrs = IF x.table # 0 THEN [@ EXCEPT ![NDIRECT] = x.table]
                                       ELSE [@ EXCEPT ![o \div BSIZE] = x.addr]]
    /\ logged' = [logged EXCEPT ![t] = @ \cup {BBLOCK(b) : b \in x.new} \cup {<<"block", b>> : b \in x.new}
                      \cup (IF table THEN {<<"block", x.table>>} ELSE {})
                      \cup (IF c = m THEN {<<"block", x.addr>>} ELSE {})]
    /\ th' = [th EXCEPT ![t] = IF c = m THEN [r EXCEPT !.tot = @ + m] ELSE [r EXCEPT !.pc = IF c = 0 THEN "end" ELSE "torn"]]
    /\ UNCHANGED <<off, lock>>

NewSize(r, size) == Max({size, r.start + r.tot})

\* The end of writei(), with iupdate(), and of the turn in filewrite().
EndChunk(t) ==
    LET r == th[t]
        i == Inum(t)
    IN
    /\ r.pc \in {"end", "torn"} \/ (r.pc = "loop" /\ r.tot = r.n1)
    /\ ino' = [ino EXCEPT ![i].size = NewSize(r, @)]
    /\ off' = [off EXCEPT ![r.f] = @ + r.tot]
    /\ lock' = [lock EXCEPT ![i] = NoThread]
    /\ logged' = [logged EXCEPT ![t] = {}]
    /\ th' = [th EXCEPT ![t] = IF r.tot = r.n1 /\ r.left > r.n1
                               THEN [Idle EXCEPT !.pc = "chunk", !.f = r.f, !.left = r.left - r.n1]
                               ELSE Idle]
    /\ UNCHANGED <<used, data, ind>>

Next ==
    \E t \in Thread :
        \/ \E f \in File : \E trunc \in BOOLEAN : Open(t, f, trunc)
        \/ \E f \in File, n \in Count : Read(t, f, n) \/ Write(t, f, n)
        \/ Chunk(t) \/ EndChunk(t)
        \/ \E c \in 0..BSIZE : Turn(t, c)

Spec == Init /\ [][Next]_vars

-----------------------------------------------------------------------------
\* The block of byte k of an inode, as bmap() finds it.
Addr(ip, k) ==
    LET bn == k \div BSIZE IN
    IF bn < NDIRECT THEN ip.addrs[bn] ELSE ind[ip.addrs[NDIRECT]][bn - NDIRECT]

\* What readi() returns for the whole file.
Content(i) == [k \in 0..ino[i].size - 1 |-> data[Addr(ino[i], k)][k % BSIZE]]

\* No block belongs to two files or twice to one, and the bitmap has exactly the
\* blocks that belong to some file: nothing is lost by itrunc(), and balloc()
\* never hands out a block in use ("freeing free block" is out of reach).
BlocksOwned ==
    /\ used = UNION {Blocks(ino[i]) : i \in Inode}
    /\ \A i, j \in Inode : i # j => Blocks(ino[i]) \cap Blocks(ino[j]) = {}
    /\ \A i \in Inode :
          Cardinality(Blocks(ino[i])) =
              Cardinality({k \in 0..NDIRECT : ino[i].addrs[k] # 0})
              + (IF ino[i].addrs[NDIRECT] = 0 THEN 0
                 ELSE Cardinality({k \in 0..NINDIRECT - 1 : ind[ino[i].addrs[NDIRECT]][k] # 0}))

\* Every byte below the size has been written by somebody: neither a block that
\* another file had, nor one that a failed copy left behind, shows through.
OnlyWritten == \A i \in Inode : \A k \in 0..ino[i].size - 1 : Content(i)[k] \notin {0, Stale}

\* A transaction of filewrite() logs at most MAXOPBLOCKS blocks, the inode's
\* included, even when every new block has a bitmap block of its own and the
\* write is not aligned.
OpFits == \A t \in Thread : logged[t] # {} => Cardinality(logged[t]) + 1 <= MAXOPBLOCKS

\* A write changes only the bytes of its own range, and a file gets longer only
\* by bytes of the write that extends it.
RangeStep ==
    \A i \in Inode : \A k \in 0..ino'[i].size - 1 :
        \/ k < ino[i].size /\ Content(i)'[k] = Content(i)[k]
        \/ \E t \in Thread : /\ lock[i] = t /\ Content(i)'[k] = Value[t]
                             /\ k >= th[t].start /\ k < th[t].start + th[t].n1
WritesInRange == [][RangeStep]_vars

\* bio.c: "After changing buffer data, call bwrite to write it to disk", for
\* which log_write() stands in the file system: writei() never releases a
\* buffer that it has changed and not logged.
ChangesLogged == \A t \in Thread : th[t].pc # "torn"
=============================================================================
