------------------------------- MODULE Inode -------------------------------
(* The inode table (fs.c): iget, idup, ilock, iunlock, iput, ialloc and      *)
(* iupdate, used the way create, link, unlink, open and close use them on    *)
(* one directory.  itable.lock makes a step of iget() or iput() atomic; the  *)
(* sleep-lock of an entry and the lock of the directory are held over steps. *)
EXTENDS Integers, FiniteSets

CONSTANTS
    Thread, NoThread,
    Slot, NoSlot,     \* entries of itable (NINODE)
    Inum, Free,       \* inode numbers; an empty directory entry
    Name              \* names in the directory

VARIABLES
    disk,     \* disk[i]: type (0 is free) and nlink of the inode on disk
    itab,     \* itab[s]: inum, ref, valid, and the copy of type and nlink
    lock,     \* lock[s]: thread that holds ip->lock
    dir,      \* dir[n]: inode number of the directory entry
    dlock,    \* thread that holds the directory's lock
    th,       \* th[t]: place, system call, name and ip
    open      \* open[t]: entry t keeps a reference to (an open file or cwd)

vars == <<disk, itab, lock, dir, dlock, th, open>>

Idle == [pc |-> "idle", op |-> "none", name |-> "none", ip |-> NoSlot]
EmptySlot == [inum |-> CHOOSE i \in Inum : TRUE, ref |-> 0, valid |-> FALSE, type |-> 0, nlink |-> 0]
MaxRef == 2 * Cardinality(Thread)
MaxLink == Cardinality(Name) + Cardinality(Thread)

TypeOK ==
    /\ disk \in [Inum -> [type : 0..1, nlink : 0..MaxLink]]
    /\ itab \in [Slot -> [inum : Inum, ref : 0..MaxRef, valid : BOOLEAN, type : 0..1, nlink : 0..MaxLink]]
    /\ lock \in [Slot -> Thread \cup {NoThread}]
    /\ dir \in [Name -> Inum \cup {Free}] /\ dlock \in Thread \cup {NoThread}
    /\ th \in [Thread -> [pc : {"idle", "ilock", "body", "dirlink", "undo", "unlinked",
                                "iput", "trunc", "invalid", "deref"},
                          op : {"none", "open", "create", "unlink", "link", "stat", "close"},
                          name : Name \cup {"none"}, ip : Slot \cup {NoSlot}]]
    /\ open \in [Thread -> Slot \cup {NoSlot}]

Init ==
    /\ disk = [i \in Inum |-> [type |-> 0, nlink |-> 0]]
    /\ itab = [s \in Slot |-> EmptySlot] /\ lock = [s \in Slot |-> NoThread]
    /\ dir = [n \in Name |-> Free] /\ dlock = NoThread
    /\ th = [t \in Thread |-> Idle] /\ open = [t \in Thread |-> NoSlot]

(***************************************************************************)
(* The operations on the table.                                            *)
(***************************************************************************)
Cached(i) == {s \in Slot : itab[s].ref > 0 /\ itab[s].inum = i}

\* iget(): s is the entry of inode i, or an empty one.
iget(i, s) ==
    IF Cached(i) # {}
    THEN s \in Cached(i) /\ itab' = [itab EXCEPT ![s].ref = @ + 1]
    ELSE /\ itab[s].ref = 0
         /\ itab' = [itab EXCEPT ![s] = [EmptySlot EXCEPT !.inum = i, !.ref = 1]]

\* The copy is written to the disk block of the inode.
iupdate(s, c) == disk' = [disk EXCEPT ![c.inum] = [type |-> c.type, nlink |-> c.nlink]]

\* ip's fields become c, in memory and on disk.
Change(s, c) == itab' = [itab EXCEPT ![s] = c] /\ iupdate(s, c)

Goto(t, pc) == th' = [th EXCEPT ![t].pc = pc]

\* ilock(): the copy is read from the disk if it is not valid.
ilock(t) ==
    LET s == th[t].ip
        d == disk[itab[s].inum]
    IN
    /\ th[t].pc = "ilock" /\ lock[s] = NoThread
    /\ lock' = [lock EXCEPT ![s] = t]
    /\ itab' = IF itab[s].valid THEN itab
               ELSE [itab EXCEPT ![s].valid = TRUE, ![s].type = d.type, ![s].nlink = d.nlink]
    /\ Goto(t, "body")
    /\ UNCHANGED <<disk, dir, dlock, open>>

LastPut(c) == c.ref = 1 /\ c.valid /\ c.nlink = 0

\* ip->ref--.  iget() overwrites an entry without references, so it is shown empty.
Deref(s) == itab' = [itab EXCEPT ![s] = IF @.ref = 1 THEN EmptySlot ELSE [@ EXCEPT !.ref = @ - 1]]

\* iput(): a last reference to an inode without links frees it, with itable.lock
\* released meanwhile; any other is only dropped.
iput(t) ==
    LET s == th[t].ip IN
    /\ th[t].pc = "iput"
    /\ IF LastPut(itab[s])
       THEN /\ lock[s] = NoThread
            /\ lock' = [lock EXCEPT ![s] = t] /\ Goto(t, "trunc") /\ UNCHANGED itab
       ELSE /\ Deref(s)
            /\ th' = [th EXCEPT ![t] = Idle] /\ UNCHANGED lock
    /\ UNCHANGED <<disk, dir, dlock, open>>

\* itrunc(ip); ip->type = 0; iupdate(ip)
IputFree(t) ==
    /\ th[t].pc = "trunc"
    /\ Change(th[t].ip, [itab[th[t].ip] EXCEPT !.type = 0])
    /\ Goto(t, "invalid") /\ UNCHANGED <<lock, dir, dlock, open>>

\* ip->valid stays set (mutant of IputDone).
IputDoneValid(t) ==
    /\ th[t].pc = "invalid"
    /\ lock' = [lock EXCEPT ![th[t].ip] = NoThread]
    /\ Goto(t, "deref") /\ UNCHANGED <<disk, itab, dir, dlock, open>>

\* ip->valid = 0; releasesleep(&ip->lock)
IputDone(t) ==
    /\ th[t].pc = "invalid"
    /\ itab' = [itab EXCEPT ![th[t].ip].valid = FALSE]
    /\ lock' = [lock EXCEPT ![th[t].ip] = NoThread]
    /\ Goto(t, "deref") /\ UNCHANGED <<disk, dir, dlock, open>>

\* ip->ref--
IputDeref(t) ==
    /\ th[t].pc = "deref"
    /\ Deref(th[t].ip)
    /\ th' = [th EXCEPT ![t] = Idle] /\ UNCHANGED <<disk, lock, dir, dlock, open>>

(***************************************************************************)
(* The system calls.                                                       *)
(***************************************************************************)
Begin(t, op, n, s) == th' = [th EXCEPT ![t] = [pc |-> "ilock", op |-> op, name |-> n, ip |-> s]]

\* namex() finds name n: dirlookup() with the directory locked.  unlink() keeps
\* that lock, open() and link() have released it.
Lookup(t, op, n, s) ==
    /\ th[t].pc = "idle" /\ dlock = NoThread /\ dir[n] # Free
    /\ op = "open" => open[t] = NoSlot
    /\ iget(dir[n], s) /\ Begin(t, op, n, s)
    /\ dlock' = IF op = "unlink" THEN t ELSE NoThread
    /\ UNCHANGED <<disk, lock, dir, open>>

\* ialloc() takes the first free inode.
ialloc(i) == disk[i].type = 0 /\ \A j \in Inum : j < i => disk[j].type # 0

\* create() of a name that is not there.
Create(t, n, i, s) ==
    /\ th[t].pc = "idle" /\ dlock = NoThread /\ dir[n] = Free
    /\ ialloc(i) /\ disk' = [disk EXCEPT ![i] = [type |-> 1, nlink |-> 0]]
    /\ iget(i, s) /\ Begin(t, "create", n, s) /\ dlock' = t
    /\ UNCHANGED <<lock, dir, open>>

\* namex() starting at a directory the process keeps open: idup().
Idup(t) ==
    /\ th[t].pc = "idle" /\ open[t] # NoSlot
    /\ itab' = [itab EXCEPT ![open[t]].ref = @ + 1]
    /\ Begin(t, "stat", Idle.name, open[t])
    /\ UNCHANGED <<disk, lock, dir, dlock, open>>

Close(t) ==
    /\ th[t].pc = "idle" /\ open[t] # NoSlot
    /\ th' = [th EXCEPT ![t] = [Idle EXCEPT !.pc = "iput", !.op = "close", !.ip = open[t]]]
    /\ open' = [open EXCEPT ![t] = NoSlot]
    /\ UNCHANGED <<disk, itab, lock, dir, dlock>>

In(t, op) == th[t].pc = "body" /\ th[t].op = op
iunlock(t) == lock' = [lock EXCEPT ![th[t].ip] = NoThread]

OpenBody(t) ==
    /\ In(t, "open") /\ iunlock(t)
    /\ open' = [open EXCEPT ![t] = th[t].ip] /\ th' = [th EXCEPT ![t] = Idle]
    /\ UNCHANGED <<disk, itab, dir, dlock>>

StatBody(t) ==
    /\ In(t, "stat") /\ iunlock(t) /\ Goto(t, "iput")
    /\ UNCHANGED <<disk, itab, dir, dlock, open>>

\* The new inode gets its link and its name.
CreateBody(t) ==
    LET s == th[t].ip IN
    /\ In(t, "create") /\ Change(s, [itab[s] EXCEPT !.nlink = 1])
    /\ dir' = [dir EXCEPT ![th[t].name] = itab[s].inum] /\ dlock' = NoThread
    /\ iunlock(t) /\ Goto(t, "iput") /\ UNCHANGED open

\* unlink(): the entry is cleared and the directory unlocked.
UnlinkBody(t) ==
    /\ In(t, "unlink") /\ itab[th[t].ip].nlink >= 1    \* else panic
    /\ dir' = [dir EXCEPT ![th[t].name] = Free] /\ dlock' = NoThread
    /\ Goto(t, "unlinked") /\ UNCHANGED <<disk, itab, lock, open>>

\* ip->nlink--; iupdate(ip); iunlock(ip), in unlink() and in link()'s undo.
DropLink(t) ==
    LET s == th[t].ip IN
    /\ th[t].pc = "unlinked"
    /\ Change(s, [itab[s] EXCEPT !.nlink = @ - 1])
    /\ iunlock(t) /\ Goto(t, "iput") /\ UNCHANGED <<dir, dlock, open>>

LinkBody(t) ==
    LET s == th[t].ip IN
    /\ In(t, "link") /\ Change(s, [itab[s] EXCEPT !.nlink = @ + 1])
    /\ iunlock(t) /\ Goto(t, "dirlink") /\ UNCHANGED <<dir, dlock, open>>

\* dirlink() of the new name fails: goto bad.  (dirlink() gets and puts a
\* reference to the inode it found, which has a link and stays as it is.)
LinkExists(t, n) ==
    /\ th[t].pc = "dirlink" /\ dlock = NoThread /\ dir[n] # Free
    /\ Goto(t, "undo") /\ UNCHANGED <<disk, itab, lock, dir, dlock, open>>

LinkDone(t, n) ==
    /\ th[t].pc = "dirlink" /\ dlock = NoThread /\ dir[n] = Free
    /\ dir' = [dir EXCEPT ![n] = itab[th[t].ip].inum]
    /\ Goto(t, "iput") /\ UNCHANGED <<disk, itab, lock, dlock, open>>

LinkUndo(t) ==
    /\ th[t].pc = "undo" /\ lock[th[t].ip] = NoThread
    /\ lock' = [lock EXCEPT ![th[t].ip] = t] /\ Goto(t, "unlinked")
    /\ UNCHANGED <<disk, itab, dir, dlock, open>>

Next ==
    \E t \in Thread :
        \/ ilock(t) \/ iput(t) \/ IputFree(t) \/ IputDone(t) \/ IputDeref(t)
        \/ Idup(t) \/ Close(t) \/ OpenBody(t) \/ StatBody(t) \/ CreateBody(t)
        \/ UnlinkBody(t) \/ DropLink(t) \/ LinkBody(t) \/ LinkUndo(t)
        \/ \E n \in Name :
              \/ LinkExists(t, n) \/ LinkDone(t, n)
              \/ \E s \in Slot :
                    \/ \E op \in {"open", "unlink", "link"} : Lookup(t, op, n, s)
                    \/ \E i \in Inum : Create(t, n, i, s)

Spec == Init /\ [][Next]_vars

-----------------------------------------------------------------------------
\* iget() and iput() keep one entry per inode: two threads never work on two
\* copies, although iput() leaves itable.lock while it frees.
OneEntry == \A i \in Inum : Cardinality(Cached(i)) <= 1

Pointers(s) == Cardinality({t \in Thread : th[t].ip = s}) + Cardinality({t \in Thread : open[t] = s})

\* ip->ref "tracks the number of in-memory pointers to the entry": no entry is
\* reused while a thread still points to it, and none stays taken for ever.
RefCounts == \A s \in Slot : itab[s].ref = Pointers(s)

\* The copy of a valid entry that nobody has locked is what is on disk.
CopyIsDisk ==
    \A s \in Slot : (itab[s].ref > 0 /\ itab[s].valid /\ lock[s] = NoThread) =>
        disk[itab[s].inum] = [type |-> itab[s].type, nlink |-> itab[s].nlink]

\* panic("ilock: no type") is out of reach: a locked entry that is not being
\* freed, an open file and a name in the directory stand for allocated inodes.
Allocated ==
    /\ \A t \in Thread : th[t].pc \in {"body", "unlinked"} => itab[th[t].ip].type # 0
    /\ \A t \in Thread : open[t] # NoSlot => disk[itab[open[t]].inum].type # 0
    /\ \A n \in Name : dir[n] # Free => disk[dir[n]].type # 0

\* The comment in iput(): "ip->ref == 1 means no other process can have ip
\* locked, so this acquiresleep() won't block".
PutNeverBlocks ==
    \A t \in Thread : (th[t].pc = "iput" /\ LastPut(itab[th[t].ip])) => lock[th[t].ip] = NoThread

Waits(t, u) ==
    \/ th[t].pc \in {"ilock", "undo"} /\ lock[th[t].ip] = u
    \/ th[t].pc = "dirlink" /\ dlock = u

\* No two threads wait for each other's locks, whichever of the directory and
\* the inode each took first.
NoCircularWait == \A t, u \in Thread : ~(t # u /\ Waits(t, u) /\ Waits(u, t))

Names(i) == Cardinality({n \in Name : dir[n] = i})
\* Threads between the change of nlink and that of the directory.
Owed(i) == Cardinality({t \in Thread :
              th[t].ip # NoSlot /\ itab[th[t].ip].inum = i /\ th[t].pc \in {"dirlink", "undo", "unlinked"}})

\* nlink is the number of names plus the links that link(), its undo and
\* unlink() still owe: no step of one call undoes a step of another.
LinkCounts == \A i \in Inum : disk[i].type # 0 => disk[i].nlink = Names(i) + Owed(i)

\* iput(): "If that was the last reference and the inode has no links to it, free
\* the inode (and its content) on disk."  An inode without links is referenced.
NoOrphan == \A i \in Inum : (disk[i].type # 0 /\ disk[i].nlink = 0) => Cached(i) # {}
=============================================================================
