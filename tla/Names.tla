-------------------------------- MODULE Names --------------------------------
(* Directories and path names (fs.c namex, dirlookup, dirlink; sysfile.c      *)
(* create, link, unlink, mkdir, chdir).  Each step is what a thread does with *)
(* one inode locked; a reference keeps an inode between two steps, and the    *)
(* last reference to an inode without links frees it, as iput() does (Inode). *)
EXTENDS Integers, Sequences, FiniteSets

CONSTANTS
    Thread, NoThread,
    Inum, Root,       \* inode numbers; the root directory, the smallest of them
    Name,             \* names a directory can hold
    MaxLink,          \* bound on the links of a file (a short in the code)
    Path              \* path names: sequences over Name \cup {".."}

VARIABLES
    inode,    \* inode[i]: type, nlink and the directory's entries (0 is empty)
    lock,     \* lock[i]: thread that holds the inode's lock over several steps
    th,       \* th[t]: place, system call, ip, the directory dp, the rest of the path,
              \* the last name, and link()'s new path
    cwd       \* cwd[t]: current directory

vars == <<inode, lock, th, cwd>>

None == 0
FreeInode == [type |-> "free", nlink |-> 0, ents |-> [n \in Name \cup {".."} |-> None]]
NewFile == [FreeInode EXCEPT !.type = "file", !.nlink = 1]
NewDir(dp) == [FreeInode EXCEPT !.type = "dir", !.nlink = 1, !.ents[".."] = dp]
Idle == [pc |-> "idle", op |-> "none", ip |-> None, dp |-> None, path |-> <<>>, new |-> <<>>]
Op == {"create", "mkdir", "unlink", "link", "chdir"}

TypeOK ==
    /\ inode \in [Inum -> [type : {"free", "dir", "file"}, nlink : 0..MaxLink + 1,
                           ents : [Name \cup {".."} -> Inum \cup {None}]]]
    /\ lock \in [Inum -> Thread \cup {NoThread}]
    /\ cwd \in [Thread -> Inum]
    /\ \A t \in Thread : /\ th[t].pc \in {"idle", "namei", "nameiparent", "at", "unlink", "undo"}
                         /\ th[t].op \in Op \cup {"none"}
                         /\ th[t].ip \in Inum \cup {None} /\ th[t].dp \in Inum \cup {None}
                         /\ th[t].pc \in {"namei", "nameiparent"} => th[t].dp # None

Init ==
    /\ inode = [i \in Inum |-> IF i = Root THEN NewDir(Root) ELSE FreeInode]
    /\ lock = [i \in Inum |-> NoThread]
    /\ th = [t \in Thread |-> Idle]
    /\ cwd = [t \in Thread |-> Root]

(***************************************************************************)
(* References.  After a step, an inode that lost its last reference and has *)
(* no links is freed; its entries go with it.                               *)
(***************************************************************************)
Pointed(i, th2, cwd2) == \E t \in Thread : i \in {th2[t].ip, th2[t].dp, cwd2[t]}

iput(ino, th2, cwd2) ==
    [i \in Inum |-> IF ino[i].nlink = 0 /\ ~Pointed(i, th2, cwd2) THEN FreeInode ELSE ino[i]]

\* Thread t goes on as r; the inodes are ino before references are dropped.
Step(t, r, ino) ==
    /\ th' = [th EXCEPT ![t] = r]
    /\ inode' = iput(ino, th', cwd)
    /\ UNCHANGED cwd

\* ilock(i) can be taken; a free inode is a panic.
Lockable(i) == lock[i] = NoThread /\ inode[i].type # "free"

(***************************************************************************)
(* namex()                                                                 *)
(***************************************************************************)
Parent(op) == op \in {"create", "mkdir", "unlink"}

Start(t, op, from, path, new) ==
    /\ th[t].pc = "idle"
    /\ from \in {Root, cwd[t]}
    /\ th' = [th EXCEPT ![t] = [pc |-> IF Parent(op) THEN "nameiparent" ELSE "namei", op |-> op,
                                ip |-> None, dp |-> from, path |-> path, new |-> new]]
    /\ UNCHANGED <<inode, lock, cwd>>

\* A failed walk; link() has raised the count and takes it back.
Failed(t) == IF th[t].ip = None THEN Idle ELSE [th[t] EXCEPT !.pc = "undo", !.dp = None]

dirlookup_failed(next) == next = None

\* One turn of the loop: the walker holds a reference to dp and locks it.
Walk(t) ==
    LET r == th[t]
        d == inode[r.dp]
        next == d.ents[Head(r.path)]
    IN
    /\ r.pc \in {"namei", "nameiparent"} /\ r.path # <<>> /\ Lockable(r.dp)
    /\ IF d.type # "dir" THEN Step(t, Failed(t), inode)
       ELSE IF r.pc = "nameiparent" /\ Len(r.path) = 1 THEN Step(t, [r EXCEPT !.pc = "at"], inode)
       ELSE IF dirlookup_failed(next) THEN Step(t, Failed(t), inode)
       ELSE Step(t, [r EXCEPT !.dp = next, !.path = Tail(@)], inode)
    /\ UNCHANGED lock

\* namei() is done: dp is the inode itself.
Arrive(t) ==
    /\ th[t].pc = "namei" /\ th[t].path = <<>>
    /\ Step(t, [th[t] EXCEPT !.pc = "at", !.ip = th[t].dp, !.dp = None], inode)
    /\ UNCHANGED lock

(***************************************************************************)
(* The system calls, with the inode or the parent directory found.         *)
(***************************************************************************)
At(t, op) == th[t].pc = "at" /\ th[t].op = op
LastName(t) == Head(th[t].path)
Unused(i) == inode[i].type = "free" /\ \A j \in Inum : j < i => inode[j].type # "free"

\* The new inode i and its entry in dp.
Made(op, i, dp, n) ==
    [inode EXCEPT ![i] = IF op = "mkdir" THEN NewDir(dp) ELSE NewFile,
                  ![dp].ents[n] = i, ![dp].nlink = IF op = "mkdir" THEN @ + 1 ELSE @]

\* create(), for open(O_CREATE), mknod() and mkdir(), of a new name.  Without a
\* free inode it panics.
Create(t, op, i) ==
    LET dp == th[t].dp IN
    /\ At(t, op) /\ op \in {"create", "mkdir"} /\ Lockable(dp)
    /\ inode[dp].ents[LastName(t)] = None /\ Unused(i)
    /\ Step(t, Idle, Made(op, i, dp, LastName(t)))
    /\ UNCHANGED lock

\* create() of a name that is there changes nothing.
CreateFound(t, op) ==
    LET dp == th[t].dp IN
    /\ At(t, op) /\ op \in {"create", "mkdir"} /\ Lockable(dp)
    /\ inode[dp].ents[LastName(t)] # None
    /\ Step(t, Idle, inode)
    /\ UNCHANGED lock

Unlinkable(n) == n # ".."

\* unlink() locks dp and finds ip, or gives up.
UnlinkLookup(t) ==
    LET dp == th[t].dp
        ip == inode[dp].ents[LastName(t)]
    IN
    /\ At(t, "unlink") /\ Lockable(dp)
    /\ IF ~Unlinkable(LastName(t)) \/ ip = None
       THEN Step(t, Idle, inode) /\ UNCHANGED lock
       ELSE /\ Step(t, [th[t] EXCEPT !.pc = "unlink", !.ip = ip], inode)
            /\ lock' = [lock EXCEPT ![dp] = t]

isdirempty(d) == \A n \in Name : d.ents[n] = None

\* With dp locked, unlink() locks ip, clears the entry and drops the links.
Unlink(t) ==
    LET dp == th[t].dp
        ip == th[t].ip
        isdir == inode[ip].type = "dir"
    IN
    /\ th[t].pc = "unlink" /\ Lockable(ip) /\ inode[ip].nlink >= 1
    /\ Step(t, Idle,
            IF isdir /\ ~isdirempty(inode[ip]) THEN inode
            ELSE [inode EXCEPT ![dp].ents[LastName(t)] = None, ![ip].nlink = @ - 1,
                               ![dp].nlink = IF isdir THEN @ - 1 ELSE @])
    /\ lock' = [lock EXCEPT ![dp] = NoThread]

chdir(t) ==
    LET ip == th[t].ip IN
    /\ At(t, "chdir") /\ Lockable(ip)
    /\ th' = [th EXCEPT ![t] = Idle]
    /\ cwd' = [cwd EXCEPT ![t] = IF inode[ip].type = "dir" THEN ip ELSE @]
    /\ inode' = iput(inode, th', cwd')
    /\ UNCHANGED lock

\* Directories may get a second name (mutant of Linkable).
Linkable_any(ip) == TRUE

Linkable(ip) == inode[ip].type # "dir"

\* link() of the file ip: the count goes up before the new path is walked.
Link(t, from) ==
    LET ip == th[t].ip IN
    /\ At(t, "link") /\ th[t].dp = None /\ Lockable(ip) /\ from \in {Root, cwd[t]}
    /\ IF ~Linkable(ip) THEN Step(t, Idle, inode)
       ELSE /\ inode[ip].nlink < MaxLink
            /\ Step(t, [th[t] EXCEPT !.pc = "nameiparent", !.dp = from, !.path = th[t].new, !.new = <<>>],
                    [inode EXCEPT ![ip].nlink = @ + 1])
    /\ UNCHANGED lock

LinkNew(t) ==
    LET dp == th[t].dp IN
    /\ At(t, "link") /\ dp # None /\ Lockable(dp)
    /\ IF inode[dp].ents[LastName(t)] # None THEN Step(t, Failed(t), inode)
       ELSE Step(t, Idle, [inode EXCEPT ![dp].ents[LastName(t)] = th[t].ip])
    /\ UNCHANGED lock

LinkUndo(t) ==
    /\ th[t].pc = "undo" /\ Lockable(th[t].ip)
    /\ Step(t, Idle, [inode EXCEPT ![th[t].ip].nlink = @ - 1])
    /\ UNCHANGED lock

Next ==
    \E t \in Thread :
        \/ \E op \in Op, from \in Inum, path \in Path :
              \E new \in (IF op = "link" THEN Path ELSE {<<>>}) : Start(t, op, from, path, new)
        \/ Walk(t) \/ Arrive(t) \/ UnlinkLookup(t) \/ Unlink(t) \/ chdir(t)
        \/ LinkNew(t) \/ LinkUndo(t)
        \/ \E op \in Op : CreateFound(t, op) \/ \E i \in Inum : Create(t, op, i)
        \/ \E from \in Inum : Link(t, from)

Spec == Init /\ [][Next]_vars

-----------------------------------------------------------------------------
Children(d) == IF inode[d].type = "dir" THEN {inode[d].ents[n] : n \in Name} \ {None} ELSE {}

RECURSIVE Below(_, _)
Below(S, k) == IF k = 0 THEN S ELSE Below(S \cup UNION {Children(d) : d \in S}, k - 1)

\* Everything that has a path from the root.
Tree == Below({Root}, Cardinality(Inum))

\* The entries by which inode i is named in directories of D.
NamesOf(i, D) == {<<d, n>> \in D \X Name : inode[d].type = "dir" /\ inode[d].ents[n] = i}

\* The directories that have a path form a tree: each is named once, by the
\* directory its ".." says, and the root is named nowhere, whatever the order
\* of concurrent mkdir(), link() and unlink() calls on the way.
TreeShape ==
    /\ NamesOf(Root, Tree) = {}
    /\ \A i \in Tree \ {Root} : inode[i].type = "dir" =>
          \E n \in Name : NamesOf(i, Tree) = {<<inode[i].ents[".."], n>>}

\* Every path leads to an allocated inode, and no count in the tree is too low
\* for the names it stands for, so that no file is freed while it has a name
\* and unlink() never finds a count below 1, which would be its panic.
NoDanglingName ==
    /\ \A t \in Thread : th[t].pc = "unlink" => inode[th[t].ip].nlink >= 1
    /\ \A i \in Tree : /\ inode[i].type # "free"
                       /\ inode[i].type = "file" => inode[i].nlink >= Cardinality(NamesOf(i, Tree))
                       /\ inode[i].type = "dir" =>
                            inode[i].nlink > Cardinality({j \in Children(i) : inode[j].type = "dir"})

\* Only an empty directory is removed: one step takes at most one inode out of
\* the tree, never a directory with what is below it.
LeaveStep == Cardinality(Tree \ Tree') <= 1
OneLeaves == [][LeaveStep]_vars

\* Two unlink() calls, which lock a directory and then what it names, never
\* wait for each other.
NoCircularWait ==
    \A t, u \in Thread :
        ~(t # u /\ th[t].pc = "unlink" /\ th[u].pc = "unlink"
            /\ lock[th[t].ip] = u /\ lock[th[u].ip] = t)

\* ilock() asserts that the inode it locks is allocated: panic("ilock: no type").
LockHasType ==
    \A t \in Thread : th[t].pc \in {"namei", "nameiparent"} => inode[th[t].dp].type # "free"

\* nlink: "Number of links to inode in file system".  With no call under way,
\* a file's count is the number of its names.
NlinkExact ==
    (\A t \in Thread : th[t].pc = "idle") =>
        \A i \in Inum : inode[i].type = "file" => inode[i].nlink = Cardinality(NamesOf(i, Inum))
=============================================================================
