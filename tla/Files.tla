-------------------------------- MODULE Files --------------------------------
(* Open files: the table ftable (file.c), the descriptors of the processes,   *)
(* and open, pipe, dup, close, fork and exit, which share them.  What is done *)
(* under ftable.lock, or by a process with its own descriptors only, is one   *)
(* step.  A call that fails gives back what it had taken, one file at a time. *)
EXTENDS Integers, Sequences, FiniteSets, FiniteSetsExt

CONSTANTS
    Proc, initproc,   \* slots of the process table; the first process
    NFILE, NOFILE,    \* entries of ftable, descriptors of a process
    Inode, Page       \* what can be opened; the pages kalloc() has for pipes

VARIABLES
    ftable,   \* ftable[f]: ref, type, the inode or pipe, writable
    ofile,    \* ofile[p][fd]: an entry of ftable, or None
    iref,     \* iref[i]: references to an inode that files and open() hold
    pipe,     \* pipe[g]: the open ends, "r" and "w"; without one the page is free
    k         \* k[p]: the process in the kernel

vars == <<ftable, ofile, iref, pipe, k>>

File == 1..NFILE
Fd == 0..NOFILE - 1
None == 0
NoFd == [fd \in Fd |-> None]
FD_NONE == [ref |-> 0, type |-> "none", obj |-> None, w |-> FALSE]

\* In user space, with nothing in hand: an inode ip, new files f and g, the files
\* todo that are still to be closed, fd the descriptor exit() is at, ff the struct
\* file that fileclose() has cleared, before the descriptors when pipe() began.
User == [pc |-> "user", ip |-> None, f |-> None, g |-> None, fd |-> None,
         todo |-> <<>>, ff |-> FD_NONE, before |-> NoFd]
Unborn == [User EXCEPT !.pc = "unused"]

TypeOK ==
    /\ ftable \in [File -> [ref : 0..NOFILE * Cardinality(Proc) + 2, type : {"none", "inode", "pipe"},
                            obj : Inode \cup Page \cup {None}, w : BOOLEAN]]
    /\ ofile \in [Proc -> [Fd -> File \cup {None}]]
    /\ iref \in [Inode -> Nat]
    /\ pipe \in [Page -> SUBSET {"r", "w"}]
    /\ \A p \in Proc : k[p].pc \in {"user", "unused", "open", "openfd", "pipe", "pipepage", "pipefd",
                                    "pipecopy", "close", "drop", "exit", "exitdrop"}

Init ==
    /\ ftable = [f \in File |-> FD_NONE]
    /\ ofile = [p \in Proc |-> NoFd]
    /\ iref = [i \in Inode |-> 0]
    /\ pipe = [g \in Page |-> {}]
    /\ k = [p \in Proc |-> IF p = initproc THEN User ELSE Unborn]

Goto(p, r) == k' = [k EXCEPT ![p] = r]

(***************************************************************************)
(* filealloc(), fdalloc(), filedup() and fileclose()                       *)
(***************************************************************************)
Unused == {f \in File : ftable[f].ref = 0}
filealloc(f) == Unused # {} /\ f = Min(Unused) /\ ftable' = [ftable EXCEPT ![f].ref = 1]

FreeFds(p) == {fd \in Fd : ofile[p][fd] = None}
fdalloc(p) == Min(FreeFds(p))

filedup(f, n) == [ftable[f] EXCEPT !.ref = @ + n]

Cleared(f) == FD_NONE

\* fileclose() under the lock: with the last reference the entry is cleared.
fileclose(f) ==
    ftable' = [ftable EXCEPT ![f] = IF @.ref > 1 THEN [@ EXCEPT !.ref = @ - 1] ELSE Cleared(f)]

\* What is left for fileclose() to do after it.
Left(f) == IF ftable[f].ref > 1 THEN FD_NONE ELSE ftable[f]

iput(ff) == [iref EXCEPT ![ff.obj] = @ - 1]

pipeclose(ff) == [pipe EXCEPT ![ff.obj] = @ \ {IF ff.w THEN "w" ELSE "r"}]

\* The second half of fileclose(), outside the lock.
Release(ff) ==
    /\ iref' = IF ff.type = "inode" THEN iput(ff) ELSE iref
    /\ pipe' = IF ff.type = "pipe" THEN pipeclose(ff) ELSE pipe

(***************************************************************************)
(* The system calls                                                        *)
(***************************************************************************)
\* open() has found and locked the inode i.
Open(p, i) ==
    /\ k[p].pc = "user"
    /\ iref' = [iref EXCEPT ![i] = @ + 1]
    /\ Goto(p, [User EXCEPT !.pc = "open", !.ip = i])
    /\ UNCHANGED <<ftable, ofile, pipe>>

OpenAlloc(p) ==
    /\ k[p].pc = "open"
    /\ \/ /\ \E f \in File : filealloc(f) /\ Goto(p, [k[p] EXCEPT !.pc = "openfd", !.f = f])
          /\ UNCHANGED iref
       \/ /\ Unused = {} /\ UNCHANGED ftable
          /\ iref' = [iref EXCEPT ![k[p].ip] = @ - 1] /\ Goto(p, User)
    /\ UNCHANGED <<ofile, pipe>>

OpenFd(p) ==
    LET f == k[p].f IN
    /\ k[p].pc = "openfd"
    /\ IF FreeFds(p) # {}
       THEN /\ ofile' = [ofile EXCEPT ![p][fdalloc(p)] = f]
            /\ ftable' = [ftable EXCEPT ![f] = [ref |-> @.ref, type |-> "inode", obj |-> k[p].ip, w |-> FALSE]]
            /\ Goto(p, User) /\ UNCHANGED iref
       ELSE /\ fileclose(f)
            /\ Goto(p, [User EXCEPT !.pc = "drop", !.ff = Left(f), !.before = ofile[p]])
            /\ iref' = [iref EXCEPT ![k[p].ip] = @ - 1] /\ UNCHANGED ofile
    /\ UNCHANGED pipe

\* A failing pipe() closes the files fs.
Undo(p, fs) == [User EXCEPT !.pc = "close", !.todo = fs, !.before = k[p].before]

\* pipe(): the two files of pipealloc(), one after the other.
Pipe(p) ==
    LET r == k[p]
        first == r.pc = "user"
    IN
    /\ r.pc \in {"user", "pipe"}
    /\ \/ \E f \in File :
             /\ filealloc(f)
             /\ Goto(p, IF first THEN [User EXCEPT !.pc = "pipe", !.f = f, !.before = ofile[p]]
                        ELSE [r EXCEPT !.pc = "pipepage", !.g = f])
       \/ /\ Unused = {} /\ ~first
          /\ Goto(p, Undo(p, <<r.f>>))
          /\ UNCHANGED ftable
    /\ UNCHANGED <<ofile, iref, pipe>>

\* kalloc() and the setting up of the pipe.
PipePage(p) ==
    LET r == k[p] IN
    /\ r.pc = "pipepage"
    /\ \/ \E g \in Page :
             /\ pipe[g] = {}
             /\ pipe' = [pipe EXCEPT ![g] = {"r", "w"}]
             /\ ftable' = [ftable EXCEPT ![r.f] = [ref |-> @.ref, type |-> "pipe", obj |-> g, w |-> FALSE],
                                         ![r.g] = [ref |-> @.ref, type |-> "pipe", obj |-> g, w |-> TRUE]]
             /\ Goto(p, [r EXCEPT !.pc = "pipefd"])
       \/ /\ Goto(p, Undo(p, <<r.f, r.g>>))
          /\ UNCHANGED <<pipe, ftable>>
    /\ UNCHANGED <<ofile, iref>>

\* The descriptors after the two calls of fdalloc(), with the first undone when
\* the second fails.
PipeFds(p, f, g) ==
    LET fd0 == fdalloc(p) IN
    IF Cardinality(FreeFds(p)) < 2 THEN ofile[p]
    ELSE [ofile[p] EXCEPT ![fd0] = f, ![Min(FreeFds(p) \ {fd0})] = g]

PipeFd(p) ==
    LET r == k[p]
        fds == PipeFds(p, r.f, r.g)
    IN
    /\ r.pc = "pipefd"
    /\ ofile' = [ofile EXCEPT ![p] = fds]
    /\ Goto(p, IF Cardinality(FreeFds(p)) >= 2
               THEN [r EXCEPT !.pc = "pipecopy", !.f = None, !.g = None]
               ELSE Undo(p, <<r.f, r.g>>))
    /\ UNCHANGED <<ftable, iref, pipe>>

\* copyout() of the two numbers, which fails on a bad address.
PipeCopy(p) ==
    LET new == {fd \in Fd : ofile[p][fd] # k[p].before[fd]} IN
    /\ k[p].pc = "pipecopy"
    /\ \/ Goto(p, User) /\ UNCHANGED ofile
       \/ /\ ofile' = [ofile EXCEPT ![p] = [fd \in Fd |-> IF fd \in new THEN None ELSE @[fd]]]
          /\ Goto(p, Undo(p, <<ofile[p][Min(new)], ofile[p][Max(new)]>>))
    /\ UNCHANGED <<ftable, iref, pipe>>

\* The next fileclose() of a call, and its second half.
Close(p) ==
    LET r == k[p] IN
    /\ r.pc = "close"
    /\ fileclose(Head(r.todo))
    /\ Goto(p, [r EXCEPT !.pc = "drop", !.todo = Tail(@), !.ff = Left(Head(r.todo))])
    /\ UNCHANGED <<ofile, iref, pipe>>

Drop(p) ==
    /\ k[p].pc = "drop"
    /\ Release(k[p].ff)
    /\ Goto(p, IF k[p].todo = <<>> THEN User ELSE [k[p] EXCEPT !.pc = "close", !.ff = FD_NONE])
    /\ UNCHANGED <<ftable, ofile>>

CloseFd(p, fd) ==
    /\ k[p].pc = "user" /\ ofile[p][fd] # None
    /\ ofile' = [ofile EXCEPT ![p][fd] = None]
    /\ Goto(p, [User EXCEPT !.pc = "close", !.todo = <<ofile[p][fd]>>, !.before = ofile'[p]])
    /\ UNCHANGED <<ftable, iref, pipe>>

\* dup() takes its reference after it has filled the descriptor; the one it was
\* given keeps the file meanwhile, and the two are one step.
Dup(p, fd) ==
    LET f == ofile[p][fd] IN
    /\ k[p].pc = "user" /\ f # None /\ FreeFds(p) # {}
    /\ ofile' = [ofile EXCEPT ![p][fdalloc(p)] = f]
    /\ ftable' = [ftable EXCEPT ![f] = filedup(f, 1)]
    /\ UNCHANGED <<iref, pipe, k>>

\* How often p has f open.
Times(p, f) == Cardinality({fd \in Fd : ofile[p][fd] = f})

\* The child's descriptors are copied without filedup() (mutant of Fork).
ForkNoDup(p, q) ==
    /\ k[p].pc = "user" /\ k[q].pc = "unused"
    /\ ofile' = [ofile EXCEPT ![q] = ofile[p]]
    /\ Goto(q, User)
    /\ UNCHANGED <<ftable, iref, pipe>>

\* fork() makes the child q, whose descriptors are p's; the parent's own keep
\* every file during the loop.
Fork(p, q) ==
    /\ k[p].pc = "user" /\ k[q].pc = "unused"
    /\ ofile' = [ofile EXCEPT ![q] = ofile[p]]
    /\ ftable' = [f \in File |-> filedup(f, Times(p, f))]
    /\ Goto(q, User)
    /\ UNCHANGED <<iref, pipe>>

\* exit() closes what is open, lowest descriptor first; the descriptor is
\* cleared after its fileclose().
Exit(p) ==
    LET open == Fd \ FreeFds(p)
        fd == Min(open)
    IN
    /\ p # initproc /\ k[p].pc \in {"user", "exit"}
    /\ IF open = {} THEN Goto(p, Unborn) /\ UNCHANGED ftable
       ELSE /\ fileclose(ofile[p][fd])
            /\ Goto(p, [User EXCEPT !.pc = "exitdrop", !.fd = fd, !.ff = Left(ofile[p][fd])])
    /\ UNCHANGED <<ofile, iref, pipe>>

ExitDrop(p) ==
    /\ k[p].pc = "exitdrop"
    /\ Release(k[p].ff)
    /\ ofile' = [ofile EXCEPT ![p][k[p].fd] = None]
    /\ Goto(p, [User EXCEPT !.pc = "exit"])
    /\ UNCHANGED ftable

Next ==
    \E p \in Proc :
        \/ \E i \in Inode : Open(p, i)
        \/ OpenAlloc(p) \/ OpenFd(p) \/ Pipe(p) \/ PipePage(p) \/ PipeFd(p) \/ PipeCopy(p)
        \/ Close(p) \/ Drop(p) \/ Exit(p) \/ ExitDrop(p)
        \/ \E fd \in Fd : CloseFd(p, fd) \/ Dup(p, fd)
        \/ \E q \in Proc : Fork(p, q)

Spec == Init /\ [][Next]_vars

-----------------------------------------------------------------------------
\* References that calls under way hold to f.
InHand(p, f) ==
    LET r == k[p] IN
    Cardinality({j \in DOMAIN r.todo : r.todo[j] = f}) + (IF f \in {r.f, r.g} THEN 1 ELSE 0)
        - (IF r.pc = "exitdrop" /\ ofile[p][r.fd] = f THEN 1 ELSE 0)

\* A file's count is the number of descriptors of all processes that name it,
\* plus what calls under way hold: no entry leaks when open() or pipe() fails,
\* and none is reused while a descriptor still names it (filedup() and
\* fileclose() would panic).
RefExact == \A f \in File : ftable[f].ref = MapThenSumSet(LAMBDA p : Times(p, f) + InHand(p, f), Proc)

\* The struct files of an object: entries in use, and closed ones not yet released.
OpenOf(o, w) ==
    Cardinality({f \in File : ftable[f].ref > 0 /\ ftable[f].obj = o /\ ftable[f].w = w})
    + Cardinality({p \in Proc : k[p].ff.obj = o /\ k[p].ff.w = w})

\* An inode is referenced once by each open file and by each open() under way,
\* so that iput() is called exactly once for each.
InodeRefs ==
    \A i \in Inode : iref[i] = OpenOf(i, FALSE) + Cardinality({p \in Proc : k[p].ip = i})

\* A pipe's page is in use exactly while one of its ends is: each end that is
\* open belongs to one struct file, and a page is freed when both are gone,
\* not earlier and not twice.
PipeEnds ==
    \A g \in Page : /\ OpenOf(g, FALSE) = IF "r" \in pipe[g] THEN 1 ELSE 0
                    /\ OpenOf(g, TRUE) = IF "w" \in pipe[g] THEN 1 ELSE 0

\* A pipe() or open() that fails leaves the descriptors as it found them.
FailureUndone == \A p \in Proc : k[p].pc \in {"close", "drop"} => ofile[p] = k[p].before
=============================================================================
