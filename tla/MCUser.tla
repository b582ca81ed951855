------------------------------- MODULE MCUser --------------------------------
(* User programs, one component in each behaviour: the parser of the shell    *)
(* with every line of up to five characters, the shell and init with two      *)
(* lines and one fork that may fail, and grep with every pattern and text of  *)
(* up to four characters in a buffer of four; and malloc() and free() in a    *)
(* heap of eight units.  Below them, the pages of two processes, too few for  *)
(* both to grow.                                                              *)
EXTENDS Integers

CONSTANTS
    Component   \* the components to check

VARIABLES
    component,
    buf, cmd, parsePc, line,
    pr, init, fails, broken,
    re, text, pos, grepBuf, out, done,
    hdr, freep, brk, pc, p, prevp, nunits, bp, live, own,
    free, trapframe, pt, sz, k

Prog(n) == [type |-> "EXEC", name |-> n]
Redir(c, f, d) == [type |-> "REDIR", cmd |-> c, file |-> f, fd |-> d]
Pipe(n, l, r) == [type |-> "PIPE", id |-> n, left |-> l, right |-> r]
List(l, r) == [type |-> "LIST", left |-> l, right |-> r]
Back(c) == [type |-> "BACK", cmd |-> c]

\* a < h | b | c        (d & ; e > f) | g
Lines == <<
    Pipe(1, Redir(Prog("a"), "h", 0), Pipe(2, Prog("b"), Prog("c"))),
    Pipe(3, List(Back(Prog("d")), Redir(Prog("e"), "f", 1)), Prog("g"))>>

Parse == INSTANCE ShParse WITH
    MAXARGS <- 3, MaxLine <- 5, pc <- parsePc
Shell == INSTANCE ShRun WITH
    Slot <- 1..5, Line <- Lines, MaxFd <- 5, MaxFail <- 1
Grep == INSTANCE Grep WITH
    MaxRe <- 4, MaxText <- 4, BUF <- 4, buf <- grepBuf
Malloc == INSTANCE Malloc WITH
    MaxHeap <- 8, MinCore <- 3, Units <- {2, 3, 4}
Vm == INSTANCE Vm WITH
    Proc <- {1, 2}, initproc <- 1, Page <- 1..11, PGSIZE <- 2, LEVELS <- 2, PTES <- 3,
    UINT <- 64, Grow <- {3, -3, -7}, MaxSz <- 12, Segment <- {3}

parseVars ==
    <<buf, cmd, parsePc, line>>
shellVars ==
    <<pr, init, fails, broken>>
grepVars ==
    <<re, text, pos, grepBuf, out, done>>
mallocVars ==
    <<hdr, freep, brk, pc, p, prevp, nunits, bp, live, own>>
vmVars ==
    <<free, trapframe, pt, sz, k>>
vars == <<component, parseVars, shellVars, grepVars, mallocVars, vmVars>>

\* The variables of the components that a behaviour is not about.
NoParse ==
    /\ buf = 0 /\ cmd = 0 /\ parsePc = 0 /\ line = 0
NoShell ==
    /\ pr = 0 /\ init = 0 /\ fails = 0 /\ broken = 0
NoGrep ==
    /\ re = 0 /\ text = 0 /\ pos = 0 /\ grepBuf = 0 /\ out = 0 /\ done = 0
NoMalloc ==
    /\ hdr = 0 /\ freep = 0 /\ brk = 0 /\ pc = 0 /\ p = 0 /\ prevp = 0 /\ nunits = 0 /\ bp = 0
    /\ live = 0 /\ own = 0
NoVm ==
    /\ free = 0 /\ trapframe = 0 /\ pt = 0 /\ sz = 0 /\ k = 0

Init ==
    /\ component \in Component
    /\ \/ component = "parse" /\ Parse!Init /\ NoShell /\ NoGrep /\ NoMalloc /\ NoVm
       \/ component = "shell" /\ Shell!Init /\ NoParse /\ NoGrep /\ NoMalloc /\ NoVm
       \/ component = "grep" /\ Grep!Init /\ NoParse /\ NoShell /\ NoMalloc /\ NoVm
       \/ component = "malloc" /\ Malloc!Init /\ NoParse /\ NoShell /\ NoGrep /\ NoVm
       \/ component = "vm" /\ Vm!Init /\ NoParse /\ NoShell /\ NoGrep /\ NoMalloc

Next ==
    \/ component = "parse" /\ Parse!Next /\ UNCHANGED <<component, shellVars, grepVars, mallocVars, vmVars>>
    \/ component = "shell" /\ Shell!Next /\ UNCHANGED <<component, parseVars, grepVars, mallocVars, vmVars>>
    \/ component = "grep" /\ Grep!Next /\ UNCHANGED <<component, parseVars, shellVars, mallocVars, vmVars>>
    \/ component = "malloc" /\ Malloc!Next /\ UNCHANGED <<component, parseVars, shellVars, grepVars, vmVars>>
    \/ component = "vm" /\ Vm!Next /\ UNCHANGED <<component, parseVars, shellVars, grepVars, mallocVars>>
    \/ component \in {"parse", "shell", "grep"} /\ UNCHANGED vars   \* may stop

Spec == Init /\ [][Next]_vars

-----------------------------------------------------------------------------
\* parsecmd() builds the tree the shell's grammar gives the line, argv has room for its
\* final 0, and nulterminate() ends every word without touching another.
LineParsed ==
    component = "parse" =>
        Parse!TypeOK /\ Parse!ArgvFits /\ Parse!WordsTerminated /\ Parse!ParsesGrammar

\* Each program of a line starts with the descriptors its place in the line gives it and
\* no other open, and the prompt returns only when no foreground program is left.
LineRuns == component = "shell" => Shell!TypeOK /\ Shell!Wiring /\ Shell!Foreground

\* grep() prints the matching lines in their order, once each, wherever read() cuts the
\* text; and all of them when every line fits in its buffer.
GrepPrints == component = "grep" => Grep!TypeOK /\ Grep!PrintsPrefix /\ Grep!PrintsMatches

\* The blocks of malloc() and the free list divide the heap, neighbours that are free are
\* one block, and the heap grows only when no free block fits.
HeapDivided ==
    /\ [](component = "malloc" => Malloc!TypeOK /\ Malloc!Partition /\ Malloc!Coalesced)
    /\ [][component = "malloc" => Malloc!GrowStep]_vars

\* Every page is free or has one owner, and a process has exactly the pages of its size,
\* whatever allocation fails in the middle of fork(), exec() or sbrk().
PagesOwned == component = "vm" => Vm!TypeOK /\ Vm!PagesOwned /\ Vm!Mapped
=============================================================================
