-------------------------------- MODULE ShRun --------------------------------
(* How the shell runs a parsed line (sh.c: runcmd, main) and how init keeps a  *)
(* shell running (init.c).  One step is one system call that other processes   *)
(* can notice; a child's close, dup, close, close after a fork is one step.    *)
(* The calls follow the kernel's code: fork takes the first free slot, exit    *)
(* gives children to init, wait returns any child that has ended, open and dup *)
(* take the lowest free descriptor.  Any fork, open, pipe or exec may fail.    *)
EXTENDS Integers, Sequences, FiniteSets

CONSTANTS
    Slot,           \* the process table without init: 1..N
    Line,           \* the lines that are typed, parsed
    MaxFd,          \* bound: descriptors of a process
    MaxFail         \* bound: forks that fail although there is a slot, for one shell

VARIABLES
    pr,             \* pr[s]: pc, cmd, fd, parent, the line ln it belongs to, bg (after &)
    init,           \* init's place and the pid of its shell
    fails, broken   \* forks failed so far; the lines they belonged to

vars == <<pr, init, fails, broken>>

Init0 == 0          \* init's pid
None == "none"
Std == [d \in 0..MaxFd |-> IF d <= 2 THEN <<"console", 0>> ELSE <<None, 0>>]
Closed == [d \in 0..MaxFd |-> <<None, 0>>]
NoCmd == [type |-> None]
FreeSlot == [pc |-> "free", cmd |-> NoCmd, fd |-> Closed, parent |-> Init0, bg |-> FALSE, ln |-> 0]
Pcs == {"free", "prompt", "shwait", "run", "listwait", "left", "right", "fork1", "fork2",
        "close", "wait2", "wait1", "exit", "exec", "zombie"}

TypeOK ==
    /\ \A s \in Slot :
          /\ pr[s].ln \in 0..Len(Line)
          /\ pr[s].pc \in Pcs /\ pr[s].bg \in BOOLEAN
          /\ pr[s].parent \in Slot \cup {Init0}
          /\ pr[s].pc \in {"free", "zombie"} <=> pr[s].fd = Closed
    /\ init.pc \in {"start", "wait", "exited"} /\ init.pid \in Slot \cup {Init0}
    /\ fails \in 0..MaxFail /\ broken \subseteq 0..Len(Line)

Init ==
    /\ pr = [s \in Slot |-> FreeSlot]
    /\ init = [pc |-> "start", pid |-> Init0]
    /\ fails = 0 /\ broken = {}

(***************************************************************************)
(* The kernel's calls, as the shell uses them                              *)
(***************************************************************************)
Free == {s \in Slot : pr[s].pc = "free"}
NewSlot == CHOOSE s \in Free : \A t \in Free : s <= t
Child(p) == {s \in Slot : pr[s].parent = p /\ pr[s].pc # "free"}
Ended(p) == {s \in Child(p) : pr[s].pc = "zombie"}

Lowest(fd) == CHOOSE d \in 0..MaxFd : fd[d] = <<None, 0>> /\ \A e \in 0..d - 1 : fd[e] # <<None, 0>>
close(fd, ds) == [d \in 0..MaxFd |-> IF d \in ds THEN <<None, 0>> ELSE fd[d]]
open(fd, obj) == [fd EXCEPT ![Lowest(fd)] = obj]

exit(p) ==
    pr' = [s \in Slot |->
              IF s = p THEN [FreeSlot EXCEPT !.pc = "zombie", !.parent = pr[p].parent]
              ELSE IF pr[s].parent = p THEN [pr[s] EXCEPT !.parent = Init0] ELSE pr[s]]

\* p goes on at pc, and its child is a copy of it that begins at cpc with cmd.
fork(p, pc, cpc, cmd, bg) ==
    /\ Free # {}
    /\ pr' = [pr EXCEPT ![p].pc = pc,
                        ![NewSlot] = [pr[p] EXCEPT !.pc = cpc, !.cmd = cmd, !.parent = p, !.bg = @ \/ bg]]
    /\ UNCHANGED <<init, fails, broken>>

\* fork1() fails: the process exits, its left child of a pipe included in the loss.
Fails(p) ==
    /\ IF Free = {} THEN UNCHANGED fails ELSE fails < MaxFail /\ fails' = fails + 1
    /\ exit(p)
    /\ broken' = broken \cup {pr[p].ln}
    /\ UNCHANGED init

\* wait(0): any ended child, or none is left.
wait(p, pc, cmd) ==
    /\ Child(p) = {} \/ Ended(p) # {}
    /\ \E z \in IF Ended(p) = {} THEN {p} ELSE Ended(p) :
          pr' = [s \in Slot |-> IF s = p THEN [pr[p] EXCEPT !.pc = pc, !.cmd = cmd]
                                ELSE IF s = z THEN FreeSlot ELSE pr[s]]
    /\ UNCHANGED <<init, fails, broken>>

Set(p, rec) == pr' = [pr EXCEPT ![p] = rec] /\ UNCHANGED <<init, fails, broken>>
Exits(p) == exit(p) /\ UNCHANGED <<init, fails, broken>>

(***************************************************************************)
(* runcmd()                                                                *)
(***************************************************************************)
At(p, pc, type) == pr[p].pc = pc /\ pr[p].cmd.type = type

\* The name is empty, exec() fails, or the program begins.
RunExec(p) ==
    /\ At(p, "run", "EXEC")
    /\ IF pr[p].cmd.name = None THEN Exits(p)
       ELSE Exits(p) \/ Set(p, [pr[p] EXCEPT !.pc = "exec"])

RunRedir(p) ==
    LET c == pr[p].cmd IN
    /\ At(p, "run", "REDIR")
    /\ \/ Exits(p)
       \/ Set(p, [pr[p] EXCEPT !.fd = open(close(@, {c.fd}), <<c.file, 0>>), !.cmd = c.cmd])

RunList(p) ==
    /\ At(p, "run", "LIST")
    /\ fork(p, "listwait", "run", pr[p].cmd.left, FALSE) \/ Fails(p)

ListWait(p) == pr[p].pc = "listwait" /\ wait(p, "run", pr[p].cmd.right)

\* pipe(p): it fails and the process panics, or the two lowest descriptors.
RunPipe(p) ==
    LET c == pr[p].cmd IN
    /\ At(p, "run", "PIPE")
    /\ \/ Exits(p)
       \/ Set(p, [pr[p] EXCEPT !.pc = "fork1", !.fd = open(open(@, <<"r", c.id>>), <<"w", c.id>>)])

Ends(p) == {d \in 3..MaxFd : pr[p].fd[d][1] \in {"r", "w"} /\ pr[p].fd[d][2] = pr[p].cmd.id}

PipeLeft(p) == pr[p].pc = "fork1" /\ (fork(p, "fork2", "left", pr[p].cmd, FALSE) \/ Fails(p))
PipeRight(p) == pr[p].pc = "fork2" /\ (fork(p, "close", "right", pr[p].cmd, FALSE) \/ Fails(p))

\* The child's close, dup, close, close.
Plug(p, d, end) == close(open(close(pr[p].fd, {d}), <<end, pr[p].cmd.id>>), Ends(p))

ChildLeft(p) ==
    /\ pr[p].pc = "left"
    /\ Set(p, [pr[p] EXCEPT !.pc = "run", !.cmd = @.left, !.fd = Plug(p, 1, "w")])

ChildRight(p) ==
    /\ pr[p].pc = "right"
    /\ Set(p, [pr[p] EXCEPT !.pc = "run", !.cmd = @.right, !.fd = Plug(p, 0, "r")])

\* The ends stay open in the parent (mutant of PipeClose).
PipeCloseNot(p) == pr[p].pc = "close" /\ Set(p, [pr[p] EXCEPT !.pc = "wait2"])

PipeClose(p) == pr[p].pc = "close" /\ Set(p, [pr[p] EXCEPT !.pc = "wait2", !.fd = close(@, Ends(p))])

\* One wait for two children (mutant of PipeWait).
PipeWaitOnce(p) == pr[p].pc = "wait2" /\ wait(p, "exit", NoCmd)

PipeWait(p) ==
    \/ pr[p].pc = "wait2" /\ wait(p, "wait1", NoCmd)
    \/ pr[p].pc = "wait1" /\ wait(p, "exit", NoCmd)

\* The child runs on alone: the parent does not wait for it.
RunBack(p) ==
    /\ At(p, "run", "BACK")
    /\ fork(p, "exit", "run", pr[p].cmd.cmd, TRUE) \/ Fails(p)

Exit0(p) == pr[p].pc = "exit" /\ Exits(p)

runcmd(p) ==
    \/ RunExec(p) \/ RunRedir(p) \/ RunList(p) \/ ListWait(p) \/ RunPipe(p) \/ PipeLeft(p) \/ PipeRight(p)
    \/ ChildLeft(p) \/ ChildRight(p) \/ PipeClose(p) \/ PipeWait(p) \/ RunBack(p) \/ Exit0(p)

(***************************************************************************)
(* Programs, the shell's main() and init                                   *)
(***************************************************************************)
Held(end) == \E s \in Slot : \E d \in 0..MaxFd : pr[s].fd[d] = end

\* A program reads its input to the end and exits; or it exits before.
AtEof(p) == pr[p].fd[0][1] = "r" => ~Held(<<"w", pr[p].fd[0][2]>>)
Program(p) == pr[p].pc = "exec" /\ AtEof(p) /\ Exits(p)
Leave(p) == pr[p].pc = "exec" /\ ~AtEof(p) /\ Exits(p)

\* A line is typed that has nothing running any more; its first fork may fail.
Prompt(p, l) ==
    /\ pr[p].pc = "prompt" /\ \A s \in Slot : pr[s].ln # l
    /\ \/ /\ Free # {}
          /\ pr' = [pr EXCEPT ![p].pc = "shwait",
                              ![NewSlot] = [pr[p] EXCEPT !.pc = "run", !.cmd = Line[l], !.parent = p, !.ln = l]]
          /\ broken' = broken \ {0, l}
          /\ UNCHANGED <<init, fails>>
       \/ Fails(p)

Wait(p) == pr[p].pc = "shwait" /\ wait(p, "prompt", NoCmd)

\* The end of the input ends the shell.
Eof(p) == pr[p].pc = "prompt" /\ Exits(p)

InitStart ==
    /\ init.pc = "start"
    /\ IF Free = {} THEN init' = [init EXCEPT !.pc = "exited"] /\ UNCHANGED pr
       ELSE /\ pr' = [pr EXCEPT ![NewSlot] = [FreeSlot EXCEPT !.pc = "prompt", !.fd = Std]]
            /\ init' = [pc |-> "wait", pid |-> NewSlot]
    /\ UNCHANGED <<fails, broken>>

\* The shell has ended, or a process without a parent.
InitWait ==
    /\ init.pc = "wait"
    /\ \E z \in Ended(Init0) :
          /\ pr' = [pr EXCEPT ![z] = FreeSlot]
          /\ init' = IF z = init.pid THEN [pc |-> "start", pid |-> Init0] ELSE init
    /\ UNCHANGED <<fails, broken>>

\* The kernel panics when init exits: everything stops.
Next ==
    /\ init.pc # "exited"
    /\ \/ InitStart \/ InitWait
       \/ \E p \in Slot : runcmd(p) \/ Program(p) \/ Leave(p) \/ Wait(p) \/ Eof(p)
       \/ \E p \in Slot, l \in DOMAIN Line : Prompt(p, l)

Spec == Init /\ [][Next]_vars

\* Processes run, and programs at the end of their input exit; nobody has to type.
FairSpec ==
    /\ Spec
    /\ WF_vars(InitStart) /\ WF_vars(InitWait)
    /\ \A p \in Slot : WF_vars(runcmd(p) \/ Program(p)) /\ WF_vars(Wait(p))

-----------------------------------------------------------------------------
\* What each program of a command should have as its input and output.
RECURSIVE Wired(_, _, _)
Wired(c, in, out) ==
    CASE c.type = "EXEC" -> {<<c.name, in, out>>}
      [] c.type = "REDIR" -> IF c.fd = 0 THEN Wired(c.cmd, <<c.file, 0>>, out) ELSE Wired(c.cmd, in, <<c.file, 0>>)
      [] c.type = "PIPE" -> Wired(c.left, in, <<"w", c.id>>) \cup Wired(c.right, <<"r", c.id>>, out)
      [] c.type = "BACK" -> Wired(c.cmd, in, out)
      [] OTHER -> Wired(c.left, in, out) \cup Wired(c.right, in, out)

WiredLine == [l \in DOMAIN Line |-> Wired(Line[l], <<"console", 0>>, <<"console", 0>>)]

\* A program starts with the input and output that the line says, and without
\* another end of a pipe: runcmd()'s closing, opening and duplicating relies on
\* the lowest free descriptor being the one it has just closed.
Wiring ==
    \A p \in Slot : pr[p].pc = "exec" =>
        /\ <<pr[p].cmd.name, pr[p].fd[0], pr[p].fd[1]>> \in WiredLine[pr[p].ln]
        /\ \A d \in 3..MaxFd : pr[p].fd[d] = <<None, 0>>

\* When the shell is ready for the next line, what is still running was put in the
\* background with &, or belongs to a line in which a fork has failed: wait() has
\* not returned for another child than the one that is meant.
Foreground ==
    (\E p \in Slot : pr[p].pc = "prompt") =>
        \A s \in Slot : pr[s].pc \in {"free", "prompt", "zombie"} \/ pr[s].bg \/ pr[s].ln \in broken

\* A line comes to its end: every reader of a pipe sees the end of its input, also
\* when forks fail half way, and the shell or a new shell asks for the next line.
PromptReturns ==
    (\E p \in Slot : pr[p].pc = "shwait") ~> (init.pc = "exited" \/ \E s \in Slot : pr[s].pc = "prompt")

\* init never exits, which the kernel's exit() takes for granted.
InitStays == init.pc # "exited"
=============================================================================
