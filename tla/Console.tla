------------------------------- MODULE Console -------------------------------
(* Console input (console.c): the ring that consoleintr() edits and            *)
(* consoleread() empties, with readers that sleep, are killed and share the    *)
(* ring.  cons.lock makes each interrupt one step; a read takes the lock, and  *)
(* holds it from one character to the next except while it sleeps.             *)
EXTENDS Integers, Sequences, FiniteSets

CONSTANTS
    Reader, NoReader,
    Char,        \* ordinary characters
    INPUT_BUF,
    UINT,        \* modulus of r, w and e, a multiple of INPUT_BUF
    MaxN         \* bound: bytes asked for in one call

VARIABLES
    buf, r, w, e, lock,   \* cons
    th,                   \* th[t]: place of the call, bytes to go and copied, the last result
    killed

vars == <<buf, r, w, e, lock, th, killed>>

User == [pc |-> "user", n |-> 0, got |-> 0]

Plus(x, k) == (x + k) % UINT

TypeOK ==
    /\ buf \in [0..INPUT_BUF - 1 -> Char \cup {"nl", "eof"}]
    /\ r \in 0..UINT - 1 /\ w \in 0..UINT - 1 /\ e \in 0..UINT - 1
    /\ lock \in Reader \cup {NoReader}
    /\ killed \in [Reader -> BOOLEAN]
    /\ th \in [Reader -> [pc : {"user", "enter", "loop", "sleep", "asleep"}, n : 0..MaxN, got : 0..MaxN]]

Init ==
    /\ \E c \in Char : buf = [k \in 0..INPUT_BUF - 1 |-> c]
    /\ r = 0 /\ w = 0 /\ e = 0
    /\ lock = NoReader
    /\ th = [t \in Reader |-> User]
    /\ killed = [t \in Reader |-> FALSE]

(***************************************************************************)
(* consoleintr()                                                           *)
(***************************************************************************)

WakeAll == th' = [t \in Reader |-> IF th[t].pc = "asleep" THEN [th[t] EXCEPT !.pc = "enter"] ELSE th[t]]

\* A line without an end is never handed over (mutant of Commit).
CommitLine(c, e2) == c \in {"nl", "eof"}

\* The line is handed over: it has ended, or the ring is full.
Commit(c, e2) == c \in {"nl", "eof"} \/ e2 = Plus(r, INPUT_BUF)

Full == Plus(e, -r) >= INPUT_BUF

\* Any other key: stored unless the ring is full.
Store(c) ==
    LET e2 == Plus(e, 1) IN
    /\ lock = NoReader /\ ~Full
    /\ buf' = [buf EXCEPT ![e % INPUT_BUF] = c]
    /\ e' = e2
    /\ IF Commit(c, e2) THEN w' = e2 /\ WakeAll ELSE UNCHANGED <<w, th>>
    /\ UNCHANGED <<r, lock, killed>>

Erasable == e # w

Backspace ==
    /\ lock = NoReader /\ Erasable
    /\ e' = Plus(e, -1)
    /\ UNCHANGED <<buf, r, w, lock, th, killed>>

\* The line being edited holds no newline, so the loop goes back to w.
KillLine ==
    /\ lock = NoReader /\ e # w
    /\ e' = w
    /\ UNCHANGED <<buf, r, w, lock, th, killed>>

(***************************************************************************)
(* consoleread()                                                           *)
(***************************************************************************)
Goto(t, x) == th' = [th EXCEPT ![t] = x]

Read(t, n) ==
    /\ th[t].pc = "user"
    /\ Goto(t, [pc |-> "enter", n |-> n, got |-> 0])
    /\ UNCHANGED <<buf, r, w, e, lock, killed>>

\* acquire(&cons.lock), at the start or on the way out of sleep().
Enter(t) ==
    /\ th[t].pc = "enter" /\ lock = NoReader
    /\ lock' = t
    /\ Goto(t, [th[t] EXCEPT !.pc = "loop"])
    /\ UNCHANGED <<buf, r, w, e, killed>>

Return(t) == lock' = NoReader /\ Goto(t, User)

\* Nothing to read: give up when killed, else call sleep() with cons.lock held.
Wait(t) ==
    /\ th[t].pc = "loop" /\ th[t].n > 0 /\ r = w
    /\ IF killed[t] THEN Return(t)
       ELSE UNCHANGED lock /\ Goto(t, [th[t] EXCEPT !.pc = "sleep"])
    /\ UNCHANGED <<buf, r, w, e, killed>>

\* sleep(&cons.r, &cons.lock): kill(), which takes only p->lock, may have come since
\* the test of killed.
Sleep(t) ==
    /\ th[t].pc = "sleep"
    /\ lock' = NoReader
    /\ Goto(t, [th[t] EXCEPT !.pc = "asleep"])
    /\ UNCHANGED <<buf, r, w, e, killed>>

\* ^D after other characters stays for the next call.
EofTaken(got) == got = 0

\* The next character, with a copyout() that works or fails.
Take(t, copied) ==
    LET x == th[t]
        c == buf[r % INPUT_BUF]
    IN
    /\ x.pc = "loop" /\ x.n > 0 /\ r # w
    /\ IF c = "eof"
       THEN r' = IF EofTaken(x.got) THEN Plus(r, 1) ELSE r
       ELSE r' = Plus(r, 1)
    /\ IF c = "eof" \/ ~copied \/ c = "nl" \/ x.n = 1 THEN Return(t)
       ELSE Goto(t, [x EXCEPT !.n = @ - 1, !.got = @ + 1]) /\ UNCHANGED lock
    /\ UNCHANGED <<buf, w, e, killed>>

\* kill() of a reader, which is woken only if it sleeps already; the process ends in
\* usertrap().
KillReader(t) ==
    /\ ~killed[t]
    /\ killed' = [killed EXCEPT ![t] = TRUE]
    /\ Goto(t, IF th[t].pc = "asleep" THEN [th[t] EXCEPT !.pc = "enter"] ELSE th[t])
    /\ UNCHANGED <<buf, r, w, e, lock>>

\* A process that is killed leaves at the end of its call, and another takes its place.
Replace(t) ==
    /\ killed[t] /\ th[t].pc = "user"
    /\ killed' = [killed EXCEPT ![t] = FALSE]
    /\ UNCHANGED <<buf, r, w, e, lock, th>>

Interrupt == Backspace \/ KillLine \/ \E c \in Char \cup {"nl", "eof"} : Store(c)
Step(t) == Enter(t) \/ Wait(t) \/ Sleep(t) \/ \E copied \in BOOLEAN : Take(t, copied)

Next ==
    \/ Interrupt
    \/ \E t \in Reader : Step(t) \/ KillReader(t) \/ Replace(t) \/ \E n \in 1..MaxN : Read(t, n)

Spec == Init /\ [][Next]_vars

-----------------------------------------------------------------------------
\* The characters from one index to another.
Slice(from, to) == [k \in 1..Plus(to, -from) |-> buf[Plus(from, k - 1) % INPUT_BUF]]

\* The ring behaves as the line editor: no key is lost or seen twice, a line that
\* was handed over is not edited any more, and a full ring is handed over.
Editor == INSTANCE LineEdit WITH Room <- INPUT_BUF, ready <- Slice(r, w), line <- Slice(w, e)
EditorInit == Editor!Init
EditorStep == Editor!Next \/ UNCHANGED <<Slice(r, w), Slice(w, e)>>
IsEditor == Editor!Spec

\* r, w and e stay in this order and within the ring, also when they wrap.
InOrder == Plus(w, -r) <= Plus(e, -r) /\ Plus(e, -r) <= INPUT_BUF

\* Nobody sleeps while there is something to read: no wakeup() is lost between the
\* test of r and w and sleep().  A kill() can be: see KilledSleepsNot.
NotStranded == \A t \in Reader : th[t].pc \in {"sleep", "asleep"} => r = w

\* What the test of killed at console.c:92 is for, which the code does not achieve: a
\* reader killed between it and sleep() waits for the next line.
KilledSleepsNot == \A t \in Reader : th[t].pc = "asleep" => ~killed[t]

\* ^D leaves the ring only with a call that has copied nothing, which then
\* returns 0: a reader always gets the end of file that was typed.
EofStep ==
    \A t \in Reader : (lock = t /\ r' # r /\ buf[r % INPUT_BUF] = "eof") => th[t].got = 0
EofAlone == [][EofStep]_vars
=============================================================================
