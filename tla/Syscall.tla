------------------------------- MODULE Syscall -------------------------------
(* Dispatch and tracing of system calls (syscall.c, sys_trace, fork's copy of  *)
(* the mask).  A handler can sleep, so that calls of several processes overlap *)
(* and a line is printed long after its call was made.  A mask is the set of   *)
(* calls whose bits are set; a process is a slot of the table.                 *)
EXTENDS Integers, Sequences

CONSTANTS
    Proc, First,     \* the table, and the slot of the first process
    Value,           \* what a register can hold
    NewSp            \* what exec() puts into a1

VARIABLES
    mask,     \* p->mask
    tf,       \* tf[q]: a0, a1, a2 of the trap frame
    call,     \* call[q]: the call that is being served, "none", or "unused"
    saved,    \* saved[q]: register0..2 of syscall()
    out,      \* the last line of trace output
    asked, wish  \* for the properties: the arguments the program passed; the calls that
                 \* the process, or an ancestor before the fork, wanted to be traced

vars == <<mask, tf, call, saved, out, asked, wish>>

Regs == [1..3 -> Value \cup {NewSp}]

\* The calls the model tells apart, and the number of arguments the trace prints.
syscall_arg_count == [fork |-> 0, exit |-> 1, pipe |-> 0, kill |-> 2, exec |-> 2, fstat |-> 1, trace |-> 1, write |-> 3]
Num == DOMAIN syscall_arg_count
Masks == {{}, {"fork"}, {"exec", "kill"}, Num}
Zero == [r \in 1..3 |-> NewSp]
Silent == [served |-> "none", num |-> "none", args |-> <<>>, was |-> Zero, wanted |-> FALSE]

TypeOK ==
    /\ mask \in [Proc -> Masks] /\ wish \in [Proc -> Masks]
    /\ tf \in [Proc -> Regs] /\ saved \in [Proc -> Regs] /\ asked \in [Proc -> Regs]
    /\ call \in [Proc -> Num \cup {"none", "unused", "unknown"}]
    /\ out.num \in Num \cup {"none"} /\ out.served \in Num \cup {"none"} /\ Len(out.args) <= 3

Init ==
    /\ mask = [q \in Proc |-> {}] /\ wish = mask
    /\ tf = [q \in Proc |-> Zero] /\ saved = tf /\ asked = tf
    /\ call = [q \in Proc |-> IF q = First THEN "none" ELSE "unused"]
    /\ out = Silent

registers(q) == saved[q]

\* The trap: the program's registers are in the trap frame and syscall() saves them.
Enter(q, num, regs) ==
    /\ call[q] = "none"
    /\ call' = [call EXCEPT ![q] = num]
    /\ tf' = [tf EXCEPT ![q] = regs] /\ saved' = [saved EXCEPT ![q] = regs] /\ asked' = [asked EXCEPT ![q] = regs]
    /\ out' = Silent
    /\ UNCHANGED <<mask, wish>>

Traced(m, num) == num \in m

\* The end of syscall(), with m the mask that is tested and w the wish.
Report(q, m, w) ==
    LET line == Traced(m, call[q]) IN
    out' = [served |-> call[q], num |-> IF line THEN call[q] ELSE "none",
            args |-> IF line THEN SubSeq(registers(q), 1, syscall_arg_count[call[q]]) ELSE <<>>,
            was |-> asked[q], wanted |-> call[q] \in w]

Back(q, c) == [c EXCEPT ![q] = "none"]

\* The child keeps the mask of the slot's last process (mutant of Inherited).
InheritedNot(q, r) == mask

Inherited(q, r) == [mask EXCEPT ![r] = mask[q]]

\* A child gets its parent's registers, with a0 = 0, and its mask; or none is free.
Fork(q) ==
    /\ call[q] = "fork"
    /\ \/ \E r \in Proc :
             /\ call[r] = "unused"
             /\ call' = [Back(q, call) EXCEPT ![r] = "none"]
             /\ mask' = Inherited(q, r) /\ wish' = [wish EXCEPT ![r] = wish[q]]
             /\ tf' = [tf EXCEPT ![r] = tf[q]]
             /\ UNCHANGED <<saved, asked>>
       \/ call' = Back(q, call) /\ UNCHANGED <<mask, tf, saved, asked, wish>>
    /\ Report(q, mask[q], wish[q])

\* exit() does not return to syscall(); the mask stays in the slot.
Exit(q) ==
    /\ call[q] = "exit" /\ q # First
    /\ call' = [call EXCEPT ![q] = "unused"]
    /\ wish' = [wish EXCEPT ![q] = {}]
    /\ out' = Silent
    /\ UNCHANGED <<mask, tf, saved, asked>>

\* exec() that succeeds has changed a1 before syscall() prints.
Exec(q) ==
    /\ call[q] = "exec"
    /\ \/ tf' = [tf EXCEPT ![q][2] = NewSp]
       \/ UNCHANGED tf
    /\ call' = Back(q, call)
    /\ UNCHANGED <<mask, saved, asked, wish>>
    /\ Report(q, mask[q], wish[q])

sys_trace(q, m) ==
    /\ call[q] = "trace"
    /\ mask' = [mask EXCEPT ![q] = m] /\ wish' = [wish EXCEPT ![q] = m]
    /\ call' = Back(q, call)
    /\ UNCHANGED <<tf, saved, asked>>
    /\ Report(q, m, m)

\* The other handlers leave registers 0 to 2 alone; a0 gets the result afterwards.
Other(q) ==
    /\ call[q] \in {"pipe", "kill", "fstat", "write"}
    /\ call' = Back(q, call)
    /\ UNCHANGED <<mask, tf, saved, asked, wish>>
    /\ Report(q, mask[q], wish[q])

\* A number that is not in the table: -1, and no trace.
Unknown(q) ==
    /\ call[q] = "unknown"
    /\ out' = Silent
    /\ call' = Back(q, call)
    /\ UNCHANGED <<mask, tf, saved, asked, wish>>

Serve(q) == Fork(q) \/ Exit(q) \/ Exec(q) \/ Other(q) \/ Unknown(q) \/ \E m \in Masks : sys_trace(q, m)
Next == \E q \in Proc : Serve(q) \/ \E num \in Num \cup {"unknown"}, regs \in [1..3 -> Value] : Enter(q, num, regs)
Spec == Init /\ [][Next]_vars

-----------------------------------------------------------------------------
\* The trace shows the arguments that the program passed, although the handler
\* has run in between and exec() has changed the registers.
PrintedAsCalled == \A k \in DOMAIN out.args : out.args[k] = out.was[k]

\* A call is printed exactly when the process, or the ancestor it inherited the
\* mask from, has asked for it, whatever its slot was used for before.
TraceExact == out.served # "none" => (out.num = out.served <=> out.wanted)

\* The arguments of each call that its handler fetches.
Fetched == [fork |-> 0, exit |-> 1, pipe |-> 1, kill |-> 1, exec |-> 2, fstat |-> 2, trace |-> 1, write |-> 3]

\* A line of the trace shows the values of the call's arguments, all and no other.
AllArguments == out.num # "none" => Len(out.args) = Fetched[out.num]
=============================================================================
