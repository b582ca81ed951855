------------------------------ MODULE AtomicDisk ------------------------------
(***************************************************************************)
(* What the log of kernel/log.c promises its clients: operations change    *)
(* blocks in memory; all changes so far become durable in one step, at a   *)
(* moment when no operation is in progress; a crash returns memory to the  *)
(* last such moment.  So an operation survives a crash as a whole or not   *)
(* at all, together with every operation that ended before it.             *)
(***************************************************************************)
CONSTANTS Block, Value, Thread

VARIABLES
    mem,      \* the blocks as the running system sees them
    durable,  \* the blocks as the next boot would see them
    active    \* threads between begin_op() and end_op()

Init ==
    /\ mem \in [Block -> Value]
    /\ durable = mem
    /\ active = {}

Begin(t) ==
    /\ t \notin active
    /\ active' = active \cup {t}
    /\ UNCHANGED <<mem, durable>>

Write(t, b, v) ==
    /\ t \in active
    /\ mem' = [mem EXCEPT ![b] = v]
    /\ UNCHANGED <<durable, active>>

End(t) ==
    /\ t \in active
    /\ active' = active \ {t}
    /\ UNCHANGED <<mem, durable>>

Commit ==
    /\ active = {}
    /\ durable' = mem
    /\ UNCHANGED <<mem, active>>

Crash ==
    /\ mem' = durable
    /\ active' = {}
    /\ UNCHANGED durable

Next ==
    \/ \E t \in Thread : Begin(t) \/ End(t) \/ \E b \in Block, v \in Value : Write(t, b, v)
    \/ Commit
    \/ Crash

Spec == Init /\ [][Next]_<<mem, durable, active>>
=============================================================================
