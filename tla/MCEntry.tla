------------------------------- MODULE MCEntry -------------------------------
(* How the kernel is entered and left, one component in each behaviour: spin  *)
(* locks with two threads that move between two harts, traps of two processes *)
(* on two harts, and copies to and from user memory.                          *)
EXTENDS Trap, TLC

CONSTANTS
    Component,   \* the components to check
    h0, h1, h2, h3, p1, p2, Nil

VARIABLES
    component,
    locked, cpu, noff, intena, sie, on, state, code,
    op, start, count, perm, mem, va, len, buf, got_null, result

Locks == INSTANCE SpinLock WITH
    N <- 2, Hart <- {h0, h1}, Hart0 <- h0, NoHart <- Nil
Copy == INSTANCE UserCopy WITH
    PGSIZE <- 2, Pages <- 3, MaxLen <- 5

ASSUME EntryAssumption == Locks!SpinLockAssumption

locksVars ==
    <<locked, cpu, noff, intena, sie, on, state, code>>
copyVars ==
    <<op, start, count, perm, mem, va, len, buf, got_null, result>>
entryVars == <<component, vars, locksVars, copyVars>>
Symmetry == Permutations(Proc)

\* The variables of the components that a behaviour is not about.
Resting == Init /\ \A q \in Proc : ~p[q].intena
NoLocks ==
    /\ locked = 0 /\ cpu = 0 /\ noff = 0 /\ intena = 0 /\ sie = 0 /\ on = 0 /\ state = 0
    /\ code = 0
NoCopy ==
    /\ op = 0 /\ start = 0 /\ count = 0 /\ perm = 0 /\ mem = 0 /\ va = 0 /\ len = 0 /\ buf = 0
    /\ got_null = 0 /\ result = 0

EntryInit ==
    /\ component \in Component
    /\ \/ component = "trap" /\ Init /\ NoLocks /\ NoCopy
       \/ component = "locks" /\ Locks!Init /\ Resting /\ NoCopy
       \/ component = "copy" /\ Copy!Init /\ Resting /\ NoLocks

EntryNext ==
    \/ component = "trap" /\ Next /\ UNCHANGED <<component, locksVars, copyVars>>
    \/ component = "locks" /\ Locks!Next /\ UNCHANGED <<component, vars, copyVars>>
    \/ component = "copy" /\ Copy!Next /\ UNCHANGED <<component, vars, locksVars>>
    \/ component \in {"trap", "copy"} /\ UNCHANGED entryVars   \* may stop

EntrySpec == EntryInit /\ [][EntryNext]_entryVars

-----------------------------------------------------------------------------
\* Spin locks exclude, also when a scheduler takes one and the thread it switches to
\* releases it; a hart inside a lock takes no interrupt; push_off() and pop_off() match
\* although the thread may move to another hart; no panic is reached.
LocksExclude ==
    component = "locks" =>
        /\ Locks!TypeOK /\ Locks!MutualExclusion /\ Locks!MaskedWhileLocked
        /\ Locks!HandlerMasked /\ Locks!NoPanic /\ Locks!InterruptsRestored

\* copyin(), copyout() and copyinstr() succeed exactly for ranges and strings that the
\* program may use, and copy exactly those bytes.
CopyExact == component = "copy" => Copy!TypeOK /\ Copy!CopyExact /\ Copy!StringExact
=============================================================================
