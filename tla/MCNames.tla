------------------------------- MODULE MCNames -------------------------------
(* The tree of names: two threads, two names and two levels below the root.   *)
EXTENDS Integers, TLC

CONSTANTS t1, t2, Nil

VARIABLES inode, lock, th, cwd

Names == INSTANCE Names WITH
    Thread <- {t1, t2}, NoThread <- Nil, Inum <- 1..3, Root <- 1, MaxLink <- 2,
    Name <- {"a", "b"}, Path <- {<<"a">>, <<"a", "b">>, <<"..">>}

vars == <<inode, lock, th, cwd>>
Symmetry == Permutations({t1, t2})

Spec == Names!Spec

-----------------------------------------------------------------------------
\* The directories form a tree, every path leads to an allocated inode whose count is not
\* too low, and two unlink() calls never wait for each other.  Only an empty directory is
\* removed, whatever other calls do between unlink()'s test and its write: one step takes
\* at most one inode out of the tree.
TreeShape ==
    /\ [](Names!TypeOK /\ Names!TreeShape /\ Names!NoDanglingName /\ Names!NoCircularWait)
    /\ [][Names!LeaveStep]_vars
=============================================================================
