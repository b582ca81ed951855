------------------------------ MODULE MCTables -------------------------------
(* The tables that processes share, one component in each behaviour: the      *)
(* buffer cache, with four blocks and a buffer for every thread and pin; the  *)
(* inode table, with as many entries as the threads can use at a time; and    *)
(* open files and descriptors.                                                *)
EXTENDS BufCache, TLC

CONSTANTS
    Component,   \* the components to check
    t1, t2, m1, m2, m3, m4, Nil

VARIABLES
    component,
    inodeDisk, itab, lock, dir, dlock, th, open,
    ftable, ofile, iref, pipe, filesK

Itable == INSTANCE Inode WITH
    Thread <- {t1, t2}, NoThread <- Nil, Slot <- {m1, m2, m3}, NoSlot <- Nil, Inum <- 1..3,
    Free <- 0, Name <- {"a", "b"}, disk <- inodeDisk
Files == INSTANCE Files WITH
    Proc <- {1, 2}, initproc <- 1, NFILE <- 3, NOFILE <- 2, Inode <- {1}, Page <- {2},
    k <- filesK

ASSUME TablesAssumption == Enough

inodeVars ==
    <<inodeDisk, itab, lock, dir, dlock, th, open>>
filesVars ==
    <<ftable, ofile, iref, pipe, filesK>>
tablesVars == <<component, vars, inodeVars, filesVars>>
Symmetry == Permutations({t1, t2}) \cup Permutations({m1, m2, m3})

\* The variables of the components that a behaviour is not about.
Resting == Init /\ disk = [k \in Block |-> 0] /\ data = [b \in Buf |-> 0]
NoInode ==
    /\ inodeDisk = 0 /\ itab = 0 /\ lock = 0 /\ dir = 0 /\ dlock = 0 /\ th = 0 /\ open = 0
NoFiles ==
    /\ ftable = 0 /\ ofile = 0 /\ iref = 0 /\ pipe = 0 /\ filesK = 0

TablesInit ==
    /\ component \in Component
    /\ \/ component = "cache" /\ Init /\ NoInode /\ NoFiles
       \/ component = "inode" /\ Itable!Init /\ Resting /\ NoFiles
       \/ component = "files" /\ Files!Init /\ Resting /\ NoInode

TablesNext ==
    \/ component = "cache" /\ Next /\ UNCHANGED <<component, inodeVars, filesVars>>
    \/ component = "inode" /\ Itable!Next /\ UNCHANGED <<component, vars, filesVars>>
    \/ component = "files" /\ Files!Next /\ UNCHANGED <<component, vars, inodeVars>>
    \/ component \in {"inode"} /\ UNCHANGED tablesVars   \* may stop

TablesSpec == TablesInit /\ [][TablesNext]_tablesVars

-----------------------------------------------------------------------------
\* Every reference to a file, an inode or an end of a pipe is counted, and an operation
\* that fails half way leaves nothing behind.
RefExact ==
    component = "files" =>
        Files!TypeOK /\ Files!FailureUndone /\ Files!RefExact /\ Files!InodeRefs /\ Files!PipeEnds

\* An inode has one entry in the table, counted by its references and equal to the inode
\* on disk when valid; nobody uses a free inode; the last iput() of an unlinked file never
\* waits for its lock; link counts are the names; no two calls wait for each other.
InodesConsistent ==
    component = "inode" =>
        /\ Itable!TypeOK /\ Itable!OneEntry /\ Itable!RefCounts /\ Itable!CopyIsDisk
        /\ Itable!Allocated /\ Itable!PutNeverBlocks /\ Itable!LinkCounts /\ Itable!NoCircularWait
=============================================================================
