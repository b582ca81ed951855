------------------------------ MODULE MCStorage ------------------------------
(* From the files to the disk, one component in each behaviour: the log, with *)
(* blocks of data; a second log without data, with more threads and blocks to *)
(* fill it; the disk driver, with descriptors for two of three requests; and  *)
(* the blocks of two files of at most two blocks, or of one file of at most   *)
(* three that two threads have open, each with an offset of its own.          *)
EXTENDS Log, TLC

CONSTANTS
    Component,   \* the components to check
    t1, t2, t3, b1, b2, b3, b4, b5, Nil

VARIABLES
    component,
    spaceHome, spaceLogblk, spaceHead, spaceCache, spacePins, spaceLh, spaceOutstanding,
    spaceCommitting, spacePc, spaceTail, spaceWritten, spaceSys,
    free, next, more, info, availRing, availIdx, usedRing, usedIdx, seenIdx, devIdx, working,
    irq, intr, driverPc, busy, driverHead, served,
    used, data, ind, ino, off, lock, th, logged

Space == INSTANCE Log WITH
    Block <- {b1, b2, b3, b4, b5}, Value <- {0}, Thread <- {t1, t2, t3}, MAXOPBLOCKS <- 3,
    OpBlocks <- 2, LOGSIZE <- 6, LogBlocks <- 6, home <- spaceHome, logblk <- spaceLogblk,
    head <- spaceHead, cache <- spaceCache, pins <- spacePins, lh <- spaceLh,
    outstanding <- spaceOutstanding, committing <- spaceCommitting, pc <- spacePc,
    tail <- spaceTail, written <- spaceWritten, sys <- spaceSys
Disk == INSTANCE VirtioDisk WITH
    Thread <- {t1, t2, t3}, NoThread <- Nil, NUM <- 7, UINT16 <- 14, pc <- driverPc,
    head <- driverHead
Data == INSTANCE FileData WITH
    Thread <- {1, 2}, NoThread <- 0, File <- {1, 2}, Block <- 1..6, BSIZE <- 2, BPB <- 1,
    NDIRECT <- 1, Stale <- 9, Inode <- {1, 2}, InodeOf <- <<1, 2>>, NINDIRECT <- 1,
    MAXOPBLOCKS <- 6, Count <- {3}, Value <- <<1, 1>>
Shared == INSTANCE FileData WITH
    Thread <- {1, 2}, NoThread <- 0, File <- {1, 2}, Block <- 1..6, BSIZE <- 2, BPB <- 1,
    NDIRECT <- 1, Stale <- 9, Inode <- {1}, InodeOf <- <<1, 1>>, NINDIRECT <- 2,
    MAXOPBLOCKS <- 8, Count <- {5}, Value <- <<1, 2>>

ASSUME StorageAssumption == Fits /\ Space!LogAssumption /\ Space!Fits /\ Disk!VirtioAssumption

spaceVars ==
    <<spaceHome, spaceLogblk, spaceHead, spaceCache, spacePins, spaceLh, spaceOutstanding,
      spaceCommitting, spacePc, spaceTail, spaceWritten, spaceSys>>
driverVars ==
    <<free, next, more, info, availRing, availIdx, usedRing, usedIdx, seenIdx, devIdx, working,
      irq, intr, driverPc, busy, driverHead, served>>
dataVars ==
    <<used, data, ind, ino, off, lock, th, logged>>
storageVars == <<component, vars, spaceVars, driverVars, dataVars>>
Symmetry == Permutations({t1, t2}) \cup Permutations({b1, b2, b3})

\* The variables of the components that a behaviour is not about.
Resting == Init /\ home = [b \in Block |-> 0] /\ logblk = [k \in 1 .. LOGSIZE |-> 0]
NoSpace ==
    /\ spaceHome = 0 /\ spaceLogblk = 0 /\ spaceHead = 0 /\ spaceCache = 0 /\ spacePins = 0
    /\ spaceLh = 0 /\ spaceOutstanding = 0 /\ spaceCommitting = 0 /\ spacePc = 0
    /\ spaceTail = 0 /\ spaceWritten = 0 /\ spaceSys = 0
NoDriver ==
    /\ free = 0 /\ next = 0 /\ more = 0 /\ info = 0 /\ availRing = 0 /\ availIdx = 0
    /\ usedRing = 0 /\ usedIdx = 0 /\ seenIdx = 0 /\ devIdx = 0 /\ working = 0 /\ irq = 0
    /\ intr = 0 /\ driverPc = 0 /\ busy = 0 /\ driverHead = 0 /\ served = 0
NoData ==
    /\ used = 0 /\ data = 0 /\ ind = 0 /\ ino = 0 /\ off = 0 /\ lock = 0 /\ th = 0
    /\ logged = 0

StorageInit ==
    /\ component \in Component
    /\ \/ component = "log" /\ Init /\ NoSpace /\ NoDriver /\ NoData
       \/ component = "space" /\ Space!Init /\ Resting /\ NoDriver /\ NoData
       \/ component = "disk" /\ Disk!Init /\ Resting /\ NoSpace /\ NoData
       \/ component = "data" /\ Data!Init /\ Resting /\ NoSpace /\ NoDriver
       \/ component = "shared" /\ Shared!Init /\ Resting /\ NoSpace /\ NoDriver

StorageNext ==
    \/ component = "log" /\ Next /\ UNCHANGED <<component, spaceVars, driverVars, dataVars>>
    \/ component = "space" /\ Space!Next /\ UNCHANGED <<component, vars, driverVars, dataVars>>
    \/ component = "disk" /\ Disk!Next /\ UNCHANGED <<component, vars, spaceVars, dataVars>>
    \/ component = "data" /\ Data!Next /\ UNCHANGED <<component, vars, spaceVars, driverVars>>
    \/ component = "shared" /\ Shared!Next /\ UNCHANGED <<component, vars, spaceVars, driverVars>>

StorageSpec == StorageInit /\ [][StorageNext]_storageVars

-----------------------------------------------------------------------------
\* begin_op() lets in only operations that fit in the log, so log_write() never
\* panics, and whoever it puts to sleep has somebody to wake it up.
LogSpace == component = "space" => Space!NeverExhausted /\ Space!SleeperHasWaker

\* A request returns only after the device has served it, no completion is overlooked,
\* no descriptor leaks, and whoever waits for descriptors has a request to wait for.
DiskServes ==
    component = "disk" =>
        /\ Disk!TypeOK /\ Disk!ChainsPartition /\ Disk!DoneMeansServed
        /\ Disk!CompletionSeen /\ Disk!DescSleeperHasWaker

\* No block belongs to two files or is lost, and a file shows only bytes that were
\* written to it, also when a copy fails half way.
BlocksOwned ==
    /\ component = "data" => Data!TypeOK /\ Data!BlocksOwned /\ Data!OnlyWritten
    /\ component = "shared" => Shared!TypeOK /\ Shared!BlocksOwned /\ Shared!OnlyWritten

\* A transaction of filewrite() never logs more blocks than begin_op() reserved, and a
\* write changes only the bytes of its own range although two threads write to the file.
WritesFit ==
    /\ [](component = "shared" => Shared!OpFits)
    /\ [][component = "shared" => Shared!RangeStep]_storageVars
=============================================================================
