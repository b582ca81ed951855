# Verification of Tweaked-XV6

TLA+ models of the xv6-riscv kernel in `src/kernel` with its changes (the FCFS,
PBS and MLFQ schedulers, `trace`, `waitx`, `set_priority`), and of the shell,
`init`, `grep` and `malloc` in `src/user`. TLC checks every model on small
instances. TLAPS proves the central properties of the process table, the log, the
buffer cache, pipes, the PBS scheduler and traps for every value of the constants.

## The system

| Part | Source | Module | Proofs |
|---|---|---|---|
| process table, RR scheduler | `proc.c`, `trap.c`, `sysproc.c` | `Proc` | `ProcLocks`, `ProcProofs` |
| redo log | `log.c` | `Log`, `AtomicDisk` | `LogOps`, `LogProofs` |
| buffer cache, sleep locks | `bio.c`, `sleeplock.c` | `BufCache` | `BufCacheProofs` |
| disk driver | `virtio_disk.c` | `VirtioDisk` | |
| inode table | `fs.c`, `sysfile.c` | `Inode` | |
| directories, path names | `fs.c`, `sysfile.c` | `Names` | |
| file contents, block allocation | `fs.c`, `file.c` | `FileData` | |
| open files, descriptors | `file.c`, `sysfile.c` | `Files` | |
| pipes | `pipe.c` | `Pipe`, `Fifo` | `PipeProofs` |
| console input | `console.c` | `Console`, `LineEdit` | |
| console output | `console.c`, `uart.c` | `Uart` | |
| spin locks, interrupt masking | `spinlock.c`, `proc.c` | `SpinLock` | |
| traps and switching | `trap.c`, `proc.c` | `Trap` | `TrapProofs` |
| copies to and from user memory | `vm.c`, `syscall.c` | `UserCopy` | |
| pages, page tables, `exec` | `kalloc.c`, `vm.c`, `exec.c`, `proc.c` | `Vm` | |
| time, `sleep`, `waitx` | `trap.c`, `proc.c`, `sysproc.c` | `Clock` | |
| FCFS | `proc.c` | `Fcfs` | |
| PBS, `set_priority` | `proc.c` | `Pbs` | `PbsProofs` |
| MLFQ | `proc.c`, `trap.c` | `Mlfq` | |
| system calls, `trace` | `syscall.c`, `sysproc.c` | `Syscall` | |
| shell, `init` | `sh.c`, `init.c` | `ShParse`, `ShRun` | |
| `grep`, `malloc` | `grep.c`, `umalloc.c` | `Grep`, `Malloc` | |

The parts meet in four ways. Every blocking operation uses sleep and wakeup of
the process table. Every change of a file system block goes through the log and
the cache. The clock interrupt drives preemption, the accounting and the
schedulers. Traps and spin locks carry all of them.

In the modules a step is one critical section, or what happens between two places
where the code lets somebody else in: a lock that is released, an interrupt that
may come, a block that is written. Sleep and wakeup under a lock are one step
outside `Proc`, which is what `Proc` and `SpinLock` justify.

`PROJECT.json` maps each definition to its lines, and lists the hazards with the
line where each one bites and the property that would catch it.

## How the runs are put together

`proc` and `names` check one module each. The other passing runs check several
components, which do not interact, one component in each behaviour: `MCStorage`,
`MCStreams`, `MCEntry`, `MCSched`, `MCTables`, `MCUser` and `MCLive` have a
variable `component` that is chosen in the initial state from the constant
`Component` and never changes. The variables of the other components rest at one
value. With `Component` set to one name in the cfg a run is about that component
alone.

A component with proofs is extended by the MC module of its run rather than
instantiated, so that the run checks the very definitions the theorems are about.
Its constants are then in the cfg, and those of the others in the `INSTANCE`.

Deadlock is checked in every passing run but `names`. Where a component may really
stop (all processes exit, all ends of a pipe are closed, the ticks of the bound are
used up, a hart has panicked), the next-state relation has a stuttering disjunct for
those states of that component, and the others are still checked. In `Names` every
thread may have finished its calls.

## Modules, runs and what they show

### proc: the process table

`Proc` is the process table in the RR build. Each slot has its fields of `struct
proc`, the holder of `p->lock`, and the position `pc` of its kernel thread; a thread
runs only while some hart has `c->proc` equal to its slot. A step is one critical
section, or one iteration of a loop over `proc[]`. `wait()` and `waitx()` have the
same control and share their actions. The scheduler may pick any RUNNABLE slot. A
system call is any of fork, exit, wait or kill. Processes sleep only in `wait()`
here; the other channels are in the modules of their subsystems.

Three slots (init, a child and a grandchild, which reparenting needs), two harts,
pids up to 3, kills of pids 0 and 2:

- `StackExclusive`: no kernel stack is used by two harts, or reused early.
- `SchedLocks`: `sched()` is entered with only the caller's own lock.
- `NoLostWakeup`, `SleeperHasChild`: a sleeper in `wait()` has a child, and no
  exited one except inside `reparent()` before it reaches init.
- `ParentAlive`, `PidsUnique`, `ZombieReapedByParent`: the tree never dangles, pids
  are unique, only its parent removes a zombie.

### storage: log, driver, file contents

- `Log` is `log.c`, with a crash between any two block writes, in recovery too.
  `AtomicDisk` is what it promises: operations change blocks in memory, all changes
  become durable in one step while no operation is active, a crash returns to the
  last such step. `AtomicAndDurable` is the refinement; the commit is the header
  write. `LogConsistent` says that exactly the blocks not yet at home are pinned,
  that `commit()` is alone, and that a sleeper in `begin_op()` has a waker. Two
  threads, three blocks, two values. `LogBlocks = LOGSIZE`, as mkfs makes it.
  `LogSpace` (three threads, five blocks) says that no panic of `log_write()` is
  reachable when operations write one block fewer than they reserve.
- `VirtioDisk`: chains of three descriptors out of seven, so that two requests fit
  and one descriptor is left over, as two are with the code's eight. The device is
  external: it takes chains in order and completes them in any order. Indices are
  modulo 14 and wrap. `DiskServes`: a request returns only when served, no completion
  is overlooked, no descriptor leaks.
- `FileData`: `balloc` to `writei`, `fileread` and `filewrite`, with copies that fail
  half way. Blocks of two bytes, one direct block, and one or two behind the indirect
  one. With two files of one inode each (`data`) and with two open files of one inode
  (`shared`): `BlocksOwned`, and `WritesFit` (a transaction stays within
  `MAXOPBLOCKS`; a write stays in its range).

### tables: cache, inodes, open files

- `BufCache` has the list from `bcache.head` and the sleep locks. A thread may pin a
  block as `log_write()` does. `latest` is a history variable with the last value given
  to a block. A thread is one use of a buffer: a process that holds two at once (`bmap()`
  around `balloc()`, `install_trans()`, `write_log()`) is two threads. Two threads, four
  blocks, three buffers, one pin: buffers are recycled, and there is one for every thread
  and pin. `CacheCoherent`: one buffer for a block, one process in it, the last value in
  it, and never out of buffers when there are that many. The kernel's sizes
  (`NBUF = LOGSIZE`) do not guarantee that.
- `Inode` is the inode table under open, create, link, unlink and close in one
  directory, with the window of `iput()`. Three inodes and slots, two names.
  `InodesConsistent` collects one entry for an inode, exact reference and link counts,
  the copy equal to the disk, no use of a free inode, no circular wait.
- `Files` is the file table and the descriptors, with every way `pipe()` and `open()`
  can fail. Two processes, three files, two descriptors. `RefExact`.

### names: directories

`Names` has `namex()` turn by turn, `dirlookup`, `dirlink`, create, mkdir, link, unlink
and chdir by two threads on three inodes, with paths `a`, `a/b` and `..`. `TreeShape`:
the directories form a tree, every name leads to an allocated inode, only an empty
directory is removed, no circular wait.

### streams: pipes, console, uart

- `Pipe` has one step per byte or decision under `pi->lock`; kills at any step, copies
  that fail, and `pipeclose()` by the last reference. Two writers, two readers, room for
  two bytes, counters modulo 4 so that they wrap. `FirstInFirstOut`: it implements
  `Fifo`, and a read returns 0 only at the end of file. `NotStranded`: sleepers have a
  reason to sleep. The one exception is stated in it: a writer killed after it has stored
  bytes returns without `wakeup()`.
- `Console` is `consoleintr()` and `consoleread()`; `ConsoleIsEditor` says that they
  behave as `LineEdit`, and that no reader sleeps while there is something to read. A
  reader's test of `killed` and its `sleep()` are two steps. A ring of three, indices
  modulo 6.
- `Uart` is `consolewrite()`, the transmit buffer and the echo, with the device as an
  external FIFO. `OutputInOrder`. Bytes are numbered in a circle of 6, which is more than
  can be on the way.

### entry: spin locks, traps, copies

- `SpinLock` unfolds `acquire()` and `release()` into instructions. A timer interrupt
  puts `kerneltrap()` in front of the code wherever interrupts are on, and the handler
  yields, so a thread can go on on another hart between any two instructions. Memory is
  sequentially consistent: the fences are taken to do their work. Two threads, two harts,
  three locks: a hand-over of `p->lock`, a migration and nested locks. `LocksExclude`.
- `Trap` has the registers a trap changes (mode, SIE, SPP, SPIE, sepc, stvec), where a
  process is in `usertrap()`, `usertrapret()` or `kerneltrap()`, and what `kerneltrap()`
  saved. The user program is a loop of two instructions, enough to tell the place after
  a system call from the call. Two harts, two processes. `TrapsReturn`.
- `UserCopy` tries every page table of three pages of two bytes, address and length up
  to 5. `CopyExact`.

### sched: time and the schedulers

- `Clock`: two harts, two processes, two ticks; `clockintr()` visits slot by slot.
  `sys_sleep()`'s test of `killed` and its `sleep()` are two steps under `tickslock`.
  `TimesExact`: a tick is charged at most once, and `sys_sleep()` returns early only to
  a killed process. The counter is modulo 16.
- `Fcfs`, with four slots, two harts and creation times from 0 to 2. `SelectsLastEarlier`:
  the search, which takes no locks, selects the last process in the table that was created
  before the one the outer loop stands at, and passes nobody that was RUNNABLE all the
  time. `LowPid` is 1 here (2 in the code), so that three processes are compared.
- `Pbs`: two harts, three slots; `SafeSelection`: the selection's lock is kept until the
  switch, the selection stays RUNNABLE, a RUNNING process is on one hart, no lock leaks.
  That the harts never wait for each other in a circle is the deadlock check.
- `Mlfq` has the array of the queues and its sizes, and the scheduler's cleaning, aging
  and selection, the pushes, the removals and the clock interrupt's walk as turns of their
  loops. A hart reads an entry, waits for the lock it leads to and reads the entry again;
  interrupts push wherever the scheduler holds no lock. A null entry, or the release of a
  lock that is not held, stops the hart, and the others go on. On one hart with three
  processes and five queues, on two with two of each, and on three harts (the Makefile's
  `CPUS`) with two processes, `MaxPush = 2` pushes and no clock ticks. `RunsOnce`: no
  process runs on two harts, and all of them stay in queue 0; on one hart also
  `RunnableQueued`. The fewer queues lose nothing, as the ones behind queue 0 are empty.
  That queue 0 has more than one entry only after a race is the code's doing
  (`PushReadsEntries` below).
- `Syscall`: overlapping calls of three processes whose slots are reused. `TraceExact`.

`MaxTicks`, `MaxPid`, `MaxSched` and `MaxPush` bound the counters in the guards. Every
comparison in the schedulers is between two such values, so one or two steps of each
counter give every outcome. PBS's arithmetic is modulo 65536, wide enough for its
priorities; the sizes of MLFQ's queues are modulo 16, so that a size that wraps is larger
than every queue, as 2^32 - 1 is.

### user: shell, grep, malloc, memory

- `ShParse` is the shell's parser as operators, for every line up to five characters, and
  `nulterminate()` as a change of the line after it is parsed (`LineParsed`: the command
  is the grammar's, and every word of it is then a string of its own).
- `ShRun` is `runcmd()` and `main()` as processes with descriptors, and init's loop
  (`LineRuns`): five slots, the lines `a < h | b | c` and `(d & ; e > f) | g`, one fork
  that may fail, and a `pipe()` that may fail.
- `Grep`: every expression and text up to four characters, with a buffer of four
  (`GrepPrints`, against a reference definition). `read()` may fail.
- `Malloc`: a heap of eight units, requests of 2 to 4 (`HeapDivided`).
- `Vm`: eleven pages, two levels of page tables, sizes up to 12, and memory that runs
  out anywhere (`PagesOwned`).

### live: what must happen

| Property | Claim | Fairness, and why |
|---|---|---|
| `WaitersServed` | `begin_op()` is woken; `virtio_disk_rw()` and `sys_sleep()` return | Operations reach `end_op()`, and commit and recovery end: straight-line code that waits only for locks. Handler and device: weak. A woken thread: strong for `vdisk_lock`, which the handler takes again and again; it rests on the swap of `acquire()` not starving a hart for ever. RR reaches every process: strong. |
| `KilledExits` | a killed process that is not inside a system call exits, also if it never calls the kernel; inside one it exits, or goes to sleep in it | The timer interrupts a program again and again, interrupts leave the kernel time for its own steps, and RR reaches every RUNNABLE process: strong; the rest weak. Nothing is assumed about sleeping processes: `kill()` wakes one that sleeps, and one that goes to sleep afterwards may sleep for ever. |
| `ByteSent` | a byte in the uart's buffer is sent | The device drains: weak. A lock that is free again and again is got: strong. |
| `CallsEnd` | a command line ends; `malloc()` and `free()` leave their loops | Processes run, and programs at the end of their input exit: weak. Nobody has to type. |

A sleeper in `begin_op()` is only shown to be woken, and a thread that waits for disk
descriptors is not claimed to get them: others may be faster each time.

## Disagreements

Three have a run that must find the violation:

- `proc_kill` (`KillNamesPid`): `kill(0)` matches an UNUSED slot, whose pid is 0, and
  `allocproc()` does not clear `killed`.
- `log_full` (`NeverExhausted`): `begin_op()` hands out `LOGSIZE` blocks, but
  `log_write()` panics at `log.size - 1`. Operations write `MAXOPBLOCKS` blocks there;
  whether the calls in `sysfile.c` can write that many is not modelled.
- `fcfs_lock` (`HoldsLock`): FCFS switches to a process while it holds another slot's
  lock.

The others are stated at the ends of their modules. TLC finds each violated when the
module is checked alone with the constants of its run, except as noted:

| Property | Module | The code, and what it says |
|---|---|---|
| `WaitingIsATime` | `Clock` | `proc.c:1088`: a child charged for the tick of its creation exits with a waiting time of -1, which `waitx()` returns as 4294967295; `user/time.c:25` prints it as a time. |
| `SelectsMinimum` | `Pbs`, one hart, `NPROC = 3`, `NewPriority = {50, 100}`, `MaxTicks = 2` | `proc.c:690` replaces the selection by any older process; `proc.c:640` says "processes with minimum dynamic priority". |
| `NicenessIsAShare` | `Pbs`, the same with `NPROC = 1`, `MaxTicks = 4` | `proc.c:650` subtracts a tick from totals, so niceness exceeds 10; `proc.h:125` calls it a percentage. |
| `RaiseReschedules` | `Pbs`, the same with `NPROC = 2`, `MaxTicks = 2` | `proc.c:1205` yields when the priority is lowered; `MODIFICATIONS.md:474` says when it "increases". |
| `IndexInQueues` | `Mlfq`, one hart | `proc.c:1158` increments `ticks_in_queues[-1]` of a running process. |
| `PushReadsEntries` | `Mlfq`, one hart | `proc.c:26` reads as many entries of every queue as one of them has. |
| `RunnableQueued` | `Mlfq`, two harts | `proc.c:35`: entries are stored and shifted without a lock, so a RUNNABLE process can be in no queue; `proc.c:815` says "INSERT BACK INTO QUEUE STRUCTURE". |
| `SizesHold` | `Mlfq`, two harts | `proc.c:72`: two harts remove the same entry, and `queue_size` becomes 2^32 - 1; `proc.c:46` reports "Queue is empty" instead. |
| `SelectsOldest` | `Fcfs` | `proc.c:616` compares with the slot of the outer loop and not with the selection so far; `MODIFICATIONS.md:203` says "lowest creation time". |
| `KilledSleepsNot` | `Console` | `console.c:96`: a reader killed after the test at `console.c:92` sleeps until the next line is typed. |
| `NoOrphan` | `Inode` | `fs.c:353`: an inode allocated again in the window of `iput()` is never freed; `fs.c:328` says it is. |
| `LockHasType` | `Names` | `fs.c:649`: `..` of a removed directory can name a freed inode; `fs.c:311` panics on it. |
| `NlinkExact` | `Names` | `sysfile.c:250`: `create()` in a directory removed meanwhile; `fs.h:36` counts links in the file system. |
| `ChangesLogged` | `FileData` | `fs.c:500`: bytes copied before `copyin()` fails stay in the cache, not logged; `bio.c:10` says changes are written. |
| `InitStays` | `ShRun`, `Slot = 1..4`, lines `(a ; b) &`, `(c ; d) &`, `e`, `MaxFail = 0` | `init.c:29`: init exits when fork fails; `proc.c:461` panics on it. |
| `AllArguments` | `Syscall` | `syscall.c:183` has the wrong counts for pipe, kill and fstat; `MODIFICATIONS.md:12`. |
| `ArgstrCountsNul` | `UserCopy` | `syscall.c:72` does not count the 0; `syscall.c:67` says it does. |

One disagreement is a property that holds: `OneQueue`, with `RunsOnce`, says that every
process waits in queue 0 and runs with `cqueue` -1, so the slice tests of `trap.c:86` and
`trap.c:179` compare with 2^31 and no process is ever preempted or moved.
`MODIFICATIONS.md:607` says that MLFQ "allows processes to move between different priority
queues".

## What is proved

Every theorem holds for all values of the constants that satisfy the named
assumptions. Bounds like `MaxPid` are constants too: they may be any number.

| Theorem | Statement |
|---|---|
| `TypeCorrect`, `StackSafety`, `SchedSafety`, `WakeupSafety`, `SleeperSafety`, `TreeSafety`, `PidSafety`, `ReapSafety` (`ProcProofs`) | the eight properties of the run `proc` |
| `LogSafety`, `LogAtomic`, `LogSpaceSuffices` (`LogProofs`) | `LogConsistent`; the log implements `AtomicDisk`; no panic of `log_write()` (`NeverExhausted`) if the sizes fit |
| `CacheSafety` (`BufCacheProofs`) | `CacheCoherent` |
| `PipeSafety`, `PipeFifo` (`PipeProofs`) | `NotStranded`; the pipe implements `Fifo` |
| `PbsSafety` (`PbsProofs`) | `SafeSelection` |
| `TrapSafety` (`TrapProofs`) | `TrapsReturn` |

**Process table.** Assumed: `NPROC` is positive, `NoCpu` is not a hart, the bounds are
numbers. The properties are not inductive: `IInv` adds where each state can be
(`StateInv`), which thread holds which lock (`LockInv`), that a slot being forked belongs
to one thread (`ForkInv`), and what `exit()` and `wait()` have established at each
position of their loops (`ExitInv`, `WaitInv`). One lemma per conjunct, by cases on the
action: `ProcLocks` has those about states, harts, locks, locals and pids, `ProcProofs`
those about fork, the tree, exit and wait, and the theorems. `KillNamesPid`, which the
code violates, is not among them.

**Log.** Assumed: finitely many threads, `MAXOPBLOCKS <= LOGSIZE`, and the sizes of
`LogAssumption`. `IInv` says that `outstanding` counts the active operations, that a
committer is alone (`CommitInv`), how far `commit()` and recovery have come (`PhaseInv`,
`RecoverInv`) and which blocks are pinned (`PinInv`). `LogOps` has the lemmas about
operations and sleepers, `LogProofs` those about blocks. In the refinement
`write_head()` is the commit, operations and the crash are steps of `AtomicDisk`, and the
other block writes are stutters. `LogSpaceSuffices` adds `SpaceInv`: the transaction and
what the active operations have reserved and not yet written fit in the log.

**Buffer cache.** Assumed: finitely many threads and at least one buffer. `IInv` says
that `refcnt` is the number of threads with the buffer plus its pin (`RefInv`), that a
thread's buffer is the one of its block (`NameInv`), who holds the sleep locks
(`LockInv`), and that valid buffers and unpinned disk blocks have the last value
(`DataInv`). `NeverOutOfBuffers` is a count: were every buffer referenced, threads and
pins would be as many as buffers.

**Pipe.** Assumed: `UINT > PIPESIZE`, and `PIPESIZE` divides `UINT` (512 divides 2^32),
without which the ring breaks when a counter wraps. `IInv` says who is inside
`pi->lock`, who still has an end open (`OpenInv`), that what a process found before
`sleep()` still holds (`SleepInv`, `WriterInv`, `CopyInv`), and that at most `PIPESIZE`
bytes are between the counters (`RingInv`). The refinement maps the ring from `nread` to
`nwrite` to the queue; lemmas on `%` show that a step of a counter appends or removes
one byte.

**PBS.** Assumed: at least one slot, and `UINT > 220` (the code's is 2^32).
`SafeSelection` is nearly inductive; `IInv` adds the types of the records, that times are
not later than `ticks`, and that a hart that runs has a slot.
`PriorityRange` shows that the dynamic priority stays in 0..100 whatever the unsigned
quotient of the times is.

**Traps.** Assumed: `Nobody` is neither a hart nor a process. `IInv` says where a
process on a hart can be and what the hart's registers hold there (`Control`,
`Registers`), what `kerneltrap()` has on its stack (`Saved`), that the trap frame has the
place to return to (`Goal`), that a process is on one hart (`Alone`), and that one that
is on none is inside `sched()` (`Waiting`). Which processes are asleep (`asleep`) matters
to liveness only, and the proof needs no more than its type, `AsleepOK`. `IInv` is stated
over the records of one hart and one process, so that one lemma, `StepOn`, lifts a step of
a process on its hart to the whole system, and each action only has to relate its two new
records. TLC checks this `IInv` on two harts and two processes (726384 states).

## What is only model-checked

- Liveness: the provers installed do not reason about fairness.
- `Grep`, `ShParse` and `ShRun` use RECURSIVE definitions, and `SpinLock` keeps
  the rest of a thread's code as a sequence built by concatenation and recursion; what
  these compute needs induction over data.
- `VirtioDisk`, `Uart`, `Console`, `Clock`, `Fcfs`, `Mlfq`, `Inode`, `Names`, `Files`,
  `FileData`, `Vm`, `Malloc`, `Syscall` and `UserCopy` have no proofs yet.

## What is not modelled

Boot code, assembly and the PLIC, `printf.c` and `string.c`, mkfs and the other user
programs: hardware set-up, formatting, or clients, whose calls the models let any process
make. Inside the modelled parts: `exec()`'s new program counter in `Trap`; the
`panicked` flag in `Uart`; `cd` and the opening of the console in the shell; requests near
the width of `uint` in `malloc()`; a disk that runs out of blocks and a failed transfer
(panics); the set-up of the virtio device; the kernel's own page table; the exit status.
