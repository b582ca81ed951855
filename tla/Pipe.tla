-------------------------------- MODULE Pipe --------------------------------
(***************************************************************************)
(* A pipe of kernel/pipe.c with several processes at each end.  A step is  *)
(* one byte, or one decision, under pi->lock; kill() comes at any moment,  *)
(* as it takes only the victim's p->lock.  wakeup() and the switch to      *)
(* SLEEPING are atomic (see Proc), but the test of p->killed is not part   *)
(* of that switch.  Each process holds a reference to its end's struct     *)
(* file, and the last one to drop it calls pipeclose().                    *)
(***************************************************************************)
EXTENDS Integers, Sequences

CONSTANTS
    Writer, Reader,  \* the processes with the write end, with the read end
    NoThread,        \* holder of a free pi->lock
    Byte,            \* what a byte can be
    PIPESIZE,
    UINT,            \* nread and nwrite are counted modulo UINT (2^32)
    MaxN             \* bound: bytes asked for in one call

ASSUME PipeAssumption ==
    /\ PIPESIZE \in Nat \ {0} /\ UINT \in Nat /\ MaxN \in Nat
    /\ UINT > PIPESIZE /\ UINT % PIPESIZE = 0
    /\ NoThread \notin Writer \cup Reader /\ Writer \cap Reader = {}

Thread == Writer \cup Reader

VARIABLES
    data, nread, nwrite, readopen, writeopen, lock,  \* struct pipe
    freed,   \* kfree() has been called
    holds,   \* threads with a reference to their end
    pc, left, killed,
    got      \* bytes a piperead() has taken

pipeVars == <<data, nread, nwrite, readopen, writeopen>>
vars == <<pipeVars, lock, freed, holds, pc, left, killed, got>>

\* pipealloc().
Init ==
    /\ data \in {[k \in 0 .. PIPESIZE - 1 |-> v] : v \in Byte}
    /\ nread = 0 /\ nwrite = 0
    /\ readopen = TRUE /\ writeopen = TRUE
    /\ lock = NoThread
    /\ freed = FALSE
    /\ holds = Thread
    /\ pc = [t \in Thread |-> "user"]
    /\ left = [t \in Thread |-> 0]
    /\ killed = [t \in Thread |-> FALSE]
    /\ got = [t \in Thread |-> 0]

\* Mutant: the sum is wider than the counters, and never equal to one that wrapped.
FullWide == nwrite = nread + PIPESIZE
Full == nwrite = (nread + PIPESIZE) % UINT
Empty == nread = nwrite
Asleep(s) == {t \in s : pc[t] = "asleep"}

Goto(t, l) == pc' = [pc EXCEPT ![t] = l]

\* release(&pi->lock) and return: the locals of the call are gone.
Return(t) ==
    /\ lock' = NoThread
    /\ left' = [left EXCEPT ![t] = 0]
    /\ got' = [got EXCEPT ![t] = 0]
    /\ UNCHANGED <<freed, holds, killed>>

\* t goes on at l after a wakeup() of the sleepers of one end.
WakeAndGoto(t, l, end) ==
    pc' = [u \in Thread |-> IF u = t THEN l ELSE IF u \in Asleep(end) THEN "woken" ELSE pc[u]]

-----------------------------------------------------------------------------
(* The parts pipewrite() and piperead() share. *)

\* acquire(&pi->lock) at the start of a call for n bytes.
Enter(t, n) ==
    /\ pc[t] = "user" /\ t \in holds /\ ~killed[t]
    /\ lock = NoThread
    /\ lock' = t
    /\ left' = [left EXCEPT ![t] = n]
    /\ Goto(t, "loop")
    /\ UNCHANGED <<pipeVars, freed, holds, killed, got>>

\* sleep(): p->lock is taken, pi->lock dropped.
Sleep(t) ==
    /\ pc[t] = "sleep"
    /\ lock' = NoThread
    /\ Goto(t, "asleep")
    /\ UNCHANGED <<pipeVars, freed, holds, left, killed, got>>

\* The end of sleep(): pi->lock is taken again.
Woken(t) ==
    /\ pc[t] = "woken"
    /\ lock = NoThread
    /\ lock' = t
    /\ Goto(t, "loop")
    /\ UNCHANGED <<pipeVars, freed, holds, left, killed, got>>

-----------------------------------------------------------------------------
(* pipewrite(). *)

\* No reader is left, or the writer was killed: -1, without wakeup().
WriteFail(w) ==
    /\ pc[w] = "loop" /\ left[w] > 0
    /\ ~readopen \/ killed[w]
    /\ Goto(w, "user")
    /\ Return(w)
    /\ UNCHANGED pipeVars

\* The pipe is full: wake up the readers, then sleep.
WriteFull(w) ==
    /\ pc[w] = "loop" /\ left[w] > 0
    /\ readopen /\ ~killed[w]
    /\ Full
    /\ WakeAndGoto(w, "sleep", Reader)
    /\ UNCHANGED <<pipeVars, lock, freed, holds, left, killed, got>>

WriteByte(w, v) ==
    /\ pc[w] = "loop" /\ left[w] > 0
    /\ readopen /\ ~killed[w]
    /\ ~Full
    /\ data' = [data EXCEPT ![nwrite % PIPESIZE] = v]
    /\ nwrite' = (nwrite + 1) % UINT
    /\ left' = [left EXCEPT ![w] = @ - 1]
    /\ UNCHANGED <<nread, readopen, writeopen, lock, freed, holds, pc, killed, got>>

\* Mutant: return without wakeup().
WriteDoneSilent(w) ==
    /\ pc[w] = "loop"
    /\ left[w] = 0 \/ (readopen /\ ~killed[w] /\ ~Full)
    /\ Goto(w, "user")
    /\ Return(w)
    /\ UNCHANGED pipeVars

\* All is written, or copyin() failed: wake up the readers and return.
WriteDone(w) ==
    /\ pc[w] = "loop"
    /\ left[w] = 0 \/ (readopen /\ ~killed[w] /\ ~Full)
    /\ WakeAndGoto(w, "user", Reader)
    /\ Return(w)
    /\ UNCHANGED pipeVars

-----------------------------------------------------------------------------
(* piperead(). *)

\* Nothing to read yet, and the reader was killed: -1.
ReadFail(r) ==
    /\ pc[r] = "loop"
    /\ Empty /\ writeopen /\ killed[r]
    /\ Goto(r, "user")
    /\ Return(r)
    /\ UNCHANGED pipeVars

\* Nothing to read yet: sleep.
ReadEmpty(r) ==
    /\ pc[r] = "loop"
    /\ Empty /\ writeopen /\ ~killed[r]
    /\ Goto(r, "sleep")
    /\ UNCHANGED <<pipeVars, lock, freed, holds, left, killed, got>>

\* The wait is over: go on to the copy.
ReadReady(r) ==
    /\ pc[r] = "loop"
    /\ ~Empty \/ ~writeopen
    /\ Goto(r, "copy")
    /\ UNCHANGED <<pipeVars, lock, freed, holds, left, killed, got>>

\* One byte leaves the pipe; if copyout() fails it is lost and the loop ends.
ReadByte(r) ==
    /\ pc[r] = "copy" /\ left[r] > 0
    /\ ~Empty
    /\ nread' = (nread + 1) % UINT
    /\ \/ /\ got' = [got EXCEPT ![r] = @ + 1]
          /\ left' = [left EXCEPT ![r] = @ - 1]
       \/ /\ left' = [left EXCEPT ![r] = 0]
          /\ UNCHANGED got
    /\ UNCHANGED <<data, nwrite, readopen, writeopen, lock, freed, holds, pc, killed>>

\* The copy is over: wake up the writers and return.
ReadDone(r) ==
    /\ pc[r] = "copy"
    /\ left[r] = 0 \/ Empty
    /\ WakeAndGoto(r, "user", Writer)
    /\ Return(r)
    /\ UNCHANGED pipeVars

-----------------------------------------------------------------------------
(* Closing and kill(). *)

\* fileclose(), by close() or exit(): the last reference goes on to pipeclose().
CloseFile(t) ==
    /\ pc[t] = "user" /\ t \in holds
    /\ holds' = holds \ {t}
    /\ Goto(t, IF (IF t \in Writer THEN Writer ELSE Reader) \cap holds' = {}
               THEN "close" ELSE "user")
    /\ UNCHANGED <<pipeVars, lock, freed, left, killed, got>>

\* pipeclose(): mark the end as closed, wake up the other end, free the pipe when
\* both are closed.
PipeClose(t) ==
    /\ pc[t] = "close"
    /\ lock = NoThread
    /\ IF t \in Writer
       THEN writeopen' = FALSE /\ UNCHANGED readopen /\ WakeAndGoto(t, "user", Reader)
       ELSE readopen' = FALSE /\ UNCHANGED writeopen /\ WakeAndGoto(t, "user", Writer)
    /\ freed' = ~(readopen' \/ writeopen')
    /\ UNCHANGED <<data, nread, nwrite, lock, holds, left, killed, got>>

\* kill() by some other process: a sleeper is woken.
Kill(t) ==
    /\ ~killed[t]
    /\ killed' = [killed EXCEPT ![t] = TRUE]
    /\ pc' = [pc EXCEPT ![t] = IF @ = "asleep" THEN "woken" ELSE @]
    /\ UNCHANGED <<pipeVars, lock, freed, holds, left, got>>

-----------------------------------------------------------------------------

ThreadStep(t) ==
    \/ \E n \in 0 .. MaxN : Enter(t, n)
    \/ Sleep(t) \/ Woken(t) \/ CloseFile(t) \/ PipeClose(t) \/ Kill(t)

WriteStep(w) == WriteFail(w) \/ WriteFull(w) \/ WriteDone(w) \/ \E v \in Byte : WriteByte(w, v)

ReadStep(r) == ReadFail(r) \/ ReadEmpty(r) \/ ReadReady(r) \/ ReadByte(r) \/ ReadDone(r)

Next ==
    \/ \E t \in Thread : ThreadStep(t)
    \/ \E w \in Writer : WriteStep(w)
    \/ \E r \in Reader : ReadStep(r)

Spec == Init /\ [][Next]_vars

-----------------------------------------------------------------------------
(* Properties. *)

TypeOK ==
    /\ data \in [0 .. PIPESIZE - 1 -> Byte]
    /\ nread \in 0 .. UINT - 1 /\ nwrite \in 0 .. UINT - 1
    /\ readopen \in BOOLEAN /\ writeopen \in BOOLEAN
    /\ lock \in Thread \cup {NoThread}
    /\ freed \in BOOLEAN
    /\ holds \subseteq Thread
    /\ pc \in [Thread -> {"user", "loop", "copy", "sleep", "asleep", "woken", "close"}]
    /\ left \in [Thread -> Nat]
    /\ killed \in [Thread -> BOOLEAN]
    /\ got \in [Thread -> Nat]

\* A reader sleeps only while there is nothing for it, or somebody holds pi->lock
\* who has yet to wake it up.  The exception is pipewrite()'s early return: a writer
\* killed after it has stored bytes leaves without wakeup(&pi->nread), and the reader
\* can then sleep on, with bytes in the pipe, at most until the last writer closes.
ReaderNotStranded ==
    Asleep(Reader) # {} =>
        \/ Empty /\ writeopen
        \/ lock \in Writer
        \/ writeopen /\ \E w \in Writer : killed[w]

\* A writer sleeps only while the pipe is full and has a reader, or a reader that
\* holds pi->lock has yet to wake it up.
WriterNotStranded ==
    Asleep(Writer) # {} => (Full /\ readopen) \/ lock \in Reader

\* Nobody is inside pipewrite(), piperead() or pipeclose() once the pipe is freed.
NoUseAfterFree == freed => \A t \in Thread : pc[t] = "user" /\ t \notin holds

\* Unless copyout() failed, piperead() returns 0 to a reader that asked for bytes only
\* at end of file: the pipe is empty and every writer has closed it.
ZeroMeansEnd ==
    \A r \in Reader :
        pc[r] = "copy" /\ pc'[r] = "user" /\ left[r] > 0 /\ got[r] = 0 => Empty /\ ~writeopen
ZeroIsEndOfFile == [][ZeroMeansEnd]_vars

\* Nobody sleeps at a pipe that has what it waits for, and nobody uses a freed pipe.
NotStranded == TypeOK /\ ReaderNotStranded /\ WriterNotStranded /\ NoUseAfterFree

\* The ring buffer is a FIFO queue of at most PIPESIZE bytes, also when the counters
\* wrap around (the bytes between nread and nwrite are the queue), and piperead()
\* returns 0 only at the end of the file.
Queue == [k \in 1 .. (nwrite - nread) % UINT |-> data[((nread + k - 1) % UINT) % PIPESIZE]]
Ring == INSTANCE Fifo WITH Capacity <- PIPESIZE, queue <- Queue
FirstInFirstOut == Ring!Spec /\ ZeroIsEndOfFile
=============================================================================
