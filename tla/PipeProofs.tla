----------------------------- MODULE PipeProofs -----------------------------
(***************************************************************************)
(* Proofs about Pipe, for any number of processes at its two ends, any     *)
(* buffer size and any width of the counters: nobody sleeps at the pipe    *)
(* without a reason, nobody uses it after kfree(), and it is a FIFO queue. *)
(***************************************************************************)
EXTENDS Pipe, TLAPS, SequenceTheorems

\* The processes on t's side of the pipe.
End(t) == IF t \in Writer THEN Writer ELSE Reader

\* The parts of TypeOK that the steps change together.
RingOK ==
    /\ data \in [0 .. PIPESIZE - 1 -> Byte]
    /\ nread \in 0 .. UINT - 1 /\ nwrite \in 0 .. UINT - 1
OpenOK == readopen \in BOOLEAN /\ writeopen \in BOOLEAN /\ freed \in BOOLEAN
LocalsOK ==
    /\ left \in [Thread -> Nat]
    /\ killed \in [Thread -> BOOLEAN]
    /\ got \in [Thread -> Nat]
CtlOK ==
    /\ lock \in Thread \cup {NoThread}
    /\ holds \subseteq Thread
    /\ pc \in [Thread -> {"user", "loop", "copy", "sleep", "asleep", "woken", "close"}]

\* A process is between its acquire() and its release(), or on its way into sleep(),
\* exactly when it holds pi->lock; only piperead() copies.
LockInv ==
    /\ \A t \in Thread : pc[t] \in {"loop", "copy", "sleep"} <=> lock = t
    /\ \A w \in Writer : pc[w] # "copy"

\* Whoever is inside a call has the file open; the last one to drop its reference, and
\* nobody else, closes the end; and a closed end has neither users nor closers left.
OpenInv ==
    /\ \A t \in Thread : pc[t] \in {"loop", "copy", "sleep", "asleep", "woken"} => t \in holds
    /\ \A t \in Thread : pc[t] = "close" =>
          End(t) \cap holds = {} /\ \A u \in End(t) : pc[u] = "close" => u = t
    /\ ~writeopen => Writer \cap holds = {} /\ \A w \in Writer : pc[w] # "close"
    /\ ~readopen => Reader \cap holds = {} /\ \A r \in Reader : pc[r] # "close"
    /\ freed => ~readopen /\ ~writeopen

\* What a process found when it decided to sleep still holds when it does, because it has
\* pi->lock; a writer has woken up the readers before.
SleepInv ==
    /\ \A w \in Writer : pc[w] = "sleep" => Full /\ readopen /\ Asleep(Reader) = {}
    /\ \A r \in Reader : pc[r] = "sleep" => Empty /\ writeopen

\* A writer sleeps only while the pipe is full and has a reader, or a reader is copying.
WriterInv ==
    Asleep(Writer) # {} => (Full /\ readopen) \/ \E r \in Reader : pc[r] = "copy"

\* A reader that has not taken a byte yet has one to take, or is at the end of the file.
CopyInv ==
    \A r \in Reader : pc[r] = "copy" /\ left[r] > 0 /\ got[r] = 0 => ~Empty \/ ~writeopen

\* No more than PIPESIZE bytes are between nread and nwrite.
RingInv == (nwrite - nread) % UINT <= PIPESIZE

\* The inductive invariant.
IInv ==
    /\ RingOK /\ OpenOK /\ LocalsOK /\ CtlOK
    /\ LockInv /\ OpenInv /\ SleepInv /\ WriterInv /\ ReaderNotStranded /\ CopyInv /\ RingInv

-----------------------------------------------------------------------------
(* Types. *)

LEMMA Sides ==
    /\ Writer \subseteq Thread /\ Reader \subseteq Thread /\ Writer \cap Reader = {}
    /\ NoThread \notin Thread
    /\ \A t \in Thread : t \in Writer \/ t \in Reader
BY PipeAssumption DEF Thread

LEMMA TypeParts == RingOK /\ OpenOK /\ LocalsOK /\ CtlOK <=> TypeOK
BY DEF RingOK, OpenOK, LocalsOK, CtlOK, TypeOK

\* Only a byte that is written or read moves the counters, which stay below UINT.
LEMMA RingTypes == ASSUME IInv, Next PROVE RingOK'
<1>1. ASSUME NEW w \in Writer, NEW v \in Byte, WriteByte(w, v) PROVE RingOK'
  BY <1>1, PipeAssumption DEF WriteByte, RingOK, IInv
<1>2. ASSUME NEW r \in Reader, ReadByte(r) PROVE RingOK'
  BY <1>2, PipeAssumption DEF ReadByte, RingOK, IInv
<1>3. ASSUME UNCHANGED <<data, nread, nwrite>> PROVE RingOK'
  BY <1>3 DEF RingOK, IInv
<1> QED
  BY <1>1, <1>2, <1>3 DEF Next, ThreadStep, WriteStep, ReadStep, pipeVars, Enter, Sleep, Woken,
     CloseFile, PipeClose, Kill, WriteFail, WriteFull, WriteDone, ReadFail, ReadEmpty, ReadReady,
     ReadDone

\* Only pipeclose() changes the flags.
LEMMA OpenTypes == ASSUME IInv, Next PROVE OpenOK'
<1>1. ASSUME NEW t \in Thread, PipeClose(t) PROVE OpenOK'
  BY <1>1 DEF PipeClose, OpenOK, IInv
<1>2. ASSUME UNCHANGED <<readopen, writeopen, freed>> PROVE OpenOK'
  BY <1>2 DEF OpenOK, IInv
<1> QED
  BY <1>1, <1>2 DEF Next, ThreadStep, WriteStep, ReadStep, pipeVars, Enter, Sleep, Woken,
     CloseFile, Kill, WriteFail, WriteFull, WriteDone, ReadFail, ReadEmpty, ReadReady,
     ReadDone, WriteByte, ReadByte,
     Return

\* The locals of the calls keep their types.
LEMMA LocalsTypes == ASSUME IInv, Next PROVE LocalsOK'
<1> USE Sides
<1>1. ASSUME NEW t \in Thread, NEW n \in 0 .. MaxN, Enter(t, n) PROVE LocalsOK'
  BY <1>1, PipeAssumption DEF Enter, LocalsOK, IInv
<1>2. ASSUME NEW t \in Thread, Kill(t) PROVE LocalsOK'
  BY <1>2 DEF Kill, LocalsOK, IInv
<1>3. ASSUME NEW w \in Writer, NEW v \in Byte, WriteByte(w, v) PROVE LocalsOK'
  BY <1>3 DEF WriteByte, LocalsOK, IInv
<1>4. ASSUME NEW r \in Reader, ReadByte(r) PROVE LocalsOK'
  BY <1>4 DEF ReadByte, LocalsOK, IInv
<1>5. ASSUME NEW t \in Thread, Return(t) PROVE LocalsOK'
  BY <1>5 DEF Return, LocalsOK, IInv
<1>6. ASSUME UNCHANGED <<left, killed, got>> PROVE LocalsOK'
  BY <1>6 DEF LocalsOK, IInv
<1> QED
  BY <1>1, <1>2, <1>3, <1>4, <1>5, <1>6 DEF Next, ThreadStep, WriteStep, ReadStep, Sleep, Woken,
     CloseFile, PipeClose, WriteFail, WriteFull, WriteDone, ReadFail, ReadEmpty, ReadReady, ReadDone

\* The positions of the processes keep their types.
LEMMA CtlTypes == ASSUME IInv, Next PROVE CtlOK'
<1>1. ASSUME NEW t \in Thread, NEW n \in 0 .. MaxN, Enter(t, n) PROVE CtlOK'
  BY <1>1, Sides DEF Enter, Goto, CtlOK, IInv
<1>2. ASSUME NEW t \in Thread, Sleep(t) PROVE CtlOK'
  BY <1>2, Sides DEF Sleep, Goto, CtlOK, IInv
<1>3. ASSUME NEW t \in Thread, Woken(t) PROVE CtlOK'
  BY <1>3, Sides DEF Woken, Goto, CtlOK, IInv
<1>4. ASSUME NEW t \in Thread, CloseFile(t) PROVE CtlOK'
  BY <1>4, Sides DEF CloseFile, Goto, CtlOK, IInv
<1>5. ASSUME NEW t \in Thread, PipeClose(t) PROVE CtlOK'
  BY <1>5, Sides DEF PipeClose, WakeAndGoto, CtlOK, IInv
<1>6. ASSUME NEW t \in Thread, Kill(t) PROVE CtlOK'
  BY <1>6, Sides DEF Kill, Goto, CtlOK, IInv
<1>7. ASSUME NEW w \in Writer, WriteFail(w) PROVE CtlOK'
  BY <1>7, Sides DEF WriteFail, Return, Goto, CtlOK, IInv
<1>8. ASSUME NEW w \in Writer, WriteFull(w) PROVE CtlOK'
  BY <1>8, Sides DEF WriteFull, WakeAndGoto, CtlOK, IInv
<1>9. ASSUME NEW w \in Writer, WriteDone(w) PROVE CtlOK'
  BY <1>9, Sides DEF WriteDone, Return, WakeAndGoto, CtlOK, IInv
<1>10. ASSUME NEW w \in Writer, NEW v \in Byte, WriteByte(w, v) PROVE CtlOK'
  BY <1>10, Sides DEF WriteByte, Goto, CtlOK, IInv
<1>11. ASSUME NEW r \in Reader, ReadFail(r) PROVE CtlOK'
  BY <1>11, Sides DEF ReadFail, Return, Goto, CtlOK, IInv
<1>12. ASSUME NEW r \in Reader, ReadEmpty(r) PROVE CtlOK'
  BY <1>12, Sides DEF ReadEmpty, Goto, CtlOK, IInv
<1>13. ASSUME NEW r \in Reader, ReadReady(r) PROVE CtlOK'
  BY <1>13, Sides DEF ReadReady, Goto, CtlOK, IInv
<1>14. ASSUME NEW r \in Reader, ReadByte(r) PROVE CtlOK'
  BY <1>14, Sides DEF ReadByte, Goto, CtlOK, IInv
<1>15. ASSUME NEW r \in Reader, ReadDone(r) PROVE CtlOK'
  BY <1>15, Sides DEF ReadDone, Return, WakeAndGoto, CtlOK, IInv
<1> QED
  BY <1>1, <1>2, <1>3, <1>4, <1>5, <1>6, <1>7, <1>8, <1>9, <1>10, <1>11, <1>12, <1>13, <1>14, <1>15
     DEF Next, ThreadStep, WriteStep, ReadStep

-----------------------------------------------------------------------------
(* Locks, references and sleepers. *)

\* pi->lock is held by the process that is between acquire() and release().
LEMMA LockStep == ASSUME IInv, Next PROVE LockInv'
<1> USE Sides DEF IInv, CtlOK, LockInv, Asleep
<1>1. ASSUME NEW t \in Thread, NEW n \in 0 .. MaxN, Enter(t, n) PROVE LockInv'
  BY <1>1 DEF Enter, Goto, pipeVars
<1>2. ASSUME NEW t \in Thread, Sleep(t) PROVE LockInv'
  BY <1>2 DEF Sleep, Goto, pipeVars
<1>3. ASSUME NEW t \in Thread, Woken(t) PROVE LockInv'
  BY <1>3 DEF Woken, Goto, pipeVars
<1>4. ASSUME NEW t \in Thread, CloseFile(t) PROVE LockInv'
  BY <1>4 DEF CloseFile, Goto, pipeVars
<1>5. ASSUME NEW t \in Thread, PipeClose(t) PROVE LockInv'
  BY <1>5 DEF PipeClose, WakeAndGoto
<1>6. ASSUME NEW t \in Thread, Kill(t) PROVE LockInv'
  BY <1>6 DEF Kill, pipeVars
<1>7. ASSUME NEW w \in Writer, WriteFail(w) PROVE LockInv'
  BY <1>7 DEF WriteFail, Return, Goto, pipeVars
<1>8. ASSUME NEW w \in Writer, WriteFull(w) PROVE LockInv'
  BY <1>8 DEF WriteFull, WakeAndGoto, pipeVars
<1>9. ASSUME NEW w \in Writer, WriteDone(w) PROVE LockInv'
  BY <1>9 DEF WriteDone, Return, WakeAndGoto, pipeVars
<1>10. ASSUME NEW w \in Writer, NEW v \in Byte, WriteByte(w, v) PROVE LockInv'
  BY <1>10 DEF WriteByte
<1>11. ASSUME NEW r \in Reader, ReadFail(r) PROVE LockInv'
  BY <1>11 DEF ReadFail, Return, Goto, pipeVars
<1>12. ASSUME NEW r \in Reader, ReadEmpty(r) PROVE LockInv'
  BY <1>12 DEF ReadEmpty, Goto, pipeVars
<1>13. ASSUME NEW r \in Reader, ReadReady(r) PROVE LockInv'
  BY <1>13 DEF ReadReady, Goto, pipeVars
<1>14. ASSUME NEW r \in Reader, ReadByte(r) PROVE LockInv'
  BY <1>14 DEF ReadByte
<1>15. ASSUME NEW r \in Reader, ReadDone(r) PROVE LockInv'
  BY <1>15 DEF ReadDone, Return, WakeAndGoto, pipeVars
<1> QED
  BY <1>1, <1>2, <1>3, <1>4, <1>5, <1>6, <1>7, <1>8, <1>9, <1>10, <1>11, <1>12, <1>13, <1>14, <1>15
     DEF Next, ThreadStep, WriteStep, ReadStep

\* An end is closed once, by the last process that had it open.
LEMMA OpenStep == ASSUME IInv, Next PROVE OpenInv'
<1> USE Sides DEF IInv, CtlOK, OpenOK, LockInv, OpenInv, End, Asleep
<1>1. ASSUME NEW t \in Thread, NEW n \in 0 .. MaxN, Enter(t, n) PROVE OpenInv'
  BY <1>1 DEF Enter, Goto, pipeVars
<1>2. ASSUME NEW t \in Thread, Sleep(t) PROVE OpenInv'
  BY <1>2 DEF Sleep, Goto, pipeVars
<1>3. ASSUME NEW t \in Thread, Woken(t) PROVE OpenInv'
  BY <1>3 DEF Woken, Goto, pipeVars
<1>4. ASSUME NEW t \in Thread, CloseFile(t) PROVE OpenInv'
  BY <1>4 DEF CloseFile, Goto, pipeVars
<1>5. ASSUME NEW t \in Thread, PipeClose(t) PROVE OpenInv'
  BY <1>5 DEF PipeClose, WakeAndGoto
<1>6. ASSUME NEW t \in Thread, Kill(t) PROVE OpenInv'
  BY <1>6 DEF Kill, pipeVars
<1>7. ASSUME NEW w \in Writer, WriteFail(w) PROVE OpenInv'
  BY <1>7 DEF WriteFail, Return, Goto, pipeVars
<1>8. ASSUME NEW w \in Writer, WriteFull(w) PROVE OpenInv'
  BY <1>8 DEF WriteFull, WakeAndGoto, pipeVars
<1>9. ASSUME NEW w \in Writer, WriteDone(w) PROVE OpenInv'
  BY <1>9 DEF WriteDone, Return, WakeAndGoto, pipeVars
<1>10. ASSUME NEW w \in Writer, NEW v \in Byte, WriteByte(w, v) PROVE OpenInv'
  BY <1>10 DEF WriteByte
<1>11. ASSUME NEW r \in Reader, ReadFail(r) PROVE OpenInv'
  BY <1>11 DEF ReadFail, Return, Goto, pipeVars
<1>12. ASSUME NEW r \in Reader, ReadEmpty(r) PROVE OpenInv'
  BY <1>12 DEF ReadEmpty, Goto, pipeVars
<1>13. ASSUME NEW r \in Reader, ReadReady(r) PROVE OpenInv'
  BY <1>13 DEF ReadReady, Goto, pipeVars
<1>14. ASSUME NEW r \in Reader, ReadByte(r) PROVE OpenInv'
  BY <1>14 DEF ReadByte
<1>15. ASSUME NEW r \in Reader, ReadDone(r) PROVE OpenInv'
  BY <1>15 DEF ReadDone, Return, WakeAndGoto, pipeVars
<1> QED
  BY <1>1, <1>2, <1>3, <1>4, <1>5, <1>6, <1>7, <1>8, <1>9, <1>10, <1>11, <1>12, <1>13, <1>14, <1>15
     DEF Next, ThreadStep, WriteStep, ReadStep

\* The reason to sleep holds until the lock is dropped in sleep().
LEMMA SleepStep == ASSUME IInv, Next PROVE SleepInv'
<1> USE Sides DEF IInv, CtlOK, LockInv, SleepInv, Full, Empty, Asleep
<1>1. ASSUME NEW t \in Thread, NEW n \in 0 .. MaxN, Enter(t, n) PROVE SleepInv'
  BY <1>1 DEF Enter, Goto, pipeVars
<1>2. ASSUME NEW t \in Thread, Sleep(t) PROVE SleepInv'
  BY <1>2 DEF Sleep, Goto, pipeVars
<1>3. ASSUME NEW t \in Thread, Woken(t) PROVE SleepInv'
  BY <1>3 DEF Woken, Goto, pipeVars
<1>4. ASSUME NEW t \in Thread, CloseFile(t) PROVE SleepInv'
  BY <1>4 DEF CloseFile, Goto, pipeVars
<1>5. ASSUME NEW t \in Thread, PipeClose(t) PROVE SleepInv'
  BY <1>5 DEF PipeClose, WakeAndGoto
<1>6. ASSUME NEW t \in Thread, Kill(t) PROVE SleepInv'
  BY <1>6 DEF Kill, pipeVars
<1>7. ASSUME NEW w \in Writer, WriteFail(w) PROVE SleepInv'
  BY <1>7 DEF WriteFail, Return, Goto, pipeVars
<1>8. ASSUME NEW w \in Writer, WriteFull(w) PROVE SleepInv'
  BY <1>8 DEF WriteFull, WakeAndGoto, pipeVars
<1>9. ASSUME NEW w \in Writer, WriteDone(w) PROVE SleepInv'
  BY <1>9 DEF WriteDone, Return, WakeAndGoto, pipeVars
<1>10. ASSUME NEW w \in Writer, NEW v \in Byte, WriteByte(w, v) PROVE SleepInv'
  BY <1>10 DEF WriteByte
<1>11. ASSUME NEW r \in Reader, ReadFail(r) PROVE SleepInv'
  BY <1>11 DEF ReadFail, Return, Goto, pipeVars
<1>12. ASSUME NEW r \in Reader, ReadEmpty(r) PROVE SleepInv'
  BY <1>12 DEF ReadEmpty, Goto, pipeVars
<1>13. ASSUME NEW r \in Reader, ReadReady(r) PROVE SleepInv'
  BY <1>13 DEF ReadReady, Goto, pipeVars
<1>14. ASSUME NEW r \in Reader, ReadByte(r) PROVE SleepInv'
  BY <1>14 DEF ReadByte
<1>15. ASSUME NEW r \in Reader, ReadDone(r) PROVE SleepInv'
  BY <1>15 DEF ReadDone, Return, WakeAndGoto, pipeVars
<1> QED
  BY <1>1, <1>2, <1>3, <1>4, <1>5, <1>6, <1>7, <1>8, <1>9, <1>10, <1>11, <1>12, <1>13, <1>14, <1>15
     DEF Next, ThreadStep, WriteStep, ReadStep

\* piperead() makes room only where it goes on to wake up the writers.
LEMMA WriterStep == ASSUME IInv, Next PROVE WriterInv'
<1> USE Sides DEF IInv, CtlOK, LockInv, SleepInv, OpenInv, WriterInv, Full, Empty, Asleep
<1>1. ASSUME NEW t \in Thread, NEW n \in 0 .. MaxN, Enter(t, n) PROVE WriterInv'
  BY <1>1 DEF Enter, Goto, pipeVars
<1>2. ASSUME NEW t \in Thread, Sleep(t) PROVE WriterInv'
  BY <1>2 DEF Sleep, Goto, pipeVars
<1>3. ASSUME NEW t \in Thread, Woken(t) PROVE WriterInv'
  BY <1>3 DEF Woken, Goto, pipeVars
<1>4. ASSUME NEW t \in Thread, CloseFile(t) PROVE WriterInv'
  BY <1>4 DEF CloseFile, Goto, pipeVars
<1>5. ASSUME NEW t \in Thread, PipeClose(t) PROVE WriterInv'
  BY <1>5 DEF PipeClose, WakeAndGoto
<1>6. ASSUME NEW t \in Thread, Kill(t) PROVE WriterInv'
  BY <1>6 DEF Kill, pipeVars
<1>7. ASSUME NEW w \in Writer, WriteFail(w) PROVE WriterInv'
  BY <1>7 DEF WriteFail, Return, Goto, pipeVars
<1>8. ASSUME NEW w \in Writer, WriteFull(w) PROVE WriterInv'
  BY <1>8 DEF WriteFull, WakeAndGoto, pipeVars
<1>9. ASSUME NEW w \in Writer, WriteDone(w) PROVE WriterInv'
  BY <1>9 DEF WriteDone, Return, WakeAndGoto, pipeVars
<1>10. ASSUME NEW w \in Writer, NEW v \in Byte, WriteByte(w, v) PROVE WriterInv'
  BY <1>10 DEF WriteByte
<1>11. ASSUME NEW r \in Reader, ReadFail(r) PROVE WriterInv'
  BY <1>11 DEF ReadFail, Return, Goto, pipeVars
<1>12. ASSUME NEW r \in Reader, ReadEmpty(r) PROVE WriterInv'
  BY <1>12 DEF ReadEmpty, Goto, pipeVars
<1>13. ASSUME NEW r \in Reader, ReadReady(r) PROVE WriterInv'
  BY <1>13 DEF ReadReady, Goto, pipeVars
<1>14. ASSUME NEW r \in Reader, ReadByte(r) PROVE WriterInv'
  BY <1>14 DEF ReadByte
<1>15. ASSUME NEW r \in Reader, ReadDone(r) PROVE WriterInv'
  BY <1>15 DEF ReadDone, Return, WakeAndGoto, pipeVars
<1> QED
  BY <1>1, <1>2, <1>3, <1>4, <1>5, <1>6, <1>7, <1>8, <1>9, <1>10, <1>11, <1>12, <1>13, <1>14, <1>15
     DEF Next, ThreadStep, WriteStep, ReadStep

\* pipewrite() adds bytes only where it goes on to wake up the readers, or is killed.
LEMMA ReaderStep == ASSUME IInv, Next PROVE ReaderNotStranded'
<1> USE Sides DEF IInv, CtlOK, LockInv, SleepInv, OpenInv, ReaderNotStranded, Full, Empty, Asleep
<1>1. ASSUME NEW t \in Thread, NEW n \in 0 .. MaxN, Enter(t, n) PROVE ReaderNotStranded'
  BY <1>1 DEF Enter, Goto, pipeVars
<1>2. ASSUME NEW t \in Thread, Sleep(t) PROVE ReaderNotStranded'
  BY <1>2 DEF Sleep, Goto, pipeVars
<1>3. ASSUME NEW t \in Thread, Woken(t) PROVE ReaderNotStranded'
  BY <1>3 DEF Woken, Goto, pipeVars
<1>4. ASSUME NEW t \in Thread, CloseFile(t) PROVE ReaderNotStranded'
  BY <1>4 DEF CloseFile, Goto, pipeVars
<1>5. ASSUME NEW t \in Thread, PipeClose(t) PROVE ReaderNotStranded'
  BY <1>5 DEF PipeClose, WakeAndGoto
<1>6. ASSUME NEW t \in Thread, Kill(t) PROVE ReaderNotStranded'
  BY <1>6 DEF Kill, pipeVars
<1>7. ASSUME NEW w \in Writer, WriteFail(w) PROVE ReaderNotStranded'
  BY <1>7 DEF WriteFail, Return, Goto, pipeVars
<1>8. ASSUME NEW w \in Writer, WriteFull(w) PROVE ReaderNotStranded'
  BY <1>8 DEF WriteFull, WakeAndGoto, pipeVars
<1>9. ASSUME NEW w \in Writer, WriteDone(w) PROVE ReaderNotStranded'
  BY <1>9 DEF WriteDone, Return, WakeAndGoto, pipeVars
<1>10. ASSUME NEW w \in Writer, NEW v \in Byte, WriteByte(w, v) PROVE ReaderNotStranded'
  BY <1>10 DEF WriteByte
<1>11. ASSUME NEW r \in Reader, ReadFail(r) PROVE ReaderNotStranded'
  BY <1>11 DEF ReadFail, Return, Goto, pipeVars
<1>12. ASSUME NEW r \in Reader, ReadEmpty(r) PROVE ReaderNotStranded'
  BY <1>12 DEF ReadEmpty, Goto, pipeVars
<1>13. ASSUME NEW r \in Reader, ReadReady(r) PROVE ReaderNotStranded'
  BY <1>13 DEF ReadReady, Goto, pipeVars
<1>14. ASSUME NEW r \in Reader, ReadByte(r) PROVE ReaderNotStranded'
  BY <1>14 DEF ReadByte
<1>15. ASSUME NEW r \in Reader, ReadDone(r) PROVE ReaderNotStranded'
  BY <1>15 DEF ReadDone, Return, WakeAndGoto, pipeVars
<1> QED
  BY <1>1, <1>2, <1>3, <1>4, <1>5, <1>6, <1>7, <1>8, <1>9, <1>10, <1>11, <1>12, <1>13, <1>14, <1>15
     DEF Next, ThreadStep, WriteStep, ReadStep

\* A reader starts to copy only with a byte in the pipe or at the end of the file.
LEMMA CopyStep == ASSUME IInv, Next PROVE CopyInv'
<1> USE Sides DEF IInv, CtlOK, LocalsOK, LockInv, CopyInv, Empty, Asleep
<1>1. ASSUME NEW t \in Thread, NEW n \in 0 .. MaxN, Enter(t, n) PROVE CopyInv'
  BY <1>1 DEF Enter, Goto, pipeVars
<1>2. ASSUME NEW t \in Thread, Sleep(t) PROVE CopyInv'
  BY <1>2 DEF Sleep, Goto, pipeVars
<1>3. ASSUME NEW t \in Thread, Woken(t) PROVE CopyInv'
  BY <1>3 DEF Woken, Goto, pipeVars
<1>4. ASSUME NEW t \in Thread, CloseFile(t) PROVE CopyInv'
  BY <1>4 DEF CloseFile, Goto, pipeVars
<1>5. ASSUME NEW t \in Thread, PipeClose(t) PROVE CopyInv'
  BY <1>5 DEF PipeClose, WakeAndGoto
<1>6. ASSUME NEW t \in Thread, Kill(t) PROVE CopyInv'
  BY <1>6 DEF Kill, pipeVars
<1>7. ASSUME NEW w \in Writer, WriteFail(w) PROVE CopyInv'
  BY <1>7 DEF WriteFail, Return, Goto, pipeVars
<1>8. ASSUME NEW w \in Writer, WriteFull(w) PROVE CopyInv'
  BY <1>8 DEF WriteFull, WakeAndGoto, pipeVars
<1>9. ASSUME NEW w \in Writer, WriteDone(w) PROVE CopyInv'
  BY <1>9 DEF WriteDone, Return, WakeAndGoto, pipeVars
<1>10. ASSUME NEW w \in Writer, NEW v \in Byte, WriteByte(w, v) PROVE CopyInv'
  BY <1>10 DEF WriteByte
<1>11. ASSUME NEW r \in Reader, ReadFail(r) PROVE CopyInv'
  BY <1>11 DEF ReadFail, Return, Goto, pipeVars
<1>12. ASSUME NEW r \in Reader, ReadEmpty(r) PROVE CopyInv'
  BY <1>12 DEF ReadEmpty, Goto, pipeVars
<1>13. ASSUME NEW r \in Reader, ReadReady(r) PROVE CopyInv'
  BY <1>13 DEF ReadReady, Goto, pipeVars
<1>14. ASSUME NEW r \in Reader, ReadByte(r) PROVE CopyInv'
  BY <1>14 DEF ReadByte
<1>15. ASSUME NEW r \in Reader, ReadDone(r) PROVE CopyInv'
  BY <1>15 DEF ReadDone, Return, WakeAndGoto, pipeVars
<1> QED
  BY <1>1, <1>2, <1>3, <1>4, <1>5, <1>6, <1>7, <1>8, <1>9, <1>10, <1>11, <1>12, <1>13, <1>14, <1>15
     DEF Next, ThreadStep, WriteStep, ReadStep

-----------------------------------------------------------------------------
(* The ring. *)

\* Division with remainder, as % and \div do it.
LEMMA Division ==
    ASSUME NEW a \in Int, NEW n \in Nat \ {0}
    PROVE  a % n \in 0 .. n - 1 /\ a \div n \in Int /\ a = n * (a \div n) + (a % n)
OBVIOUS

LEMMA Remainder ==
    ASSUME NEW n \in Nat \ {0}, NEW q \in Int, NEW r \in 0 .. n - 1
    PROVE  (n * q + r) % n = r
OBVIOUS

\* Multiples of n do not change a remainder.
LEMMA ModShift ==
    ASSUME NEW n \in Nat \ {0}, NEW m \in Nat, m % n = 0, NEW a \in Int
    PROVE  (a + m) % n = a % n
<1>1. m \div n \in Int /\ m = n * (m \div n)
  BY Division
<1>2. a % n \in 0 .. n - 1 /\ a \div n \in Int /\ a = n * (a \div n) + (a % n)
  BY Division
<1>3. PICK p \in Int, q \in Int, r \in 0 .. n - 1 : m = n * q /\ a = n * p + r
  BY <1>1, <1>2
<1>4. a + m = n * (p + q) + r
  BY <1>3
<1> QED
  BY <1>3, <1>4, Remainder

\* Numbers less than n apart have different remainders.
LEMMA ModDistinct ==
    ASSUME NEW n \in Nat \ {0}, NEW a \in Int, NEW b \in Int, a < b, b - a < n
    PROVE  a % n # b % n
<1> SUFFICES ASSUME a % n = b % n PROVE FALSE
  OBVIOUS
<1>1. /\ a % n \in 0 .. n - 1 /\ a \div n \in Int /\ a = n * (a \div n) + (a % n)
      /\ b % n \in 0 .. n - 1 /\ b \div n \in Int /\ b = n * (b \div n) + (b % n)
  BY Division
<1>2. PICK p \in Int, q \in Int, r \in 0 .. n - 1 : a = n * p + r /\ b = n * q + r
  BY <1>1
<1>3. b - a = n * (q - p) /\ q - p \in Int
  BY <1>2
<1>4. q - p = 0
  BY <1>3
<1> QED
  BY <1>3, <1>4

\* The number of bytes in the pipe.
Count == (nwrite - nread) % UINT

LEMMA CountIs ==
    ASSUME NEW a \in 0 .. UINT - 1, NEW b \in 0 .. UINT - 1
    PROVE  /\ (b - a) % UINT = IF b >= a THEN b - a ELSE b - a + UINT
           /\ (a + 1) % UINT = IF a + 1 = UINT THEN 0 ELSE a + 1
<1> UINT \in Nat \ {0}
  BY PipeAssumption
<1>1. \A x \in 0 .. UINT - 1 : x % UINT = x
  OBVIOUS
<1>2. UINT % UINT = 0
  BY Remainder, UINT = UINT * 1 + 0
<1>3. CASE b >= a
  BY <1>1, <1>2, <1>3
<1>4. CASE b < a
  <2>1. (b - a + UINT) % UINT = (b - a) % UINT /\ b - a \in Int
    <3> DEFINE c == b - a
    <3>1. c \in Int
      OBVIOUS
    <3> HIDE DEF c
    <3>2. (c + UINT) % UINT = c % UINT
      BY <1>2, <3>1, ModShift
    <3> QED
      BY <3>1, <3>2 DEF c
  <2> QED
    BY <1>1, <1>2, <1>4, <2>1
<1> QED
  BY <1>3, <1>4

\* The ring is full when PIPESIZE bytes are in it, also where the counters wrap.
LEMMA FullIs == ASSUME RingOK PROVE Full <=> Count = PIPESIZE
<1> UINT \in Nat \ {0} /\ PIPESIZE \in Nat /\ PIPESIZE < UINT
  BY PipeAssumption
<1> nread \in 0 .. UINT - 1 /\ nwrite \in 0 .. UINT - 1
  BY DEF RingOK
<1>1. Count = IF nwrite >= nread THEN nwrite - nread ELSE nwrite - nread + UINT
  BY CountIs DEF Count
<1>2. \A x \in 0 .. UINT - 1 : x % UINT = x
  OBVIOUS
<1>3. UINT % UINT = 0
  BY Remainder, UINT = UINT * 1 + 0
<1>4. (nread + PIPESIZE) % UINT =
          IF nread + PIPESIZE < UINT THEN nread + PIPESIZE ELSE nread + PIPESIZE - UINT
  <2>1. CASE nread + PIPESIZE < UINT
    BY <2>1, <1>2
  <2>2. CASE nread + PIPESIZE >= UINT
    <3> DEFINE c == nread + PIPESIZE - UINT
    <3>1. c \in 0 .. UINT - 1 /\ nread + PIPESIZE = c + UINT
      BY <2>2
    <3> HIDE DEF c
    <3>2. (c + UINT) % UINT = c % UINT /\ c % UINT = c
      <4>1. c \in Int
        BY <3>1
      <4>2. (c + UINT) % UINT = c % UINT
        BY <1>3, <4>1, ModShift
      <4> QED
        BY <4>2, <3>1, <1>2
    <3>3. (nread + PIPESIZE) % UINT = c
      BY <3>1, <3>2
    <3> QED
      BY <2>2, <3>1, <3>3
  <2> QED
    BY <2>1, <2>2
<1> QED
  BY <1>1, <1>4 DEF Full

\* A byte's place in data[], whether or not its counter has wrapped.
LEMMA PlaceIs == ASSUME NEW x \in Nat PROVE (x % UINT) % PIPESIZE = x % PIPESIZE
<1> UINT \in Nat \ {0} /\ PIPESIZE \in Nat \ {0} /\ UINT % PIPESIZE = 0
  BY PipeAssumption
<1>1. /\ x % UINT \in 0 .. UINT - 1 /\ x \div UINT \in Int
      /\ x = UINT * (x \div UINT) + (x % UINT)
  BY Division
<1>2. UINT \div PIPESIZE \in Int /\ UINT = PIPESIZE * (UINT \div PIPESIZE)
  BY Division
<1>3. PICK q \in Int, r \in 0 .. UINT - 1, d \in Int :
          x = UINT * q + r /\ r = x % UINT /\ UINT = PIPESIZE * d
  BY <1>1, <1>2
<1>4. /\ r % PIPESIZE \in 0 .. PIPESIZE - 1 /\ r \div PIPESIZE \in Int
      /\ r = PIPESIZE * (r \div PIPESIZE) + (r % PIPESIZE)
  BY Division
<1>5. PICK e \in Int, f \in 0 .. PIPESIZE - 1 : r = PIPESIZE * e + f /\ f = r % PIPESIZE
  BY <1>4
<1>6. PICK g \in Int : g = d * q /\ UINT * q = PIPESIZE * g
  <2>1. d * q \in Int
    OBVIOUS
  <2>2. (PIPESIZE * d) * q = PIPESIZE * (d * q)
    OBVIOUS
  <2> QED
    BY <2>1, <2>2, <1>3
<1>7. PICK h \in Int : h = g + e
  OBVIOUS
<1>8. x = PIPESIZE * h + f
  <2>1. PIPESIZE * h = PIPESIZE * g + PIPESIZE * e
    BY <1>7
  <2>2. PIPESIZE * h \in Int /\ PIPESIZE * g \in Int /\ PIPESIZE * e \in Int
    OBVIOUS
  <2>3. x = PIPESIZE * g + r /\ r = PIPESIZE * e + f
    BY <1>3, <1>5, <1>6
  <2> QED
    BY <2>1, <2>2, <2>3
<1>9. x % PIPESIZE = f
  BY <1>8, Remainder
<1> QED
  BY <1>3, <1>5, <1>9

\* The bytes of a ring d with counters a and b.
Bytes(d, a, b) == [k \in 1 .. (b - a) % UINT |-> d[((a + k - 1) % UINT) % PIPESIZE]]

LEMMA BytesAre ==
    ASSUME NEW d \in [0 .. PIPESIZE - 1 -> Byte],
           NEW a \in 0 .. UINT - 1, NEW b \in 0 .. UINT - 1
    PROVE  /\ Bytes(d, a, b) \in Seq(Byte) /\ Len(Bytes(d, a, b)) = (b - a) % UINT
           /\ \A k \in 1 .. (b - a) % UINT : Bytes(d, a, b)[k] = d[(a + k - 1) % PIPESIZE]
<1> UINT \in Nat \ {0} /\ PIPESIZE \in Nat \ {0}
  BY PipeAssumption
<1>1. (b - a) % UINT \in Nat
  BY Division
<1>2. PICK n \in Nat : n = (b - a) % UINT
  BY <1>1
<1>3. ASSUME NEW k \in 1 .. n
      PROVE  /\ ((a + k - 1) % UINT) % PIPESIZE = (a + k - 1) % PIPESIZE
             /\ (a + k - 1) % PIPESIZE \in 0 .. PIPESIZE - 1
  <2>1. PICK x \in Nat : x = a + k - 1
    OBVIOUS
  <2>2. (x % UINT) % PIPESIZE = x % PIPESIZE /\ x % PIPESIZE \in 0 .. PIPESIZE - 1
    <3>1. (x % UINT) % PIPESIZE = x % PIPESIZE
      BY PlaceIs
    <3>2. x \in Int
      OBVIOUS
    <3> QED
      BY <3>1, <3>2, Division
  <2> QED
    BY <2>1, <2>2
<1>4. Bytes(d, a, b) = [k \in 1 .. n |-> d[(a + k - 1) % PIPESIZE]]
  BY <1>2, <1>3 DEF Bytes
<1>5. Bytes(d, a, b) \in [1 .. n -> Byte]
  BY <1>3, <1>4
<1>6. Bytes(d, a, b) \in Seq(Byte) /\ Len(Bytes(d, a, b)) = n
  BY <1>5
<1> QED
  BY <1>2, <1>4, <1>6

LEMMA QueueIs ==
    ASSUME RingOK
    PROVE  /\ Queue \in Seq(Byte) /\ Len(Queue) = Count
           /\ \A k \in 1 .. Count : Queue[k] = data[(nread + k - 1) % PIPESIZE]
<1>1. Queue = Bytes(data, nread, nwrite)
  BY DEF Queue, Bytes
<1> QED
  BY <1>1, BytesAre DEF Count, RingOK

LEMMA QueueBecomes ==
    ASSUME RingOK'
    PROVE  /\ Queue' \in Seq(Byte) /\ Len(Queue') = Count'
           /\ \A k \in 1 .. Count' : Queue'[k] = data'[(nread' + k - 1) % PIPESIZE]
<1>1. Queue' = Bytes(data', nread', nwrite')
  BY DEF Queue, Bytes
<1> QED
  BY <1>1, BytesAre DEF Count, RingOK

\* pipewrite() stores a byte behind the others and overwrites none of them.
LEMMA PutStep ==
    ASSUME IInv, RingOK', NEW w \in Writer, NEW v \in Byte, WriteByte(w, v)
    PROVE  Count < PIPESIZE /\ Queue' = Append(Queue, v) /\ RingInv'
<1> UINT \in Nat \ {0} /\ PIPESIZE \in Nat \ {0} /\ PIPESIZE < UINT /\ UINT % PIPESIZE = 0
  BY PipeAssumption
<1> /\ data \in [0 .. PIPESIZE - 1 -> Byte]
    /\ nread \in 0 .. UINT - 1 /\ nwrite \in 0 .. UINT - 1 /\ nwrite' \in 0 .. UINT - 1
  BY DEF IInv, RingOK
<1>1. /\ nread' = nread /\ nwrite' = (nwrite + 1) % UINT
      /\ data' = [data EXCEPT ![nwrite % PIPESIZE] = v] /\ ~Full
  BY DEF WriteByte
<1>2. Count \in Nat /\ Count < PIPESIZE
  BY <1>1, FullIs, Division DEF IInv, RingInv, Count
<1>3. /\ Count = IF nwrite >= nread THEN nwrite - nread ELSE nwrite - nread + UINT
      /\ nwrite' = IF nwrite + 1 = UINT THEN 0 ELSE nwrite + 1
  BY <1>1, CountIs DEF Count
<1>4. Count' = IF nwrite' >= nread THEN nwrite' - nread ELSE nwrite' - nread + UINT
  <2>1. Count' = (nwrite' - nread) % UINT
    BY <1>1 DEF Count
  <2> QED
    BY <2>1, CountIs
<1>5. Count' = Count + 1
  BY <1>2, <1>3, <1>4
<1>6. (nread + Count) % PIPESIZE = nwrite % PIPESIZE
  <2>1. CASE nwrite >= nread
    BY <1>3, <2>1
  <2>2. CASE nwrite < nread
    <3>1. nread + Count = nwrite + UINT /\ nwrite \in Int
      BY <1>3, <2>2
    <3>2. (nwrite + UINT) % PIPESIZE = nwrite % PIPESIZE
      BY <3>1, ModShift
    <3> QED
      BY <3>1, <3>2
  <2> QED
    BY <2>1, <2>2
<1>7. \A x \in Int : x % PIPESIZE \in 0 .. PIPESIZE - 1
  BY Division
<1>8. ASSUME NEW k \in 1 .. Count
      PROVE  data'[(nread + k - 1) % PIPESIZE] = data[(nread + k - 1) % PIPESIZE]
  <2>1. PICK x \in Int, y \in Int : x = nread + k - 1 /\ y = nread + Count
    BY <1>2
  <2>2. x < y /\ y - x < PIPESIZE
    BY <1>2, <2>1
  <2>3. x % PIPESIZE # y % PIPESIZE
    BY <2>2, ModDistinct
  <2>4. (nread + k - 1) % PIPESIZE # nwrite % PIPESIZE
    BY <2>1, <2>3, <1>6
  <2> QED
    BY <1>1, <1>7, <2>1, <2>4
<1>9. data'[(nread + (Count + 1) - 1) % PIPESIZE] = v
  <2>1. nread + (Count + 1) - 1 = nread + Count
    BY <1>2
  <2>2. nwrite \in Int /\ nwrite % PIPESIZE \in 0 .. PIPESIZE - 1
    BY Division
  <2>3. data'[nwrite % PIPESIZE] = v
    BY <1>1, <2>2
  <2> QED
    BY <1>6, <2>1, <2>3
<1>10. Queue' = Append(Queue, v)
  <2>1. /\ Queue \in Seq(Byte) /\ Len(Queue) = Count
        /\ \A k \in 1 .. Count : Queue[k] = data[(nread + k - 1) % PIPESIZE]
    BY QueueIs DEF IInv
  <2>2. /\ Queue' \in Seq(Byte) /\ Len(Queue') = Count + 1
        /\ \A k \in 1 .. Count + 1 : Queue'[k] = data'[(nread + k - 1) % PIPESIZE]
    BY QueueBecomes, <1>1, <1>5
  <2>3. /\ Append(Queue, v) \in Seq(Byte) /\ Len(Append(Queue, v)) = Count + 1
        /\ \A k \in 1 .. Count : Append(Queue, v)[k] = Queue[k]
        /\ Append(Queue, v)[Count + 1] = v
    BY <2>1, AppendProperties
  <2>4. \A k \in 1 .. Count + 1 : Queue'[k] = Append(Queue, v)[k]
    <3> TAKE k \in 1 .. Count + 1
    <3>1. CASE k \in 1 .. Count
      BY <3>1, <1>8, <2>1, <2>2, <2>3
    <3>2. CASE k = Count + 1
      BY <3>2, <1>9, <2>2, <2>3
    <3>3. k \in 1 .. Count \/ k = Count + 1
      BY <1>2
    <3> QED
      BY <3>1, <3>2, <3>3
  <2> QED
    BY <2>2, <2>3, <2>4, SeqEqual
<1> QED
  BY <1>2, <1>5, <1>10 DEF RingInv, Count

\* piperead() takes the oldest byte.
LEMMA GetStep ==
    ASSUME IInv, RingOK', NEW r \in Reader, ReadByte(r)
    PROVE  Queue # <<>> /\ Queue' = Tail(Queue) /\ RingInv'
<1> UINT \in Nat \ {0} /\ PIPESIZE \in Nat \ {0} /\ PIPESIZE < UINT /\ UINT % PIPESIZE = 0
  BY PipeAssumption
<1> nread \in 0 .. UINT - 1 /\ nwrite \in 0 .. UINT - 1 /\ nread' \in 0 .. UINT - 1
  BY DEF IInv, RingOK
<1>1. nwrite' = nwrite /\ nread' = (nread + 1) % UINT /\ data' = data /\ nread # nwrite
  BY DEF ReadByte, Empty
<1>2. /\ Count = IF nwrite >= nread THEN nwrite - nread ELSE nwrite - nread + UINT
      /\ nread' = IF nread + 1 = UINT THEN 0 ELSE nread + 1
  BY <1>1, CountIs DEF Count
<1>3. Count' = IF nwrite >= nread' THEN nwrite - nread' ELSE nwrite - nread' + UINT
  BY <1>1, <1>2, CountIs DEF Count
<1>4. Count \in Nat \ {0} /\ Count' = Count - 1
  BY <1>1, <1>2, <1>3
<1>5. ASSUME NEW k \in 1 .. Count - 1
      PROVE  (nread' + k - 1) % PIPESIZE = (nread + (k + 1) - 1) % PIPESIZE
  <2>1. CASE nread + 1 < UINT
    <3>1. nread' + k - 1 = nread + (k + 1) - 1
      BY <1>2, <1>4, <2>1
    <3> QED
      BY <3>1
  <2>2. CASE nread + 1 = UINT
    <3>1. PICK x \in Int : x = nread' + k - 1 /\ nread + (k + 1) - 1 = x + UINT
      BY <1>2, <1>4, <2>2
    <3>2. (x + UINT) % PIPESIZE = x % PIPESIZE
      BY ModShift
    <3> QED
      BY <3>1, <3>2
  <2> QED
    BY <2>1, <2>2
<1>6. Queue # <<>> /\ Queue' = Tail(Queue)
  <2>1. /\ Queue \in Seq(Byte) /\ Len(Queue) = Count
        /\ \A k \in 1 .. Count : Queue[k] = data[(nread + k - 1) % PIPESIZE]
    BY QueueIs DEF IInv
  <2>2. /\ Queue' \in Seq(Byte) /\ Len(Queue') = Count - 1
        /\ \A k \in 1 .. Count - 1 : Queue'[k] = data[(nread' + k - 1) % PIPESIZE]
    BY QueueBecomes, <1>1, <1>4
  <2>3. Queue # <<>>
    BY <2>1, <1>4, EmptySeq
  <2>4. /\ Tail(Queue) \in Seq(Byte) /\ Len(Tail(Queue)) = Count - 1
        /\ \A k \in 1 .. Count - 1 : Tail(Queue)[k] = Queue[k + 1]
    BY <2>1, <2>3, HeadTailProperties
  <2>5. \A k \in 1 .. Count - 1 : Queue'[k] = Tail(Queue)[k]
    <3> TAKE k \in 1 .. Count - 1
    <3>1. k + 1 \in 1 .. Count
      BY <1>4
    <3>2. Tail(Queue)[k] = data[(nread + (k + 1) - 1) % PIPESIZE]
      BY <3>1, <2>1, <2>4
    <3> QED
      BY <3>2, <1>5, <2>2
  <2> QED
    BY <2>2, <2>3, <2>4, <2>5, SeqEqual
<1> QED
  BY <1>4, <1>6 DEF IInv, RingInv, Count

\* Every other step leaves the ring alone.
LEMMA RingStep ==
    ASSUME IInv, RingOK', Next
    PROVE  RingInv' /\ [Ring!Next]_Queue
<1>1. ASSUME NEW w \in Writer, NEW v \in Byte, WriteByte(w, v)
      PROVE  RingInv' /\ [Ring!Next]_Queue
  <2>1. Len(Queue) < PIPESIZE
    BY <1>1, PutStep, QueueIs DEF IInv
  <2> QED
    BY <1>1, <2>1, PutStep DEF Ring!Next, Ring!Put
<1>2. ASSUME NEW r \in Reader, ReadByte(r)
      PROVE  RingInv' /\ [Ring!Next]_Queue
  BY <1>2, GetStep DEF Ring!Next, Ring!Get
<1>3. ASSUME UNCHANGED <<data, nread, nwrite>>
      PROVE  RingInv' /\ [Ring!Next]_Queue
  BY <1>3 DEF IInv, RingInv, Queue
<1> QED
  BY <1>1, <1>2, <1>3 DEF Next, ThreadStep, WriteStep, ReadStep, pipeVars, Enter, Sleep, Woken,
     CloseFile, PipeClose, Kill, WriteFail, WriteFull, WriteDone, ReadFail, ReadEmpty, ReadReady,
     ReadDone

-----------------------------------------------------------------------------
(* The theorems. *)

LEMMA InitIInv == Init => IInv
<1> SUFFICES ASSUME Init PROVE IInv
  OBVIOUS
<1> USE PipeAssumption DEF Init
<1>1. RingOK /\ OpenOK /\ CtlOK
  <2>1. RingOK
    BY DEF RingOK
  <2>2. OpenOK
    BY DEF OpenOK
  <2>3. CtlOK
    BY DEF CtlOK
  <2> QED
    BY <2>1, <2>2, <2>3
<1>2. LocalsOK
  BY DEF LocalsOK
<1>3. LockInv /\ SleepInv /\ WriterInv /\ ReaderNotStranded /\ CopyInv
  BY Sides DEF LockInv, SleepInv, WriterInv, ReaderNotStranded, CopyInv, Asleep
<1>4. OpenInv
  BY Sides DEF OpenInv
<1>5. RingInv
  <2>1. (0 - 0) % UINT = 0
    OBVIOUS
  <2> QED
    BY <2>1 DEF RingInv
<1> QED
  BY <1>1, <1>2, <1>3, <1>4, <1>5 DEF IInv

LEMMA NextIInv == IInv /\ [Next]_vars => IInv'
<1>1. ASSUME IInv, Next PROVE IInv'
  BY <1>1, RingTypes, OpenTypes, LocalsTypes, CtlTypes, LockStep, OpenStep, SleepStep, WriterStep,
     ReaderStep, CopyStep, RingStep DEF IInv
<1>2. ASSUME IInv, UNCHANGED vars PROVE IInv'
  BY <1>2 DEF vars, pipeVars, IInv, RingOK, OpenOK, LocalsOK, CtlOK, LockInv, OpenInv, SleepInv,
     WriterInv, ReaderNotStranded, CopyInv, RingInv, Asleep, Full, Empty
<1> QED
  BY <1>1, <1>2

\* pipewrite(), piperead() and pipeclose() wake up whoever they concern: no process sleeps at a
\* pipe that has what it waits for, except behind a killed writer, and after kfree() nobody is
\* left in the pipe.
THEOREM PipeSafety == Spec => []NotStranded
<1>1. IInv => NotStranded
  <2> SUFFICES ASSUME IInv PROVE NotStranded
    OBVIOUS
  <2>1. TypeOK
    BY TypeParts DEF IInv
  <2>2. WriterNotStranded
    BY Sides DEF IInv, LockInv, WriterInv, WriterNotStranded
  <2>3. NoUseAfterFree
    BY Sides DEF IInv, CtlOK, OpenInv, NoUseAfterFree
  <2> QED
    BY <2>1, <2>2, <2>3 DEF NotStranded, IInv
<1> QED
  BY <1>1, InitIInv, NextIInv, PTL DEF Spec

\* piperead() returns 0 only at the end of the file.
LEMMA ZeroStep == IInv /\ [Next]_vars => [ZeroMeansEnd]_vars
<1> SUFFICES ASSUME IInv, Next, NEW q \in Reader, pc[q] = "copy", pc'[q] = "user",
                    left[q] > 0, got[q] = 0
             PROVE  Empty /\ ~writeopen
  BY DEF ZeroMeansEnd
<1>1. PICK r \in Reader : ReadDone(r) /\ r = q
  BY Sides DEF IInv, CtlOK, LockInv, Next, ThreadStep, WriteStep, ReadStep, Goto, WakeAndGoto,
     Asleep, Enter, Sleep, Woken, CloseFile, PipeClose, Kill, WriteFail, WriteFull, WriteDone, WriteByte,
     ReadFail, ReadEmpty, ReadReady, ReadByte, ReadDone
<1>2. Empty
  BY <1>1, Sides DEF ReadDone, IInv, LocalsOK
<1> QED
  BY <1>2 DEF IInv, CopyInv

\* The ring buffer with its wrapping counters implements the queue: bytes come out in the order
\* in which they went in, none is lost in the pipe or seen twice, at most PIPESIZE wait in it, and
\* a reader is told the end of the file only at the end of the file.
THEOREM PipeFifo == Spec => FirstInFirstOut
<1>1. Init => Ring!Init
  <2> SUFFICES ASSUME Init PROVE Queue = <<>>
    BY DEF Ring!Init
  <2>1. RingOK /\ Count = 0
    <3>1. (0 - 0) % UINT = 0
      BY PipeAssumption
    <3> QED
      BY <3>1, InitIInv DEF Init, IInv, Count
  <2> QED
    BY <2>1, QueueIs, EmptySeq
<1>2. IInv /\ [Next]_vars => [Ring!Next]_Queue
  <2>1. ASSUME IInv, Next PROVE [Ring!Next]_Queue
    BY <2>1, RingTypes, RingStep
  <2>2. ASSUME UNCHANGED vars PROVE UNCHANGED Queue
    BY <2>2 DEF vars, pipeVars, Queue
  <2> QED
    BY <2>1, <2>2
<1> QED
  BY <1>1, <1>2, InitIInv, NextIInv, ZeroStep, PTL
     DEF Spec, FirstInFirstOut, Ring!Spec, ZeroIsEndOfFile
=============================================================================
