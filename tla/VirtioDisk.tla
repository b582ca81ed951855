----------------------------- MODULE VirtioDisk -----------------------------
(***************************************************************************)
(* The disk driver (kernel/virtio_disk.c): threads that make requests, the *)
(* interrupt handler, and the device, which takes requests from the avail  *)
(* ring in order and completes them in any order.  A step of the driver is *)
(* one critical section of vdisk_lock; the handler takes one step for each *)
(* used entry, as the device adds entries while it runs.  A thread uses    *)
(* one buffer at a time, which it has locked, so t stands for its buffer.  *)
(* A ring entry that has been read is set to 0, where the code leaves the  *)
(* old value until it is overwritten.                                      *)
(***************************************************************************)
EXTENDS Integers, Sequences, FiniteSets, FiniteSetsExt

CONSTANTS
    Thread, NoThread,
    NUM,       \* descriptors, and entries of each ring
    UINT16     \* the rings' indices are counted modulo UINT16 (2^16)

VirtioAssumption ==
    /\ NUM \in Nat \ {0} /\ UINT16 \in Nat /\ UINT16 > NUM /\ UINT16 % NUM = 0
    /\ NoThread \notin Thread

Desc == 0 .. NUM - 1

VARIABLES
    free, next, more,       \* free[i]; desc[i].next; desc[i].flags & F_NEXT
    info,                   \* info[i].b
    availRing, availIdx,    \* written by the driver
    usedRing, usedIdx,      \* written by the device
    seenIdx,                \* disk.used_idx
    devIdx, working,        \* device: next avail entry, requests in progress
    irq,                    \* an interrupt is pending
    intr,                   \* the handler holds vdisk_lock
    pc, busy,               \* threads: position; b->disk
    head,                   \* idx[0]
    served                  \* history: the device has carried out the transfer

descVars == <<free, next, more>>
devVars == <<devIdx, working, usedRing, usedIdx>>
vars == <<descVars, info, availRing, availIdx, devVars, seenIdx, irq, intr, pc, busy, head, served>>

\* virtio_disk_init().
Init ==
    /\ free = [i \in Desc |-> TRUE]
    /\ next = [i \in Desc |-> 0] /\ more = [i \in Desc |-> FALSE]
    /\ info = [i \in Desc |-> NoThread]
    /\ availRing = [i \in Desc |-> 0] /\ availIdx = 0
    /\ usedRing = [i \in Desc |-> 0] /\ usedIdx = 0
    /\ seenIdx = 0 /\ devIdx = 0 /\ working = {}
    /\ irq = FALSE /\ intr = FALSE
    /\ pc = [t \in Thread |-> "idle"]
    /\ busy = [t \in Thread |-> FALSE]
    /\ head = [t \in Thread |-> 0]
    /\ served = [t \in Thread |-> FALSE]

FreeDescs == {i \in Desc : free[i]}

\* The first three free descriptors, in order: alloc_desc() three times.
Three ==
    LET d0 == Min(FreeDescs)
        d1 == Min(FreeDescs \ {d0})
    IN  <<d0, d1, Min(FreeDescs \ {d0, d1})>>

\* The chain that free_chain(i) walks.
Chain(i) ==
    LET second == IF more[i] THEN {next[i]} ELSE {}
        third == {next[j] : j \in {k \in second : more[k]}}
    IN  {i} \cup second \cup third

Wake(q, from) == [u \in Thread |-> IF q[u] = from THEN "start" ELSE q[u]]

-----------------------------------------------------------------------------
(* virtio_disk_rw(). *)

\* Too few descriptors: alloc3_desc() gives back what it got, with a wakeup() for each,
\* and the caller sleeps.
NoDescs(t) ==
    /\ pc[t] \in {"idle", "start"} /\ ~intr
    /\ Cardinality(FreeDescs) < 3
    /\ LET woken == IF FreeDescs = {} THEN pc ELSE Wake(pc, "asleep")
       IN  pc' = [woken EXCEPT ![t] = "asleep"]
    /\ UNCHANGED <<descVars, info, availRing, availIdx, devVars, seenIdx, irq, intr, busy, head, served>>

\* Format the descriptors, put the chain into the avail ring, notify, and sleep.
Submit(t) ==
    /\ pc[t] \in {"idle", "start"} /\ ~intr
    /\ Cardinality(FreeDescs) >= 3
    /\ LET d == Three
       IN  /\ free' = [i \in Desc |-> free[i] /\ i \notin {d[1], d[2], d[3]}]
           /\ next' = [next EXCEPT ![d[1]] = d[2], ![d[2]] = d[3], ![d[3]] = 0]
           /\ more' = [more EXCEPT ![d[1]] = TRUE, ![d[2]] = TRUE, ![d[3]] = FALSE]
           /\ info' = [info EXCEPT ![d[1]] = t]
           /\ availRing' = [availRing EXCEPT ![availIdx % NUM] = d[1]]
           /\ head' = [head EXCEPT ![t] = d[1]]
    /\ availIdx' = (availIdx + 1) % UINT16
    /\ busy' = [busy EXCEPT ![t] = TRUE]
    /\ served' = [served EXCEPT ![t] = FALSE]
    /\ pc' = [pc EXCEPT ![t] = "wait"]
    /\ UNCHANGED <<devVars, seenIdx, irq, intr>>

\* Mutant: free_desc() wakes nobody.
FinishSilent(t) ==
    /\ pc[t] = "woken" /\ ~intr
    /\ info' = [info EXCEPT ![head[t]] = NoThread]
    /\ LET c == Chain(head[t])
       IN  /\ free' = [i \in Desc |-> free[i] \/ i \in c]
           /\ next' = [i \in Desc |-> IF i \in c THEN 0 ELSE next[i]]
           /\ more' = [i \in Desc |-> more[i] /\ i \notin c]
    /\ pc' = [pc EXCEPT ![t] = "idle"]
    /\ head' = [head EXCEPT ![t] = 0]
    /\ UNCHANGED <<availRing, availIdx, devVars, seenIdx, irq, intr, busy, served>>

\* Woken up with b->disk clear: free the chain, waking up those who wait for descriptors.
Finish(t) ==
    /\ pc[t] = "woken" /\ ~intr
    /\ info' = [info EXCEPT ![head[t]] = NoThread]
    /\ LET c == Chain(head[t])
       IN  /\ free' = [i \in Desc |-> free[i] \/ i \in c]
           /\ next' = [i \in Desc |-> IF i \in c THEN 0 ELSE next[i]]
           /\ more' = [i \in Desc |-> more[i] /\ i \notin c]
    /\ pc' = [Wake(pc, "asleep") EXCEPT ![t] = "idle"]
    /\ head' = [head EXCEPT ![t] = 0]
    /\ UNCHANGED <<availRing, availIdx, devVars, seenIdx, irq, intr, busy, served>>

-----------------------------------------------------------------------------
(* virtio_disk_intr(). *)

\* vdisk_lock is taken and the interrupt acknowledged.
IntrAck ==
    /\ irq /\ ~intr
    /\ intr' = TRUE
    /\ irq' = FALSE
    /\ UNCHANGED <<descVars, info, availRing, availIdx, devVars, seenIdx, pc, busy, head, served>>

\* One used entry: its buffer is done.
IntrEntry ==
    /\ intr
    /\ seenIdx # usedIdx
    /\ LET b == info[usedRing[seenIdx % NUM]]
       IN  /\ b # NoThread
           /\ busy' = [busy EXCEPT ![b] = FALSE]
           /\ pc' = [pc EXCEPT ![b] = IF @ = "wait" THEN "woken" ELSE @]
    /\ usedRing' = [usedRing EXCEPT ![seenIdx % NUM] = 0]
    /\ seenIdx' = (seenIdx + 1) % UINT16
    /\ UNCHANGED <<descVars, info, availRing, availIdx, devIdx, working, usedIdx, irq, intr,
                   head, served>>

\* No used entry is left.
IntrDone ==
    /\ intr
    /\ seenIdx = usedIdx
    /\ intr' = FALSE
    /\ UNCHANGED <<descVars, info, availRing, availIdx, devVars, seenIdx, irq, pc, busy, head, served>>

-----------------------------------------------------------------------------
(* The device (external). *)

\* It takes the next chain from the avail ring.
DevTake ==
    /\ devIdx # availIdx
    /\ working' = working \cup {availRing[devIdx % NUM]}
    /\ availRing' = [availRing EXCEPT ![devIdx % NUM] = 0]
    /\ devIdx' = (devIdx + 1) % UINT16
    /\ UNCHANGED <<descVars, info, availIdx, usedRing, usedIdx, seenIdx, irq, intr, pc, busy, head, served>>

\* It completes any request it works on: transfer, used entry, interrupt.
DevComplete(i) ==
    /\ i \in working
    /\ working' = working \ {i}
    /\ usedRing' = [usedRing EXCEPT ![usedIdx % NUM] = i]
    /\ usedIdx' = (usedIdx + 1) % UINT16
    /\ served' = [t \in Thread |-> served[t] \/ (busy[t] /\ head[t] = i)]
    /\ irq' = TRUE
    /\ UNCHANGED <<descVars, info, availRing, availIdx, devIdx, seenIdx, intr, pc, busy, head>>

-----------------------------------------------------------------------------

Rw(t) == NoDescs(t) \/ Submit(t) \/ Finish(t)

Intr == IntrAck \/ IntrEntry \/ IntrDone

Device == DevTake \/ \E i \in Desc : DevComplete(i)

Next == Intr \/ Device \/ \E t \in Thread : Rw(t)

Spec == Init /\ [][Next]_vars

(* The handler runs when its interrupt is pending, and the device completes     *)
(* what it was given.  A woken thread gets vdisk_lock in the end, although the  *)
(* handler takes it again and again: the swap of acquire() does not starve a    *)
(* hart for ever.  No thread has to make a request.                             *)
FairSpec ==
    /\ Spec
    /\ WF_vars(Intr)
    /\ WF_vars(DevTake) /\ \A i \in Desc : WF_vars(DevComplete(i))
    /\ \A t \in Thread : SF_vars(Finish(t))

-----------------------------------------------------------------------------
(* Properties. *)

TypeOK ==
    /\ free \in [Desc -> BOOLEAN] /\ next \in [Desc -> Desc] /\ more \in [Desc -> BOOLEAN]
    /\ info \in [Desc -> Thread \cup {NoThread}]
    /\ availRing \in [Desc -> Desc] /\ usedRing \in [Desc -> Desc]
    /\ {availIdx, usedIdx, seenIdx, devIdx} \subseteq 0 .. UINT16 - 1
    /\ working \subseteq Desc
    /\ irq \in BOOLEAN /\ intr \in BOOLEAN
    /\ pc \in [Thread -> {"idle", "start", "asleep", "wait", "woken"}]
    /\ busy \in [Thread -> BOOLEAN] /\ served \in [Thread -> BOOLEAN]
    /\ head \in [Thread -> Desc]

InFlight == {t \in Thread : pc[t] \in {"wait", "woken"}}

\* The chains of the requests in flight are disjoint, and the free descriptors are
\* exactly the others: none leaks, and "free_desc 2" is never printed.
ChainsPartition ==
    /\ \A t, u \in InFlight : t # u => Chain(head[t]) \cap Chain(head[u]) = {}
    /\ Desc \ FreeDescs = UNION {Chain(head[t]) : t \in InFlight}

\* virtio_disk_rw() goes on only after the device has carried out its own request,
\* whatever the order of completions and with rings that wrap around.
DoneMeansServed == \A t \in Thread : pc[t] = "woken" => served[t] /\ ~busy[t]

\* A completion is never forgotten: while the handler has entries left to look at, it is
\* running or an interrupt is pending, although the device adds entries while it runs.
CompletionSeen == seenIdx # usedIdx => irq \/ intr

\* A thread sleeps for descriptors only while fewer than three are free, and then there
\* is a request in flight whose free_chain() wakes it up.
DescSleeperHasWaker ==
    \A t \in Thread : pc[t] = "asleep" => Cardinality(FreeDescs) < 3 /\ InFlight # {}

\* Every request that was submitted is finished.
RequestFinishes == \A t \in Thread : pc[t] = "wait" ~> pc[t] = "idle"
=============================================================================
