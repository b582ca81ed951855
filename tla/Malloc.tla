------------------------------- MODULE Malloc -------------------------------
(* The user-level allocator (umalloc.c): a circular list of free blocks in     *)
(* address order.  An address counts header-sized units; base lies below the   *)
(* heap at address 0.  The loops of malloc() and free() are walks, one step    *)
(* for each block they look at.  A caller may also use sbrk() itself.          *)
EXTENDS Integers, FiniteSets

CONSTANTS
    MaxHeap,     \* bound: units that sbrk() can hand out
    MinCore,     \* units that morecore() asks for at least (4096)
    Units        \* requests, in units with the header

VARIABLES
    hdr,         \* hdr[a]: the header at address a, or what lies there
    freep, brk,
    pc,          \* "user", "scan" (malloc's loop), "search" (free's), "core" (free's, for morecore)
    p, prevp,    \* the walk
    nunits, bp,  \* the request; the block to be freed
    live,        \* live[a]: units asked for by the caller who has block a, or 0
    own          \* units that the caller took with sbrk()

vars == <<hdr, freep, brk, pc, p, prevp, nunits, bp, live, own>>
walk == <<p, prevp, nunits, bp>>

Base == 0
Null == -1
Addr == 0..MaxHeap
Heap == 1..MaxHeap
Word == [ptr : Addr \cup {Null}, size : 0..MaxHeap]
Zero == [ptr |-> Null, size |-> 0]
Block(a) == a..a + hdr[a].size - 1

TypeOK ==
    /\ hdr \in [Addr -> Word]
    /\ freep \in Addr \cup {Null} /\ brk \in 1..MaxHeap + 1
    /\ pc \in {"user", "scan", "search", "core"}
    /\ p \in Addr \cup {Null} /\ prevp \in Addr \cup {Null} /\ bp \in Addr \cup {Null}
    /\ nunits \in Units \cup {0}
    /\ live \in [Heap -> Units \cup {0}]
    /\ own \subseteq Heap

Init ==
    /\ hdr = [a \in Addr |-> Zero]
    /\ freep = Null /\ brk = 1
    /\ pc = "user" /\ p = Null /\ prevp = Null /\ nunits = 0 /\ bp = Null
    /\ live = [a \in Heap |-> 0]
    /\ own = {}

\* The locals are dead outside a call.
Return == pc' = "user" /\ p' = Null /\ prevp' = Null /\ nunits' = 0 /\ bp' = Null

(***************************************************************************)
(* malloc()                                                                *)
(***************************************************************************)
\* On the first call the list is base alone.
Malloc(n) ==
    LET first == freep = Null IN
    /\ pc = "user"
    /\ pc' = "scan" /\ nunits' = n
    /\ hdr' = IF first THEN [hdr EXCEPT ![Base] = [ptr |-> Base, size |-> 0]] ELSE hdr
    /\ freep' = IF first THEN Base ELSE freep
    /\ prevp' = freep' /\ p' = hdr'[freep'].ptr
    /\ UNCHANGED <<brk, bp, live, own>>

Fits == hdr[p].size >= nunits

\* The free block keeps its place and loses its tail, at a.
Split(a) == [hdr EXCEPT ![p].size = @ - nunits, ![a].size = nunits]

\* The caller writes over its block, but not over the header.
Scribble(h, a) == [b \in Addr |-> IF b \in a + 1..a + nunits - 1 THEN Zero ELSE h[b]]

Take ==
    LET a == p + hdr[p].size - nunits IN
    /\ pc = "scan" /\ Fits
    /\ hdr' = Scribble(IF a = p THEN [hdr EXCEPT ![prevp].ptr = hdr[p].ptr] ELSE Split(a), a)
    /\ live' = [live EXCEPT ![a] = nunits]
    /\ freep' = prevp
    /\ Return
    /\ UNCHANGED <<brk, own>>

\* The walk stops one block early (mutant of AllSeen).
AllSeenEarly == p = freep \/ hdr[p].ptr = freep

AllSeen == p = freep

Advance ==
    /\ pc = "scan" /\ ~Fits /\ ~AllSeen
    /\ prevp' = p /\ p' = hdr[p].ptr
    /\ UNCHANGED <<hdr, freep, brk, pc, nunits, bp, live, own>>

\* sbrk() has no more memory.
CoreFails(nu) == brk + nu > MaxHeap + 1

\* morecore(): more memory is freed into the list, or malloc() returns 0.
morecore ==
    LET nu == IF nunits < MinCore THEN MinCore ELSE nunits IN
    /\ pc = "scan" /\ ~Fits /\ AllSeen
    /\ IF CoreFails(nu) THEN Return /\ UNCHANGED <<hdr, brk>>
       ELSE /\ brk' = brk + nu
            /\ hdr' = [hdr EXCEPT ![brk].size = nu]
            /\ bp' = brk /\ p' = freep /\ pc' = "core"
            /\ UNCHANGED <<prevp, nunits>>
    /\ UNCHANGED <<freep, live, own>>

(***************************************************************************)
(* free(), which morecore() also calls                                     *)
(***************************************************************************)
Free(a) ==
    /\ pc = "user" /\ live[a] > 0
    /\ pc' = "search" /\ bp' = a /\ p' = freep
    /\ live' = [live EXCEPT ![a] = 0]
    /\ UNCHANGED <<hdr, freep, brk, prevp, nunits, own>>

\* bp belongs between p and its successor, or beyond either end of the list.
Place ==
    \/ bp > p /\ bp < hdr[p].ptr
    \/ p >= hdr[p].ptr /\ (bp > p \/ bp < hdr[p].ptr)

Search ==
    /\ pc \in {"search", "core"} /\ ~Place
    /\ p' = hdr[p].ptr
    /\ UNCHANGED <<hdr, freep, brk, pc, prevp, nunits, bp, live, own>>

\* Joined to the block above?
Upper(h) ==
    LET s == h[p].ptr IN
    IF bp + h[bp].size = s
    THEN [h EXCEPT ![bp] = [ptr |-> h[s].ptr, size |-> @.size + h[s].size]]
    ELSE [h EXCEPT ![bp].ptr = s]

\* Joined to the block below?
Lower(h) ==
    IF p + h[p].size = bp
    THEN [h EXCEPT ![p] = [ptr |-> h[bp].ptr, size |-> @.size + h[bp].size]]
    ELSE [h EXCEPT ![p].ptr = bp]

\* After morecore(), malloc() goes on with the successor of the new freep.
Link ==
    /\ pc \in {"search", "core"} /\ Place
    /\ hdr' = Lower(Upper(hdr))
    /\ freep' = p
    /\ IF pc = "search" THEN Return
       ELSE pc' = "scan" /\ prevp' = p /\ p' = hdr'[p].ptr /\ bp' = Null /\ UNCHANGED nunits
    /\ UNCHANGED <<brk, live, own>>

\* The caller moves the break itself.
Sbrk ==
    /\ pc = "user" /\ brk <= MaxHeap
    /\ brk' = brk + 1 /\ own' = own \cup {brk}
    /\ UNCHANGED <<hdr, freep, pc, walk, live>>

Loop == Take \/ Advance \/ morecore \/ Search \/ Link
Next == Loop \/ Sbrk \/ (\E n \in Units : Malloc(n)) \/ (\E a \in Heap : Free(a))
Spec == Init /\ [][Next]_vars
FairSpec == Spec /\ WF_vars(Loop)

-----------------------------------------------------------------------------
\* The blocks of the list, walked once round from base.
FreeBlocks ==
    LET nth[k \in 0..MaxHeap] == IF k = 0 THEN Base ELSE hdr[nth[k - 1]].ptr
    IN  IF freep = Null THEN {} ELSE {nth[k] : k \in 0..MaxHeap}

Live == {a \in Heap : live[a] > 0}

\* Between calls every unit of the heap is in one free block, in one block that a
\* caller has, or taken with sbrk(): blocks do not overlap, no memory is lost, and
\* a caller's block is as large as it asked for and its header still says so.
Partition ==
    pc = "user" =>
        /\ \A a \in Live : hdr[a].size = live[a]
        /\ \A x \in 1..brk - 1 :
              Cardinality({a \in Live \cup (FreeBlocks \ {Base}) : x \in Block(a)}) = IF x \in own THEN 0 ELSE 1

\* free() and morecore() keep the list in address order round the circle, with
\* freep in it, and free blocks that touch are joined, so that a request is not
\* refused because memory is in pieces.
Coalesced ==
    freep # Null =>
        /\ freep \in FreeBlocks
        /\ \A a \in FreeBlocks :
              LET s == hdr[a].ptr IN
              /\ s = Base \/ s > a + hdr[a].size
              /\ s = Base => \A b \in FreeBlocks : b <= a

\* malloc() asks for more memory only when no free block is large enough.
GrowStep == (morecore /\ pc = "scan") => \A a \in FreeBlocks : hdr[a].size < nunits
GrowsWhenNeeded == [][GrowStep]_vars

\* malloc() and free() return: their walks round the circle end.
CallsEnd == pc # "user" ~> pc = "user"
=============================================================================
