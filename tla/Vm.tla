---------------------------------- MODULE Vm ----------------------------------
(* Physical pages and user page tables: kalloc.c, vm.c, exec() and the parts   *)
(* of proc.c that own memory (allocproc, freeproc, fork, growproc).  Harts run  *)
(* these at the same time and share only the free list; a step is one page of   *)
(* a loop, with the page-table pages it needs, or one call that only frees.     *)
(* Addresses count bytes; va counts pages.                                      *)
EXTENDS Integers, FiniteSets, FiniteSetsExt, Functions

CONSTANTS
    Proc, initproc,
    Page,           \* physical pages, numbers
    PGSIZE,
    LEVELS, PTES,   \* levels of a page table, entries of each page of it
    UINT,           \* modulus of growproc()'s sz
    Grow,           \* bound: arguments of sbrk(), positive and negative
    MaxSz,          \* bound: bytes of a process, below TRAPFRAME
    Segment         \* ends, in bytes, of the segments a program file can have

VARIABLES
    free,       \* kmem.freelist, as a set
    trapframe,  \* trapframe[p]: a page or None
    pt,         \* pt[p]: p->pagetable, or NoPt
    sz,         \* sz[p]: p->sz
    k           \* k[p]: the call p is in, with the table it builds

vars == <<free, trapframe, pt, sz, k>>

None == 0
MAXVA == PTES ^ LEVELS
TRAMPOLINE == MAXVA - 1
TRAPFRAME == MAXVA - 2
PGROUNDUP(s) == ((s + PGSIZE - 1) \div PGSIZE) * PGSIZE
Pages(s) == PGROUNDUP(s) \div PGSIZE

\* A page table: its own pages, by level and place, and the leaves by va.
NoPt == [node |-> <<>>, leaf |-> <<>>]
Nodes(va) == {<<l, va \div (PTES ^ (l + 1))>> : l \in 0..LEVELS - 1}
Images(pg) == {pg.node[x] : x \in DOMAIN pg.node} \cup {pg.leaf[v] : v \in DOMAIN pg.leaf \ {TRAMPOLINE, TRAPFRAME}}

User == [pc |-> "user", to |-> None, pt |-> NoPt, sz |-> 0, old |-> 0, a |-> 0, new |-> 0]
Unused == [User EXCEPT !.pc = "unused"]

TypeOK ==
    /\ free \subseteq Page
    /\ trapframe \in [Proc -> Page \cup {None}]
    /\ sz \in [Proc -> 0..MaxSz]
    /\ \A p \in Proc :
          /\ k[p].pc \in {"user", "unused", "embryo", "zombie", "grow", "table", "copy", "newtable", "segment", "args"}
          /\ Range(pt[p].leaf) \subseteq Page \cup {None} /\ Range(k[p].pt.leaf) \subseteq Page \cup {None}

(***************************************************************************)
(* Building tables: each takes the free pages fr and returns what is left. *)
(***************************************************************************)
\* The j-th free page; which ones are taken first does not matter.
Nth(fr, j) == CHOOSE x \in fr : Cardinality({y \in fr : y < x}) = j - 1

\* walk(pg, va, 1): the missing pages of the table, root first, as far as fr goes.
walk(pg, va, fr) ==
    LET missing == Nodes(va) \ DOMAIN pg.node
        rank(x) == Cardinality({y \in missing : y[1] >= x[1]})
        got == {x \in missing : rank(x) <= Cardinality(fr)}
        page == [x \in got |-> Nth(fr, rank(x))]
    IN [ok |-> got = missing, fr |-> fr \ Range(page),
        pg |-> [pg EXCEPT !.node = [x \in DOMAIN @ \cup got |-> IF x \in got THEN page[x] ELSE @[x]]]]

\* mappages() of one page.
mappages(pg, va, page, fr) ==
    LET w == walk(pg, va, fr) IN
    IF ~w.ok THEN w
    ELSE [w EXCEPT !.pg.leaf = [v \in DOMAIN @ \cup {va} |-> IF v = va THEN page ELSE @[v]]]

\* The page is not given back (mutant of MapNew).
MapNewLeak(pg, va, fr) ==
    IF fr = {} THEN [ok |-> FALSE, fr |-> fr, pg |-> pg]
    ELSE mappages(pg, va, Min(fr), fr \ {Min(fr)})

\* kalloc() of a page and its mapping at va; the page goes back when that fails.
MapNew(pg, va, fr) ==
    IF fr = {} THEN [ok |-> FALSE, fr |-> fr, pg |-> pg]
    ELSE LET m == mappages(pg, va, Min(fr), fr \ {Min(fr)}) IN
         IF m.ok THEN m ELSE [m EXCEPT !.fr = @ \cup {Min(fr)}]

\* The table without the leaves vs, as uvmunmap() leaves it.
uvmunmap(pg, vs) == [pg EXCEPT !.leaf = [v \in DOMAIN @ \ vs |-> @[v]]]

\* The pages that uvmdealloc() unmaps.
Dealloc(old, new) == Pages(new)..Pages(old) - 1

PagesAt(pg, vs) == {pg.leaf[v] : v \in vs \cap DOMAIN pg.leaf}

\* The pages that freewalk() frees, which are the table itself, and uvmfree().
freewalk(pg) == Range(pg.node)
uvmfree(pg, s) == PagesAt(pg, 0..Pages(s) - 1) \cup freewalk(pg)

\* uvmcreate(): the root page.
uvmcreate(fr) ==
    IF fr = {} THEN [ok |-> FALSE, fr |-> fr, pg |-> NoPt]
    ELSE [ok |-> TRUE, fr |-> fr \ {Min(fr)},
          pg |-> [NoPt EXCEPT !.node = [x \in {<<LEVELS - 1, 0>>} |-> Min(fr)]]]

\* proc_pagetable(): the root and the two top mappings; when one of these fails,
\* uvmfree() gives back the pages of the table.
proc_pagetable(fr) ==
    LET r == uvmcreate(fr)
        t == mappages(r.pg, TRAMPOLINE, None, r.fr)
        f == mappages(t.pg, TRAPFRAME, None, t.fr)
        failed(m, pg) == [ok |-> FALSE, fr |-> m.fr \cup uvmfree(pg, 0), pg |-> NoPt]
    IN IF ~r.ok THEN r
       ELSE IF ~t.ok THEN failed(t, t.pg)
       ELSE IF ~f.ok THEN failed(f, uvmunmap(f.pg, {TRAMPOLINE}))
       ELSE f

\* proc_freepagetable(): the two top pages are unmapped and not freed.
proc_freepagetable(pg, s) == uvmfree(uvmunmap(pg, {TRAMPOLINE, TRAPFRAME}), s)

(***************************************************************************)
(* userinit()                                                              *)
(***************************************************************************)
Init ==
    LET f == Min(Page)
        t == proc_pagetable(Page \ {f})
        u == MapNew(t.pg, 0, t.fr)
    IN
    /\ free = u.fr
    /\ trapframe = [p \in Proc |-> IF p = initproc THEN f ELSE None]
    /\ pt = [p \in Proc |-> IF p = initproc THEN u.pg ELSE NoPt]
    /\ sz = [p \in Proc |-> IF p = initproc THEN PGSIZE ELSE 0]
    /\ k = [p \in Proc |-> IF p = initproc THEN User ELSE Unused]

Goto(p, r) == k' = [k EXCEPT ![p] = r]

(***************************************************************************)
(* sbrk(): growproc(), uvmalloc() and uvmdealloc()                         *)
(***************************************************************************)

\* growproc()'s sz + n, in an unsigned int.
NewSz(s, n) == (s + n) % UINT

\* While it grows, the table is the one in k[p].
Sbrk(p, n) ==
    LET new == NewSz(sz[p], n) IN
    /\ k[p].pc = "user" /\ sz[p] + n <= MaxSz
    /\ IF n > 0
       THEN /\ Goto(p, [User EXCEPT !.pc = "grow", !.to = "sbrk", !.pt = pt[p], !.old = PGROUNDUP(sz[p]),
                                    !.a = PGROUNDUP(sz[p]), !.new = new])
            /\ pt' = [pt EXCEPT ![p] = NoPt]
            /\ UNCHANGED <<free, sz>>
       ELSE /\ IF new >= sz[p] THEN UNCHANGED <<free, pt, sz>>
               ELSE /\ free' = free \cup PagesAt(pt[p], Dealloc(sz[p], new))
                    /\ pt' = [pt EXCEPT ![p] = uvmunmap(@, Dealloc(sz[p], new))]
                    /\ sz' = [sz EXCEPT ![p] = new]
            /\ UNCHANGED k
    /\ UNCHANGED trapframe

\* exec() gives up: everything it has built goes.
Bad(p, pg, s, fr) ==
    /\ free' = fr \cup proc_freepagetable(pg, s)
    /\ Goto(p, User)
    /\ UNCHANGED <<pt, sz>>

\* uvmalloc() has what it was asked for, or has given up with the table pg.
Grown(p, ok, pg, fr) ==
    LET r == k[p] IN
    CASE r.to = "sbrk" ->
            /\ pt' = [pt EXCEPT ![p] = pg]
            /\ sz' = [sz EXCEPT ![p] = IF ok THEN r.new ELSE @]
            /\ free' = fr /\ Goto(p, User)
      [] r.to # "sbrk" /\ ~ok -> Bad(p, pg, r.sz, fr)
      [] OTHER -> /\ Goto(p, [r EXCEPT !.pc = r.to, !.pt = pg, !.sz = r.new])
                  /\ free' = fr /\ UNCHANGED <<pt, sz>>

\* One turn of uvmalloc()'s loop, or its end.
uvmalloc(p) ==
    LET r == k[p]
        m == MapNew(r.pt, r.a \div PGSIZE, free)
    IN
    /\ r.pc = "grow"
    /\ IF r.a >= r.new THEN Grown(p, TRUE, r.pt, free)
       ELSE IF m.ok
       THEN /\ free' = m.fr
            /\ Goto(p, [r EXCEPT !.pt = m.pg, !.a = @ + PGSIZE])
            /\ UNCHANGED <<pt, sz>>
       ELSE Grown(p, FALSE, uvmunmap(m.pg, Dealloc(r.a, r.old)), m.fr \cup PagesAt(m.pg, Dealloc(r.a, r.old)))
    /\ UNCHANGED trapframe

(***************************************************************************)
(* fork(): allocproc(), uvmcopy() and, on failure, freeproc()              *)
(***************************************************************************)
Fork(p, q) ==
    /\ k[p].pc = "user" /\ k[q].pc = "unused"
    /\ IF free = {} THEN UNCHANGED <<free, trapframe, k>>
       ELSE /\ free' = free \ {Min(free)}
            /\ trapframe' = [trapframe EXCEPT ![q] = Min(free)]
            /\ k' = [k EXCEPT ![p] = [User EXCEPT !.pc = "table", !.to = q], ![q] = [Unused EXCEPT !.pc = "embryo"]]
    /\ UNCHANGED <<pt, sz>>

\* freeproc(q), and p goes on; q's page table is pg and fr what was free.
freeproc(p, q, pg, s, fr) ==
    /\ free' = fr \cup proc_freepagetable(pg, s) \cup ({trapframe[q]} \ {None})
    /\ trapframe' = [trapframe EXCEPT ![q] = None]
    /\ pt' = [pt EXCEPT ![q] = NoPt] /\ sz' = [sz EXCEPT ![q] = 0]
    /\ k' = [k EXCEPT ![q] = Unused, ![p] = User]

ForkTable(p) ==
    LET q == k[p].to
        t == proc_pagetable(free)
    IN
    /\ k[p].pc = "table"
    /\ IF t.ok THEN /\ free' = t.fr /\ pt' = [pt EXCEPT ![q] = t.pg]
                    /\ Goto(p, [k[p] EXCEPT !.pc = "copy"]) /\ UNCHANGED <<trapframe, sz>>
       ELSE freeproc(p, q, NoPt, 0, t.fr)

uvmcopy(p) ==
    LET r == k[p]
        q == r.to
        m == MapNew(pt[q], r.a \div PGSIZE, free)
        copied == 0..(r.a \div PGSIZE) - 1
    IN
    /\ r.pc = "copy"
    /\ IF r.a >= sz[p]
       THEN /\ sz' = [sz EXCEPT ![q] = sz[p]]
            /\ k' = [k EXCEPT ![p] = User, ![q] = User] /\ UNCHANGED <<free, trapframe, pt>>
       ELSE IF m.ok
       THEN /\ free' = m.fr /\ pt' = [pt EXCEPT ![q] = m.pg]
            /\ Goto(p, [r EXCEPT !.a = @ + PGSIZE]) /\ UNCHANGED <<trapframe, sz>>
       ELSE freeproc(p, q, uvmunmap(m.pg, copied), 0, m.fr \cup PagesAt(m.pg, copied))

(***************************************************************************)
(* exec()                                                                  *)
(***************************************************************************)
\* The file is a program, and there is room for an empty table.
Exec(p) ==
    LET t == proc_pagetable(free) IN
    /\ k[p].pc = "user"
    /\ free' = t.fr
    /\ IF t.ok THEN Goto(p, [User EXCEPT !.pc = "segment", !.pt = t.pg]) ELSE UNCHANGED k
    /\ UNCHANGED <<trapframe, pt, sz>>

\* Ask uvmalloc() to bring the new image to end; then go to place to.
Extend(p, end, to) ==
    LET r == k[p] IN
    Goto(p, [r EXCEPT !.pc = "grow", !.to = to, !.old = PGROUNDUP(r.sz), !.a = PGROUNDUP(r.sz),
                      !.new = IF end < r.sz THEN r.sz ELSE end])

\* The next segment of the file, or the stack's two pages after the last.
ExecSegment(p) ==
    /\ k[p].pc = "segment"
    /\ \/ \E end \in Segment : end > k[p].sz /\ Extend(p, end, "segment")
       \/ Extend(p, PGROUNDUP(k[p].sz) + 2 * PGSIZE, "args")
    /\ UNCHANGED <<free, trapframe, pt, sz>>

\* A header or, in loadseg(), a segment cannot be read.
LoadFails(p) ==
    /\ k[p].pc = "segment"
    /\ Bad(p, k[p].pt, k[p].sz, free)
    /\ UNCHANGED trapframe

\* The arguments fit on the stack, and the new image replaces the old, or not.
ExecArgs(p) ==
    /\ k[p].pc = "args"
    /\ \/ /\ free' = free \cup proc_freepagetable(pt[p], sz[p])
          /\ pt' = [pt EXCEPT ![p] = k[p].pt] /\ sz' = [sz EXCEPT ![p] = k[p].sz]
          /\ Goto(p, User)
       \/ Bad(p, k[p].pt, k[p].sz, free)
    /\ UNCHANGED trapframe

\* p exits and its parent's wait() frees it.
Exit(p) ==
    /\ k[p].pc = "user" /\ p # initproc
    /\ Goto(p, [Unused EXCEPT !.pc = "zombie"])
    /\ UNCHANGED <<free, trapframe, pt, sz>>

Wait(q) ==
    /\ k[q].pc = "zombie"
    /\ free' = free \cup proc_freepagetable(pt[q], sz[q]) \cup {trapframe[q]}
    /\ trapframe' = [trapframe EXCEPT ![q] = None]
    /\ pt' = [pt EXCEPT ![q] = NoPt] /\ sz' = [sz EXCEPT ![q] = 0]
    /\ Goto(q, Unused)

Next ==
    \E p \in Proc :
        \/ \E n \in Grow : Sbrk(p, n)
        \/ uvmalloc(p) \/ ForkTable(p) \/ uvmcopy(p) \/ Exec(p) \/ ExecSegment(p) \/ LoadFails(p) \/ ExecArgs(p)
        \/ Exit(p) \/ Wait(p)
        \/ \E q \in Proc : Fork(p, q)

Spec == Init /\ [][Next]_vars

-----------------------------------------------------------------------------
\* The pages a process owns, counted once for each place they are in.
Owned(p) == Images(pt[p]) \cup Images(k[p].pt) \cup ({trapframe[p]} \ {None})
Places(pg) == Cardinality(DOMAIN pg.node) + Cardinality(DOMAIN pg.leaf \ {TRAMPOLINE, TRAPFRAME})

\* Every page is free or in exactly one place of one process, whatever fails and
\* whoever allocates at the same time: nothing leaks, nothing is shared, nothing
\* is freed twice.
PagesOwned ==
    /\ free \cup UNION {Owned(p) : p \in Proc} = Page
    /\ Cardinality(Page) = Cardinality(free)
          + MapThenSumSet(LAMBDA p : Places(pt[p]) + Places(k[p].pt) + (IF trapframe[p] = None THEN 0 ELSE 1), Proc)

\* The leaves of a table with s bytes.
Image(s) == 0..Pages(s) - 1 \cup {TRAMPOLINE, TRAPFRAME}

\* The pages mapped are exactly those below the size, during a call those it has
\* reached, each with its way down the table.  So uvmunmap(), uvmcopy() and
\* freewalk() never meet a page that is missing, or a leaf that is left, and panic.
Mapped ==
    \A p \in Proc :
        LET r == k[p]
            has(pg, s) == /\ DOMAIN pg.leaf = Image(s)
                          /\ \A v \in Image(s) : Nodes(v) \subseteq DOMAIN pg.node
        IN /\ r.pc \in {"user", "zombie", "copy", "segment", "args"} => has(pt[p], sz[p])
           /\ r.pc \in {"segment", "args"} => has(r.pt, r.sz)
           /\ r.pc = "grow" => has(r.pt, r.a)
           /\ r.pc = "copy" => has(pt[r.to], r.a)
=============================================================================
