------------------------------ MODULE UserCopy ------------------------------
(* copyin(), copyout() and copyinstr() (vm.c) with fetchstr() (syscall.c):     *)
(* loops over the pages of a user range, one step for each page, for every     *)
(* page table, address and length within the bounds.  Pages lie in physical    *)
(* memory in reverse order, so that a range is never contiguous there.         *)
EXTENDS Integers, Sequences, FiniteSets, FiniteSetsExt

CONSTANTS
    PGSIZE, Pages,      \* bounds: bytes of a page, pages below MAXVA
    MaxLen              \* bound: len or max of a call

VARIABLES
    op, start, count,   \* the call: which function, its address, its len or max
    perm,               \* perm[k]: page k is "none", "kernel" (without PTE_U) or "user"
    mem,                \* physical memory
    va, len,            \* srcva or dstva; len or max
    buf,                \* the kernel's buffer so far (copyin, copyinstr)
    got_null, result

vars == <<op, start, count, perm, mem, va, len, buf, got_null, result>>
call == <<op, start, count, perm>>

MAXVA == PGSIZE * Pages
Phys == 0..MAXVA - 1
Nul == 0
Old(a) == a + 1                   \* what lies at physical address a at first
New(k) == MAXVA + k               \* byte k that copyout() is to write
Byte == 0..2 * MAXVA

TypeOK ==
    /\ op \in {"in", "out", "str"} /\ start \in 0..MAXVA + 1 /\ count \in 0..MaxLen
    /\ mem \in [Phys -> Byte]
    /\ va \in 0..MAXVA + PGSIZE /\ len \in 0..MaxLen
    /\ buf \in Seq(Byte) /\ Len(buf) <= count
    /\ got_null \in BOOLEAN /\ result \in {"none", "ok", "error"}

\* Strings are made of 1s and 0s; the other calls see bytes that all differ.
Init ==
    /\ op \in {"in", "out", "str"} /\ start \in 0..MAXVA + 1 /\ count \in 0..MaxLen
    /\ perm \in [0..Pages - 1 -> {"none", "kernel", "user"}]
    /\ mem \in IF op = "str" THEN [Phys -> {Nul, 1}] ELSE {[a \in Phys |-> Old(a)]}
    /\ va = start /\ len = count
    /\ buf = <<>> /\ got_null = FALSE /\ result = "none"

Mapped(page) == page < Pages /\ perm[page] = "user"

\* walkaddr(), for an address that Mapped has allowed.
walkaddr(v) == (Pages - 1 - (v \div PGSIZE)) * PGSIZE + (v % PGSIZE)

Chunk == Min({PGSIZE - (va % PGSIZE), len})

\* One page further from an address inside a page (mutant of NextVa).
NextVaOff == va + PGSIZE

NextVa == ((va \div PGSIZE) + 1) * PGSIZE

Fail ==
    /\ result = "none" /\ len > 0 /\ ~got_null /\ ~Mapped(va \div PGSIZE)
    /\ result' = "error"
    /\ UNCHANGED <<call, mem, va, len, buf, got_null>>

\* The turn of a loop, on a page that is mapped.
Turn == result = "none" /\ len > 0 /\ ~got_null /\ Mapped(va \div PGSIZE) /\ va' = NextVa /\ UNCHANGED <<call, result>>

copyin ==
    /\ op = "in" /\ Turn
    /\ buf' = buf \o [k \in 1..Chunk |-> mem[walkaddr(va) + k - 1]]
    /\ len' = len - Chunk
    /\ UNCHANGED <<mem, got_null>>

copyout ==
    /\ op = "out" /\ Turn
    /\ mem' = [a \in Phys |-> IF a \in walkaddr(va)..walkaddr(va) + Chunk - 1
                              THEN New(count - len + a - walkaddr(va)) ELSE mem[a]]
    /\ len' = len - Chunk
    /\ UNCHANGED <<buf, got_null>>

\* The inner loop of copyinstr() ends at the first 0 or at the end of the chunk.
copyinstr ==
    LET zeros == {k \in 1..Chunk : mem[walkaddr(va) + k - 1] = Nul}
        n == IF zeros = {} THEN Chunk ELSE Min(zeros)
    IN
    /\ op = "str" /\ Turn
    /\ buf' = buf \o [k \in 1..n |-> mem[walkaddr(va) + k - 1]]
    /\ got_null' = (zeros # {})
    /\ len' = IF zeros = {} THEN len - n ELSE len - n + 1
    /\ UNCHANGED mem

Outcome == IF op = "str" /\ ~got_null THEN "error" ELSE "ok"

Finish ==
    /\ result = "none" /\ (len = 0 \/ got_null)
    /\ result' = Outcome
    /\ UNCHANGED <<call, mem, va, len, buf, got_null>>

Next == Fail \/ copyin \/ copyout \/ copyinstr \/ Finish
Spec == Init /\ [][Next]_vars

\* fetchstr(): strlen() of the copy.
fetchstr == IF result = "ok" THEN Min({k \in 1..Len(buf) : buf[k] = Nul}) - 1 ELSE -1

-----------------------------------------------------------------------------
IsUser(v) == v < MAXVA /\ perm[v \div PGSIZE] = "user"
Wanted == start..start + count - 1

\* copyin() and copyout() succeed exactly when the program may use every byte of
\* the range; the copy is byte by byte what the addresses mean, however the range
\* lies in pages; and copyout() changes no other byte, also when it fails half way.
CopyExact ==
    op # "str" /\ result # "none" =>
        LET done == IF result = "ok" THEN Wanted ELSE {v \in Wanted : v < va}
        IN
        /\ result = "ok" <=> \A v \in Wanted : IsUser(v)
        /\ \A v \in done : IsUser(v)
        /\ op = "in" =>
              /\ Len(buf) = Cardinality(done)
              /\ \A v \in done : buf[v - start + 1] = Old(walkaddr(v))
        /\ op = "out" =>
              \A v \in 0..MAXVA - 1 : mem[walkaddr(v)] = IF v \in done THEN New(v - start) ELSE Old(walkaddr(v))

\* copyinstr() succeeds exactly when there is a 0 among the first max bytes and the
\* program may use every byte up to it; then the copy ends with that 0.
StringExact ==
    op = "str" /\ result # "none" =>
        LET ends == {v \in Wanted : /\ \A u \in start..v : IsUser(u)
                                    /\ mem[walkaddr(v)] = Nul
                                    /\ \A u \in start..v - 1 : mem[walkaddr(u)] # Nul}
        IN
        /\ result = "ok" <=> ends # {}
        /\ \A v \in ends : buf = [k \in 1..v - start + 1 |-> mem[walkaddr(start + k - 1)]]

\* argstr(), which returns what fetchstr() returns, counts the 0.
ArgstrCountsNul == op = "str" /\ result = "ok" => fetchstr = Len(buf)
=============================================================================
