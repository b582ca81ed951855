--------------------------------- MODULE Grep ---------------------------------
(* grep (grep.c): the backtracking matcher, and the loop that cuts what read()  *)
(* returns, in pieces of any size, into lines.                                  *)
EXTENDS Integers, Sequences, SequencesExt

CONSTANTS
    MaxRe, MaxText,   \* bounds: characters of the pattern and of the file
    BUF               \* sizeof(buf)

VARIABLES
    re, text,         \* the pattern and the file
    pos, buf,         \* characters read so far; buf[0..m-1]
    out, done         \* the lines written; "no", "end" or "error", from read()

vars == <<re, text, pos, buf, out, done>>

Seqs(S, n) == UNION {[1..k -> S] : k \in 0..n}

TypeOK ==
    /\ re \in Seqs({"a", ".", "*", "^", "$"}, MaxRe) /\ text \in Seqs({"a", "b", "nl"}, MaxText)
    /\ pos \in 0..Len(text) /\ done \in {"no", "end", "error"}
    /\ Len(buf) < BUF
    /\ out \in Seq(Seq({"a", "b"}))

Init ==
    /\ re \in Seqs({"a", ".", "*", "^", "$"}, MaxRe) /\ text \in Seqs({"a", "b", "nl"}, MaxText)
    /\ pos = 0 /\ buf = <<>> /\ out = <<>> /\ done = "no"

(***************************************************************************)
(* match(), matchhere() and matchstar(): r and t are positions             *)
(***************************************************************************)
At(s, i) == IF i <= Len(s) THEN s[i] ELSE "nul"

\* The condition of matchstar()'s loop.
Again(c, t, line) == At(line, t) # "nul" /\ (At(line, t) = c \/ c = ".")

RECURSIVE matchhere(_, _, _), matchstar(_, _, _, _)
matchhere(r, t, line) ==
    CASE At(re, r) = "nul" -> TRUE
      [] At(re, r) # "nul" /\ At(re, r + 1) = "*" -> matchstar(At(re, r), r + 2, t, line)
      [] At(re, r) = "$" /\ At(re, r + 1) = "nul" -> At(line, t) = "nul"
      [] OTHER -> At(line, t) # "nul" /\ At(re, r) \in {".", At(line, t)} /\ matchhere(r + 1, t + 1, line)

matchstar(c, r, t, line) ==
    matchhere(r, t, line) \/ (Again(c, t, line) /\ matchstar(c, r, t + 1, line))

match(line) ==
    IF At(re, 1) = "^" THEN matchhere(2, 1, line)
    ELSE \E t \in 1..Len(line) + 1 : matchhere(1, t, line)

(***************************************************************************)
(* grep()                                                                  *)
(***************************************************************************)
\* The lines that end in s, and what follows the last of them.
Ends(s) == {k \in DOMAIN s : s[k] = "nl"}
Lines(s) ==
    LET ends == SetToSortSeq(Ends(s), <) IN
    [n \in DOMAIN ends |-> SubSeq(s, IF n = 1 THEN 1 ELSE ends[n - 1] + 1, ends[n] - 1)]

Rest(s) == IF Ends(s) = {} THEN s ELSE SubSeq(s, (CHOOSE k \in Ends(s) : \A j \in Ends(s) : j <= k) + 1, Len(s))

\* The byte for the 0 is not kept free, or kept free twice (mutants of Room).
RoomLess == BUF - Len(buf) - 2

Room == BUF - Len(buf) - 1

\* read() returns n bytes, fewer than there are or than fit.
Read(n) ==
    LET s == buf \o SubSeq(text, pos + 1, pos + n) IN
    /\ done = "no" /\ n <= Room /\ pos + n <= Len(text)
    /\ pos' = pos + n
    /\ out' = out \o SelectSeq(Lines(s), match)
    /\ buf' = Rest(s)
    /\ UNCHANGED <<re, text, done>>

\* read() returns 0, at the end of the file or when no room is left for a long line,
\* or -1: the loop ends.
Stop ==
    /\ done = "no"
    /\ done' = "error" \/ ((pos = Len(text) \/ Room = 0) /\ done' = "end")
    /\ UNCHANGED <<re, text, pos, buf, out>>

Next == Stop \/ \E n \in 1..BUF : Read(n)
Spec == Init /\ [][Next]_vars

-----------------------------------------------------------------------------
\* The items of a pattern, each a character that may be repeated, and the sets of
\* positions of the line that lie behind a match of the first items.
RECURSIVE Behind(_, _, _)
Behind(r, S, line) ==
    LET c == At(re, r)
        hit(k) == k <= Len(line) /\ c \in {".", line[k]}
        star == {k \in 1..Len(line) + 1 : \E j \in S : j <= k /\ \A i \in j..k - 1 : hit(i)}
    IN  IF c = "nul" THEN S
        ELSE IF At(re, r + 1) = "*" THEN Behind(r + 2, star, line)
        ELSE IF c = "$" /\ r = Len(re) THEN S \cap {Len(line) + 1}
        ELSE Behind(r + 1, {k + 1 : k \in {j \in S : hit(j)}}, line)
Matches(line) ==
    IF At(re, 1) = "^" THEN Behind(2, {1}, line) # {} ELSE Behind(1, 1..Len(line) + 1, line) # {}

\* For a file of complete lines that fit the buffer and is read without error, grep
\* prints exactly the lines that the pattern describes, in order, however read() cuts
\* the file into pieces.
PrintsMatches ==
    (done = "end" /\ Rest(text) = <<>> /\ \A k \in DOMAIN Lines(text) : Len(Lines(text)[k]) + 1 < BUF) =>
        out = SelectSeq(Lines(text), Matches)

\* Nothing is printed twice or out of order: what is printed is always a beginning
\* of the matching lines, also when a line does not fit or read() fails.
PrintsPrefix == IsPrefix(out, SelectSeq(Lines(text), Matches))
=============================================================================
