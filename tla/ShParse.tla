------------------------------- MODULE ShParse -------------------------------
(* The shell's parser (sh.c).  A behaviour types a line, one character at a    *)
(* time, and parsecmd() parses it and then writes its zeros into it.  The      *)
(* parser is a set of operators on the buffer, one for each function, and a    *)
(* position stands for the pointer *ps.  A word is where it starts (q) and     *)
(* ends (eq); "a" stands for every character of words, " " for whitespace.     *)
EXTENDS Integers, Sequences, FiniteSets

CONSTANTS
    MAXARGS,
    MaxLine       \* bound: characters of a line

VARIABLES
    buf,
    cmd,          \* what parseline() returned, with the check for leftovers
    pc,           \* "type", "parsed", "run" (runcmd() may start) or "panic"
    line          \* history: the line as it was typed

vars == <<buf, cmd, pc, line>>

Symbol == {"<", "|", ">", "&", ";", "(", ")"}
Panic == [ok |-> FALSE]
TypeOK ==
    /\ line \in Seq({"a", " "} \cup Symbol) /\ Len(line) <= MaxLine
    /\ buf \in Seq({"a", " ", "nul"} \cup Symbol) /\ Len(buf) = Len(line)
    /\ pc \in {"type", "parsed", "run", "panic"}
    /\ pc \in {"parsed", "run"} <=> cmd.ok

Init == buf = <<>> /\ cmd = Panic /\ pc = "type" /\ line = <<>>

\* getcmd(): gets() stops when the buffer is full.
Type(c) ==
    /\ pc = "type" /\ Len(buf) < MaxLine
    /\ buf' = Append(buf, c) /\ line' = Append(line, c)
    /\ UNCHANGED <<cmd, pc>>

(***************************************************************************)
(* Tokens                                                                  *)
(***************************************************************************)
es == Len(buf) + 1
At(i) == IF i < es THEN buf[i] ELSE "nul"

\* The first position from i on that is not of a class of characters.
Past(i, class) == CHOOSE j \in i..es : At(j) \notin class /\ \A k \in i..j - 1 : At(k) \in class

\* The token that starts at q, which is not whitespace.
Token(q, append) ==
    LET eq == IF At(q) = "a" THEN Past(q, {"a"})
              ELSE IF q = es THEN q ELSE IF append THEN q + 2 ELSE q + 1
    IN  [tok |-> IF append THEN "+" ELSE At(q), q |-> q, eq |-> eq, s |-> Past(eq, {" "})]
TokenAt(q) == Token(q, At(q) = ">" /\ At(q + 1) = ">")
gettoken(i) == TokenAt(Past(i, {" "}))

peek(i, toks) == At(Past(i, {" "})) \in toks

(***************************************************************************)
(* Commands and their parsers, which return a command and the position     *)
(* behind it, or Panic                                                     *)
(***************************************************************************)
execcmd(argv) == [type |-> "EXEC", argv |-> argv]
redircmd(c, file, mode) == [type |-> "REDIR", cmd |-> c, file |-> file, mode |-> mode]
pipecmd(left, right) == [type |-> "PIPE", left |-> left, right |-> right]
listcmd(left, right) == [type |-> "LIST", left |-> left, right |-> right]
backcmd(c) == [type |-> "BACK", cmd |-> c]

Parsed(c, s) == [ok |-> TRUE, cmd |-> c, s |-> s]
Word(t) == <<t.q, t.eq>>

TooMany(argc) == argc >= MAXARGS

RECURSIVE parseline(_), parsepipe(_), parseredirs(_, _), parseargs(_, _), Wrap(_, _)

\* The redirections rs around a command, the last one outermost.
Wrap(c, rs) ==
    IF rs = <<>> THEN c
    ELSE Wrap(redircmd(c, rs[1].file, rs[1].mode), Tail(rs))

\* The redirections from i on, added to rs.
RedirTo(mode, file, rs) ==
    IF file.tok # "a" THEN Panic
    ELSE parseredirs(file.s, Append(rs, [file |-> Word(file), mode |-> mode]))
Redir(tok, rs) == RedirTo(tok.tok, gettoken(tok.s), rs)
parseredirs(i, rs) ==
    IF peek(i, {"<", ">"}) THEN Redir(gettoken(i), rs) ELSE [ok |-> TRUE, rs |-> rs, s |-> i]

\* The loop of parseexec(), which starts behind the redirections r.
Arg(t, argv, r) ==
    IF t.tok = "nul" THEN Parsed(Wrap(execcmd(argv), r.rs), r.s)
    ELSE IF t.tok # "a" \/ TooMany(Len(argv) + 1) THEN Panic
    ELSE parseargs(parseredirs(t.s, r.rs), Append(argv, Word(t)))
parseargs(r, argv) ==
    IF ~r.ok THEN Panic
    ELSE IF peek(r.s, {"|", ")", "&", ";"}) THEN Parsed(Wrap(execcmd(argv), r.rs), r.s)
    ELSE Arg(gettoken(r.s), argv, r)

Block(b, r) == IF r.ok THEN Parsed(Wrap(b.cmd, r.rs), r.s) ELSE Panic
BlockRest(b) ==
    IF b.ok /\ peek(b.s, {")"}) THEN Block(b, parseredirs(gettoken(b.s).s, <<>>)) ELSE Panic
parseblock(i) == BlockRest(parseline(gettoken(i).s))

parseexec(i) == IF peek(i, {"("}) THEN parseblock(i) ELSE parseargs(parseredirs(i, <<>>), <<>>)

Piped(l, r) == IF r.ok THEN Parsed(pipecmd(l.cmd, r.cmd), r.s) ELSE Panic

\* A pipe takes one command on its right (mutant of PipeRest).
PipeRestFlat(l) ==
    IF l.ok /\ peek(l.s, {"|"}) THEN Piped(l, parseexec(gettoken(l.s).s)) ELSE l

PipeRest(l) ==
    IF l.ok /\ peek(l.s, {"|"}) THEN Piped(l, parsepipe(gettoken(l.s).s)) ELSE l
parsepipe(i) == PipeRest(parseexec(i))

RECURSIVE parseback(_)
parseback(l) ==
    IF l.ok /\ peek(l.s, {"&"}) THEN parseback(Parsed(backcmd(l.cmd), gettoken(l.s).s)) ELSE l

Listed(l, r) == IF r.ok THEN Parsed(listcmd(l.cmd, r.cmd), r.s) ELSE Panic
LineRest(l) ==
    IF l.ok /\ peek(l.s, {";"}) THEN Listed(l, parseline(gettoken(l.s).s)) ELSE l
parseline(i) == LineRest(parseback(parsepipe(i)))

\* Leftovers are a syntax error.
Whole(l) == IF l.ok /\ Past(l.s, {" "}) # es THEN Panic ELSE l

\* parsecmd() up to its call of nulterminate().
parsecmd ==
    LET l == Whole(parseline(1)) IN
    /\ pc = "type"
    /\ cmd' = l /\ pc' = IF l.ok THEN "parsed" ELSE "panic"
    /\ UNCHANGED <<buf, line>>

\* The buffer b with zeros behind the words of c, whatever was there.
Zeroed(b, ends) == [k \in DOMAIN b |-> IF k \in ends THEN "nul" ELSE b[k]]
RECURSIVE nulterminate(_, _)
nulterminate(c, b) ==
    CASE c.type = "EXEC" -> Zeroed(b, {c.argv[k][2] : k \in DOMAIN c.argv})
      [] c.type = "REDIR" -> Zeroed(nulterminate(c.cmd, b), {c.file[2]})
      [] c.type = "BACK" -> nulterminate(c.cmd, b)
      [] OTHER -> nulterminate(c.right, nulterminate(c.left, b))

Terminate ==
    /\ pc = "parsed"
    /\ buf' = nulterminate(cmd.cmd, buf) /\ pc' = "run"
    /\ UNCHANGED <<cmd, line>>

Next == parsecmd \/ Terminate \/ \E c \in {"a", " "} \cup Symbol : Type(c)
Spec == Init /\ [][Next]_vars

-----------------------------------------------------------------------------
\* The line as tokens, and the grammar on ranges of tokens:
\*   line = back [; line]   back = pipe {&}   pipe = command [| pipe]
\* where operators inside parentheses do not count.
RECURSIVE Tokens(_)
Tokens(i) == LET t == gettoken(i) IN IF t.tok = "nul" THEN <<>> ELSE <<t>> \o Tokens(t.s)

Bad == [type |-> "bad"]
Kind(ts, k) == ts[k].tok
Depth(ts, k) ==
    Cardinality({j \in 1..k - 1 : Kind(ts, j) = "("}) - Cardinality({j \in 1..k - 1 : Kind(ts, j) = ")"})
Splits(ts, op) == {k \in DOMAIN ts : Kind(ts, k) = op /\ Depth(ts, k) = 0}
First(S) == CHOOSE k \in S : \A j \in S : k <= j

\* In a simple command every token is a word, or a redirection and its word.
IsFile(ts, k) == k > 1 /\ Kind(ts, k - 1) \in {"<", ">", "+"}
Simple(ts) ==
    \A k \in DOMAIN ts :
        \/ Kind(ts, k) = "a"
        \/ Kind(ts, k) \in {"<", ">", "+"} /\ k < Len(ts) /\ Kind(ts, k + 1) = "a"
OnlyFiles(ts) == \A k \in DOMAIN ts : Kind(ts, k) = "a" => IsFile(ts, k)

\* The tokens with a property, in order.
Chosen(ts, P(_)) ==
    LET ks == {k \in DOMAIN ts : P(k)}
    IN  [n \in 1..Cardinality(ks) |-> CHOOSE k \in ks : Cardinality({j \in ks : j < k}) = n - 1]
Redirs(ts) ==
    LET ks == Chosen(ts, LAMBDA k : IsFile(ts, k))
    IN  [n \in DOMAIN ks |-> [file |-> Word(ts[ks[n]]), mode |-> Kind(ts, ks[n] - 1)]]
Args(ts) ==
    LET ks == Chosen(ts, LAMBDA k : Kind(ts, k) = "a" /\ ~IsFile(ts, k))
    IN  [n \in DOMAIN ks |-> Word(ts[ks[n]])]

RECURSIVE Grammar(_)
Both(type, l, r) == IF Bad \in {l, r} THEN Bad ELSE [type |-> type, left |-> l, right |-> r]
Grammar(ts) ==
    LET semi == Splits(ts, ";")
        bar == Splits(ts, "|")
        n == Len(ts)
        close == {k \in DOMAIN ts : Kind(ts, k) = ")" /\ Depth(ts, k) = 1}
        inner == Grammar(SubSeq(ts, 2, First(close) - 1))
        after == SubSeq(ts, First(close) + 1, n)
    IN  CASE semi # {} -> Both("LIST", Grammar(SubSeq(ts, 1, First(semi) - 1)), Grammar(SubSeq(ts, First(semi) + 1, n)))
          [] semi = {} /\ n > 0 /\ Kind(ts, n) = "&" ->
                LET l == Grammar(SubSeq(ts, 1, n - 1)) IN IF l = Bad THEN Bad ELSE backcmd(l)
          [] semi = {} /\ n > 0 /\ Kind(ts, n) # "&" /\ bar # {} ->
                LET l == SubSeq(ts, 1, First(bar) - 1)
                    r == SubSeq(ts, First(bar) + 1, n)
                IN  IF l # <<>> /\ Kind(l, Len(l)) = "&" THEN Bad ELSE Both("PIPE", Grammar(l), Grammar(r))
          [] semi = {} /\ bar = {} /\ n > 0 /\ Kind(ts, n) # "&" /\ Kind(ts, 1) = "(" ->
                IF close # {} /\ inner # Bad /\ Simple(after) /\ OnlyFiles(after)
                THEN Wrap(inner, Redirs(after)) ELSE Bad
          [] OTHER -> IF Simple(ts) /\ Len(Args(ts)) < MAXARGS THEN Wrap(execcmd(Args(ts)), Redirs(ts)) ELSE Bad

\* The recursive descent accepts exactly the lines of the grammar and builds the
\* tree the grammar gives: precedence, grouping and the nesting of redirections.
ParsesGrammar ==
    /\ pc = "parsed" => cmd.cmd = Grammar(Tokens(1))
    /\ pc = "panic" => Grammar(Tokens(1)) = Bad

\* The 0 that ends argv has a place in the array.
RECURSIVE Argvs(_)
Argvs(c) ==
    CASE c.type = "EXEC" -> {c.argv}
      [] c.type \in {"REDIR", "BACK"} -> Argvs(c.cmd)
      [] OTHER -> Argvs(c.left) \cup Argvs(c.right)
ArgvFits == cmd.ok => \A v \in Argvs(cmd.cmd) : Len(v) + 1 <= MAXARGS

\* The words of a command, and the string that starts at q.
RECURSIVE Words(_)
Words(c) ==
    CASE c.type = "EXEC" -> {c.argv[k] : k \in DOMAIN c.argv}
      [] c.type = "REDIR" -> Words(c.cmd) \cup {c.file}
      [] c.type = "BACK" -> Words(c.cmd)
      [] OTHER -> Words(c.left) \cup Words(c.right)
StringAt(q) == SubSeq(buf, q, First({k \in q..es : At(k) = "nul"}) - 1)

\* When runcmd() starts, every argument and file name reads as the word that was
\* typed, although the zeros overwrite what was behind the words, which can be
\* operators: the parser has read these before, and no zero falls into a word.
WordsTerminated ==
    pc = "run" => \A wd \in Words(cmd.cmd) :
        /\ StringAt(wd[1]) = SubSeq(line, wd[1], wd[2] - 1)
        /\ wd[1] < wd[2]
=============================================================================
