------------------------------- MODULE LineEdit -------------------------------
(* What the console promises about its input: keys edit a line, the line is    *)
(* handed over when it ends or when there is no more room, and readers get      *)
(* the characters in the order in which they were typed.                        *)
EXTENDS Integers, Sequences

CONSTANTS Char, Room   \* ordinary characters; how many characters fit

VARIABLES ready, line   \* what readers may have; what can still be edited

Ends(c) == c \in {"nl", "eof"}

Init == ready = <<>> /\ line = <<>>

Type(c) ==
    /\ Len(ready) + Len(line) < Room
    /\ IF Ends(c) \/ Len(ready) + Len(line) + 1 = Room
       THEN ready' = ready \o Append(line, c) /\ line' = <<>>
       ELSE line' = Append(line, c) /\ UNCHANGED ready

Erase ==
    /\ line # <<>>
    /\ line' = SubSeq(line, 1, Len(line) - 1)
    /\ UNCHANGED ready

Kill == line' = <<>> /\ UNCHANGED ready

Read ==
    /\ ready # <<>>
    /\ ready' = Tail(ready)
    /\ UNCHANGED line

Next == Erase \/ Kill \/ Read \/ \E c \in Char \cup {"nl", "eof"} : Type(c)

Spec == Init /\ [][Next]_<<ready, line>>
=============================================================================
