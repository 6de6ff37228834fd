------------------------------ MODULE CacheLine ------------------------------
(***************************************************************************)
(* The program that stands behind remark on a terminal (src/cacheline.c,    *)
(* examples/logwatcher): it copies what it reads, but holds each newline    *)
(* back until more has come, so that the last line stays on the last row of *)
(* the screen.                                                              *)
(*                                                                         *)
(* Characters are told apart only by whether they are a newline.            *)
(***************************************************************************)
EXTENDS Integers, Sequences, SequencesExt

VARIABLES
    pipe,           \* what was written to it and it has not read
    closed,         \* whether the writer has ended
    held,           \* a newline is held back
    screen          \* what it has printed

cache == <<pipe, closed, held, screen>>

CacheInit == pipe = <<>> /\ closed = FALSE /\ held = FALSE /\ screen = <<>>

(* getline returns a line with its newline, or what there is at the end of   *)
(* the input.                                                                *)
Newlines  == {i \in 1..Len(pipe) : pipe[i] = "newline"}
LineReadyLate == \E i \in Newlines : i < Len(pipe)  \* mutant: the newline is not enough

LineReady == Newlines # {} \/ (closed /\ pipe # <<>>)
LineEnd   == IF Newlines = {} THEN Len(pipe) ELSE CHOOSE i \in Newlines : \A j \in Newlines : i <= j

Held == IF held THEN <<"newline">> ELSE <<>>

CopiedWhole(line) == line       \* mutant: the newline is held and printed

Copied(line) == IF Last(line) = "newline" THEN Front(line) ELSE line

cacheline ==
    /\ LineReady
    /\ LET line == SubSeq(pipe, 1, LineEnd)
       IN  /\ held' = (Last(line) = "newline")
           /\ screen' = screen \o Held \o Copied(line)
           /\ pipe' = SubSeq(pipe, LineEnd + 1, Len(pipe))
    /\ UNCHANGED closed
=============================================================================
