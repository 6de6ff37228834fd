------------------------------ MODULE CursorList ------------------------------
(***************************************************************************)
(* What src/common/llist.h promises: a sequence of values, and an iterator  *)
(* that stands before one of them or behind the last.  Values are put in    *)
(* and taken out anywhere, by the iterator and behind its back.             *)
(*                                                                         *)
(* The iterator keeps its place when something is put in or taken out       *)
(* elsewhere; it is lost when the value it stands before is taken out by    *)
(* someone else, until it is restarted.                                     *)
(***************************************************************************)
EXTENDS Integers, Sequences, SequencesExt

CONSTANTS
    Data,               \* the values
    NULL,               \* nothing was returned
    Died                \* the call ended the program with an internal error

VARIABLES
    seq,                \* the values, in order
    cursor,             \* the index of the value next() returns; 0: lost
    result              \* what the last call returned

vars == <<seq, cursor, result>>

Init == seq = <<>> /\ cursor = 1 /\ result = NULL

Alive == result # Died

(* d becomes the value at index pos.                                         *)
Insert(pos, d) ==
    /\ Alive /\ pos \in 1..(Len(seq) + 1)
    /\ seq' = InsertAt(seq, pos, d)
    /\ cursor' = IF cursor >= pos THEN cursor + 1 ELSE cursor
    /\ result' = NULL

(* The value at index pos is taken out.  A call returns it, or nothing, or   *)
(* (1) that there was one to take out.                                       *)
Delete(pos) ==
    /\ Alive /\ pos \in 1..Len(seq)
    /\ seq' = RemoveAt(seq, pos)
    /\ cursor' = IF cursor = pos THEN 0 ELSE IF cursor > pos THEN cursor - 1 ELSE cursor
    /\ result' \in {seq[pos], NULL, 1}

Clear ==
    /\ Alive
    /\ seq' = <<>>
    /\ cursor' = IF cursor = Len(seq) + 1 THEN 1 ELSE 0
    /\ result' = NULL

TurnAround ==
    /\ Alive
    /\ seq' = Reverse(seq)
    /\ result' = NULL
    /\ UNCHANGED cursor

Get(pos) ==
    /\ Alive
    /\ result' = IF pos \in 1..Len(seq) THEN seq[pos] ELSE NULL
    /\ UNCHANGED <<seq, cursor>>

FirstIndex(d) == SelectInSeq(seq, LAMBDA e : e = d)        \* 0 if there is none
LastIndex(d)  == SelectLastInSeq(seq, LAMBDA e : e = d)

(* Questions: how many, where, whether (1 or 0).                             *)
Ask ==
    /\ Alive
    /\ \/ result' \in {Len(seq), 0, 1}
       \/ \E d \in Data : result' \in {FirstIndex(d) - 1, LastIndex(d) - 1}
    /\ UNCHANGED <<seq, cursor>>

Restart ==
    /\ Alive
    /\ cursor' = 1 /\ result' = NULL
    /\ UNCHANGED seq

Forward ==
    /\ Alive /\ cursor \in 1..Len(seq)
    /\ cursor' = cursor + 1 /\ result' = seq[cursor]
    /\ UNCHANGED seq

Back ==
    /\ Alive /\ cursor \in 2..(Len(seq) + 1)
    /\ cursor' = cursor - 1 /\ result' = seq[cursor - 1]
    /\ UNCHANGED seq

(* The value before the iterator is taken out; the iterator dies if there is *)
(* none.                                                                     *)
RemovePassed ==
    /\ Alive /\ cursor \in 2..(Len(seq) + 1)
    /\ seq' = RemoveAt(seq, cursor - 1)
    /\ cursor' = cursor - 1 /\ result' = NULL

Misuse == Alive /\ cursor = 1 /\ result' = Died /\ UNCHANGED <<seq, cursor>>

Next ==
    \/ \E pos \in 1..(Len(seq) + 1), d \in Data : Insert(pos, d)
    \/ \E pos \in 1..Len(seq) : Delete(pos)
    \/ \E pos \in 0..(Len(seq) + 1) : Get(pos)
    \/ Ask \/ Clear \/ TurnAround \/ Restart \/ Forward \/ Back \/ RemovePassed \/ Misuse

Spec == Init /\ [][Next]_vars
===============================================================================
