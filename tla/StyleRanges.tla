----------------------------- MODULE StyleRanges -----------------------------
(***************************************************************************)
(* insert_style (src/execute.c): the list of style ranges of a line, and   *)
(* the insertion of one more range into it.                                 *)
(*                                                                         *)
(* The list is kept so that apply_styles can print it from left to right:   *)
(* two ranges are either disjoint, in the order of their positions, or the  *)
(* same range, in the order they were applied.  Inserting s1 walks the list *)
(* and cuts s1, and the ranges it meets, until that holds again.  One call  *)
(* is a run of steps: Call, a step for each node it visits, and the return. *)
(*                                                                         *)
(* A list node is an index into "styles"; the index Len(styles) + 1 is the  *)
(* NULL node.                                                               *)
(***************************************************************************)
EXTENDS Integers, Sequences, FiniteSets, SequencesExt

CONSTANTS
    Styles,         \* the styles a rule can name
    N,              \* the number of characters of the text
    MaxRanges       \* bound: no call is made on a list of this many ranges

ASSUME NAssumption == N \in Nat
ASSUME MaxRangesAssumption == MaxRanges \in Nat

VARIABLES
    styles,         \* MatchBuffer.styles: the list of style ranges
    s1,             \* the range being inserted, what is left of it
    old_so,         \* where it started
    node,           \* the node the loop of insert_style looks at
    pc              \* "loop" during a call, "idle" between calls

vars   == <<styles, s1, old_so, node, pc>>
locals == <<s1, old_so, node, pc>>

Characters == 0..(N - 1)
Positions  == 0..N

StyleRange == [style : Styles, so : Nat, eo : Nat]
NoRange    == [style |-> "none", so |-> 0, eo |-> 0]

new_style_range(style, so, eo) == [style |-> style, so |-> so, eo |-> eo]

Empty(r)        == r.so = r.eo
SameRange(x, y) == x.so = y.so /\ x.eo = y.eo

-----------------------------------------------------------------------------
(* The list operations.  Each insort function first walks from the node to  *)
(* the last range equal to it: g, the end of the group that starts at n.     *)

GroupEndsNone(list, n) == {n}       \* mutant: the group is not looked for

GroupEnds(list, n) ==
    {g \in n..Len(list) :
        /\ \A i \in n..g : SameRange(list[i], list[n])
        /\ g < Len(list) => ~SameRange(list[g + 1], list[n])}

(* The ranges n .. g of the list, all moved to so .. eo.                     *)
TrimEarly(list, n, g, so, eo) ==    \* mutant: one character too early
    [i \in 1..(g - n + 1) |-> new_style_range(list[n + i - 1].style, so - 1, eo)]

Trim(list, n, g, so, eo) ==
    [i \in 1..(g - n + 1) |-> new_style_range(list[n + i - 1].style, so, eo)]

lnode_add_before(list, n, r) == InsertAt(list, n, r)
lnode_add_after(list, n, r)  == InsertAt(list, n + 1, r)

(* insort_style1 puts a after the group n .. g.  It returns a's node.        *)
insort_style1_below(list, g, a) == lnode_add_before(list, g, a)     \* mutant

insort_style1(list, g, a) == lnode_add_after(list, g, a)

(* insort_style2 cuts the group in two at p2 and puts the sequence a between *)
(* the halves and b after them (each has one range or none).  It returns the *)
(* last node of what it made.                                                *)
insort_style2(list, n, g, p2, a, b) ==
    LET left  == Trim(list, n, g, list[n].so, p2) \o a
        right == Trim(list, n, g, p2, list[n].eo) \o b
    IN  SubSeq(list, 1, n - 1) \o (left \o right) \o SubSeq(list, g + 1, Len(list))

(* insort_style3 cuts the group in three and puts b on top of the middle.    *)
insort_style3(list, n, g, b) ==
    LET left   == Trim(list, n, g, list[n].so, b.so)
        middle == Trim(list, n, g, b.so, b.eo) \o <<b>>
        right  == Trim(list, n, g, b.eo, list[n].eo)
    IN  SubSeq(list, 1, n - 1) \o (left \o (middle \o right))
            \o SubSeq(list, g + 1, Len(list))

-----------------------------------------------------------------------------
Init ==
    /\ styles = <<>>
    /\ s1 = NoRange /\ old_so = 0 /\ node = 0 /\ pc = "idle"

(* A style rule calls insert_style with the range of its context.            *)
Call(st, so, eo) ==
    /\ pc = "idle"
    /\ pc' = "loop"
    /\ s1' = new_style_range(st, so, eo)
    /\ old_so' = so
    /\ node' = 1
    /\ UNCHANGED styles

(* The ways out of one step: the call returns, or the loop goes to the node *)
(* after "last" with "rest" still to insert.                                 *)
Return(list) ==
    /\ styles' = list
    /\ s1' = NoRange /\ old_so' = 0 /\ node' = 0 /\ pc' = "idle"

Continue(list, last, rest) ==
    /\ styles' = list
    /\ node' = last + 1
    /\ s1' = rest
    /\ UNCHANGED <<old_so, pc>>

s2 == styles[node]
g2 == GroupEnds(styles, node)

AtNode == pc = "loop" /\ node <= Len(styles)

(* The empty s1 at the end of s2.                                            *)
Case5 ==
    /\ AtNode
    /\ Empty(s1) /\ s1.so = s2.eo
    /\ \E g \in g2 : Return(insort_style1(styles, g, s1))

(* The empty s1 strictly inside s2.                                          *)
Case6 ==
    /\ AtNode
    /\ Empty(s1) /\ s2.so < s1.so /\ s1.so < s2.eo
    /\ \E g \in g2 : Return(insort_style2(styles, node, g, s1.eo, <<s1>>, <<>>))

(* The empty s2 at the start of what is left of s1: a copy of s1 goes on top *)
(* of it when s1 started before.                                             *)
Case7 ==
    /\ AtNode
    /\ ~Empty(s1) /\ Empty(s2) /\ s1.so = s2.so
    /\ IF s1.so > old_so
         THEN \E g \in g2 :
                Continue(insort_style1(styles, g, new_style_range(s1.style, s2.so, s2.eo)),
                         g + 1, s1)
         ELSE Continue(styles, node, s1)

Before ==
    /\ AtNode
    /\ ~(Empty(s1) /\ s1.so = s2.eo)
    /\ ~(Empty(s2) /\ s1.so = s2.so)
    /\ s1.eo <= s2.so
    /\ Return(lnode_add_before(styles, node, s1))

(* In the cases that follow neither is empty at the end of the other.        *)
Overlap ==
    /\ AtNode
    /\ ~Empty(s1)
    /\ ~(Empty(s2) /\ s1.so = s2.so)
    /\ s2.so < s1.eo

Case1 ==
    /\ Overlap
    /\ SameRange(s1, s2)
    /\ \E g \in g2 : Return(insort_style1(styles, g, s1))

Case2a ==
    /\ Overlap
    /\ s1.so = s2.so /\ s1.eo < s2.eo
    /\ \E g \in g2 : Return(insort_style2(styles, node, g, s1.eo, <<s1>>, <<>>))

Case2b ==
    /\ Overlap
    /\ s1.so > s2.so /\ s1.eo = s2.eo
    /\ \E g \in g2 : Return(insort_style2(styles, node, g, s1.so, <<>>, <<s1>>))

Case2c ==
    /\ Overlap
    /\ s1.so > s2.so /\ s1.eo < s2.eo
    /\ \E g \in g2 : Return(insort_style3(styles, node, g, s1))

Case3a ==
    /\ Overlap
    /\ s1.so = s2.so /\ s1.eo > s2.eo
    /\ \E g \in g2 :
         Continue(insort_style1(styles, g, new_style_range(s1.style, s2.so, s2.eo)),
                  g + 1, [s1 EXCEPT !.so = s2.eo])

(* 3b, 3c and 4a first put the part of s1 that lies before s2 in front of    *)
(* it, which moves s2 and its group one node on.                             *)
Fronted == lnode_add_before(styles, node, new_style_range(s1.style, s1.so, s2.so))

Case3b ==
    /\ Overlap
    /\ s1.so < s2.so /\ s1.eo = s2.eo
    /\ \E g \in g2 :
         Return(insort_style1(Fronted, g + 1, [s1 EXCEPT !.so = s2.so]))

Case3c ==
    /\ Overlap
    /\ s1.so < s2.so /\ s1.eo > s2.eo
    /\ \E g \in g2 :
         Continue(insort_style1(Fronted, g + 1, new_style_range(s1.style, s2.so, s2.eo)),
                  g + 2, [s1 EXCEPT !.so = s2.eo])

Case4a ==
    /\ Overlap
    /\ s1.so < s2.so /\ s1.eo < s2.eo
    /\ \E g \in g2 :
         Return(insort_style2(Fronted, node + 1, g + 1, s1.eo,
                              <<[s1 EXCEPT !.so = s2.so]>>, <<>>))

(* Mutant: the part of s1 that was laid is not cut off.                      *)
Case4bKeeps ==
    /\ Overlap
    /\ s2.so < s1.so /\ s1.so < s2.eo /\ s2.eo < s1.eo
    /\ \E g \in g2 :
         Continue(insort_style2(styles, node, g, s1.so,
                                <<>>, <<new_style_range(s1.style, s1.so, s2.eo)>>),
                  g + (g - node) + 2, s1)

Case4b ==
    /\ Overlap
    /\ s2.so < s1.so /\ s1.so < s2.eo /\ s2.eo < s1.eo
    /\ \E g \in g2 :
         Continue(insort_style2(styles, node, g, s1.so,
                                <<>>, <<new_style_range(s1.style, s1.so, s2.eo)>>),
                  g + (g - node) + 2, [s1 EXCEPT !.so = s2.eo])

(* Mutant: the loop looks at the same node again.                            *)
PastStays ==
    /\ AtNode
    /\ s2.eo <= s1.so
    /\ s2.so < s1.so
    /\ ~(Empty(s1) /\ s1.so = s2.eo)
    /\ Continue(styles, node - 1, s1)

(* s2 ends before s1 starts: none of the cases, the loop goes on.            *)
Past ==
    /\ AtNode
    /\ s2.eo <= s1.so
    /\ s2.so < s1.so
    /\ ~(Empty(s1) /\ s1.so = s2.eo)
    /\ Continue(styles, node, s1)

(* The loop ran off the list: what is left of s1 goes to its end.            *)
AppendRest ==
    /\ pc = "loop"
    /\ node > Len(styles)
    /\ Return(Append(styles, s1))

(* llist_clear, when execute_script is done with the line.                   *)
Clear ==
    /\ pc = "idle"
    /\ styles' = <<>>
    /\ UNCHANGED locals

Step ==
    \/ Case5  \/ Case6  \/ Case7  \/ Before \/ Case1  \/ Case2a \/ Case2b
    \/ Case2c \/ Case3a \/ Case3b \/ Case3c \/ Case4a \/ Case4b \/ Past
    \/ AppendRest

Next ==
    \/ /\ Len(styles) < MaxRanges
       /\ \E st \in Styles, so, eo \in Positions : so <= eo /\ Call(st, so, eo)
    \/ Step
    \/ Clear

(* The program runs insert_style to its end: nothing can stop it midway.     *)
Spec     == Init /\ [][Next]_vars
FairSpec == Spec /\ WF_vars(Step)

-----------------------------------------------------------------------------
TypeOK ==
    /\ styles \in Seq(StyleRange)
    /\ pc \in {"idle", "loop"}
    /\ old_so \in Nat /\ node \in Nat
    /\ s1 \in StyleRange \cup {NoRange}

Precedes(x, y) == x.eo <= y.so \/ SameRange(x, y)

Ordered(list) ==
    /\ \A i \in 1..Len(list) : list[i].so <= list[i].eo
    /\ \A i, j \in 1..Len(list) : i < j => Precedes(list[i], list[j])

(* The list that apply_styles will print is always made of disjoint ranges  *)
(* from left to right, equal ranges apart, and lies within the text; between *)
(* the steps of a call too.                                                  *)
SortedDisjoint ==
    /\ Ordered(styles)
    /\ \A i \in 1..Len(styles) : styles[i].eo <= N

(* The walk never leaves behind a node it still has to look at: every range *)
(* before the node ends where the rest of s1 begins, or earlier.             *)
NothingLeftBehind ==
    pc = "loop" =>
        /\ s1 \in StyleRange
        /\ old_so <= s1.so /\ s1.so <= s1.eo /\ s1.eo <= N
        /\ node \in 1..(Len(styles) + 1)
        /\ \A i \in 1..(node - 1) : styles[i].eo <= s1.so

IInv == TypeOK /\ SortedDisjoint /\ NothingLeftBehind


-----------------------------------------------------------------------------
(* The refinement.  While a call runs, its style counts as laid already:     *)
(* what the walk has passed is in the list, what it has not is in s1.        *)

Covers(r, c) == r.so <= c /\ c < r.eo

StylesAt(list, c) ==
    FlattenSeq([i \in 1..Len(list) |->
                    IF Covers(list[i], c) THEN <<list[i].style>> ELSE <<>>])

PointsAt(list, p, st) ==
    Cardinality({i \in 1..Len(list) :
                    list[i].so = p /\ list[i].eo = p /\ list[i].style = st})

Pending(c) == pc = "loop" /\ Covers(s1, c)

(* The empty style that the rest of the walk will add at position p.         *)
PointPending(p, st) ==
    /\ pc = "loop" /\ s1.style = st
    /\ \/ Empty(s1) /\ s1.so = p
       \/ /\ old_so < p /\ p < s1.eo
          /\ \E i \in node..Len(styles) : styles[i].so = p /\ styles[i].eo = p

layers ==
    [c \in Characters |->
        StylesAt(styles, c) \o (IF Pending(c) THEN <<s1.style>> ELSE <<>>)]

points ==
    [p \in Positions |-> [st \in Styles |->
        PointsAt(styles, p, st) + (IF PointPending(p, st) THEN 1 ELSE 0)]]

Layers == INSTANCE StyleLayers

(* insert_style lays a style on top of what is there, over the characters of *)
(* its range and no other, however the ranges had to be cut for it.          *)
LaysStyles == Layers!Spec

(* Every call returns.                                                       *)
CallReturns == pc = "loop" ~> pc = "idle"
=============================================================================
