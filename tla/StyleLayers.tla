----------------------------- MODULE StyleLayers -----------------------------
(***************************************************************************)
(* What styling a line promises (remark.1, STYLES): a text and the styles   *)
(* laid over it, one on top of the other in the order they are applied.     *)
(* A style covers the characters between two positions; it never disturbs   *)
(* what was there, it goes on top of it.                                    *)
(*                                                                         *)
(* A style may also be applied to an empty match.  It then stands at a      *)
(* position, between two characters, and a later style laid across that     *)
(* position wraps it too.  The order of the styles of one position is not   *)
(* promised (insert_style keeps none), so they are a bag.                   *)
(*                                                                         *)
(* The module knows neither lists nor ranges: StyleRanges implements it.    *)
(***************************************************************************)
EXTENDS Naturals, Sequences

CONSTANTS
    Styles,         \* the styles a rule can name
    N               \* the number of characters of the text, a natural number

VARIABLES
    layers,         \* layers[c]: the styles of character c, innermost last
    points          \* points[p][st]: how often style st stands at position p

vars == <<layers, points>>

Characters == 0..(N - 1)
Positions  == 0..N      \* position p is just before character p

TypeOK ==
    /\ layers \in [Characters -> Seq(Styles)]
    /\ points \in [Positions -> [Styles -> Nat]]

Init ==
    /\ layers = [c \in Characters |-> <<>>]
    /\ points = [p \in Positions |-> [st \in Styles |-> 0]]

Tagged(p) == \E st \in Styles : points[p][st] > 0

AddPoint(st, P) ==
    [p \in Positions |->
        IF p \in P THEN [points[p] EXCEPT ![st] = @ + 1] ELSE points[p]]

(* A style over the characters so .. eo-1 goes on top of each of them, and  *)
(* around every empty style strictly inside.                                *)
Cover(st, so, eo) ==
    /\ so < eo
    /\ layers' = [c \in Characters |->
                    IF c \in so..(eo - 1) THEN Append(layers[c], st) ELSE layers[c]]
    /\ points' = AddPoint(st, {p \in (so + 1)..(eo - 1) : Tagged(p)})

(* A style applied to an empty match stands at one position.                *)
Stand(st, p) ==
    /\ points' = AddPoint(st, {p})
    /\ UNCHANGED layers

(* The line is printed, the next one starts without a style.                *)
Clear ==
    /\ layers' = [c \in Characters |-> <<>>]
    /\ points' = [p \in Positions |-> [st \in Styles |-> 0]]

Next ==
    \/ \E st \in Styles, so, eo \in Positions : Cover(st, so, eo)
    \/ \E st \in Styles, p \in Positions : Stand(st, p)
    \/ Clear

Spec == Init /\ [][Next]_vars
=============================================================================
