-------------------------------- MODULE Table --------------------------------
(***************************************************************************)
(* What src/common/hmap.h promises: a table of values by key, which answers *)
(* every call at once, and can be walked once through.                      *)
(***************************************************************************)
EXTENDS Integers, FiniteSets, Functions

CONSTANTS
    Keys, Values,
    NULL                \* "there was none"

VARIABLES
    table,              \* the values of the keys that are in the table
    result,             \* what the last call returned
    walk                \* the keys a walk has not come to; NULL: no walk

vars == <<table, result, walk>>

Value(k) == IF k \in DOMAIN table THEN table[k] ELSE NULL

Init == table = <<>> /\ result = NULL /\ walk = NULL

Put(k, v) ==
    /\ walk = NULL
    /\ table' = [j \in DOMAIN table \cup {k} |-> IF j = k THEN v ELSE table[j]]
    /\ result' = Value(k)
    /\ UNCHANGED walk

Remove(k) ==
    /\ walk = NULL
    /\ table' = Restrict(table, DOMAIN table \ {k})
    /\ result' = Value(k)
    /\ UNCHANGED walk

Get(k) == result' = Value(k) /\ UNCHANGED <<table, walk>>

(* Whether there is a value for k, as 1 or 0.                                *)
Contains(k) ==
    result' = (IF k \in DOMAIN table THEN 1 ELSE 0) /\ UNCHANGED <<table, walk>>

Size == result' = Cardinality(DOMAIN table) /\ UNCHANGED <<table, walk>>

Clear == walk = NULL /\ table' = <<>> /\ result' = NULL /\ UNCHANGED walk

(* A walk comes to every key once, in any order, and returns it or its       *)
(* value.  The function it calls may take out the key it is given.           *)
Begin == walk = NULL /\ walk' = DOMAIN table /\ result' = NULL /\ UNCHANGED table

Visit(k) ==
    /\ walk # NULL /\ k \in walk
    /\ walk' = walk \ {k}
    /\ result' \in {table[k], k}
    /\ table' \in {table, Restrict(table, DOMAIN table \ {k})}

(* Whether there is more to come, as 1; an end is told by 0 or by NULL.      *)
More == walk \notin {NULL, {}} /\ result' = 1 /\ UNCHANGED <<table, walk>>

End ==
    /\ walk = {}
    /\ \/ walk' = NULL /\ result' \in {0, NULL}
       \/ walk' = walk /\ result' = NULL
    /\ UNCHANGED table

Next ==
    \/ \E k \in Keys : Remove(k) \/ Get(k) \/ Contains(k) \/ Visit(k) \/ \E v \in Values : Put(k, v)
    \/ Size \/ Clear \/ Begin \/ More \/ End

Spec == Init /\ [][Next]_vars
===============================================================================
