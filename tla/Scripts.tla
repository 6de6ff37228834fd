------------------------------- MODULE Scripts -------------------------------
(***************************************************************************)
(* How the scripts that TLC runs Execute and Remark on are written down.    *)
(***************************************************************************)
EXTENDS Integers, Sequences, TLC

(* The forms of rules and matches; e: may match the empty text, o: may leave *)
(* subexpressions unset.                                                     *)
Style(st)          == [type |-> "style", style |-> st]
Action(a)          == [type |-> "action", action |-> a]
Multi(names)       == [type |-> "multi", rules |-> names]
Macro(name)        == [type |-> "macro", body |-> name]
Match(list, name)  == [type |-> "match", matches |-> list, body |-> name]
Set(repl)          == [type |-> "set", replacement |-> repl]
Subst(regex, repl) == [regex EXCEPT !.type = "subst"] @@ ("replacement" :> repl)
Subex(i)           == [type |-> "subex", index |-> i]
Regex(n, g, e, o)  == [type |-> "regex", nsub |-> n, global |-> g, nullable |-> e,
                       optional |-> o, anchored |-> FALSE]

(* The parts of a replacement.                                               *)
Text      == [var |-> "text"]
Before    == [var |-> "before"]
Matched   == [var |-> "match"]
After     == [var |-> "after"]
Number(i) == [var |-> "number", index |-> i]

Plain    == Regex(0, FALSE, FALSE, FALSE)       \* /x/
Global   == Regex(0, TRUE, FALSE, FALSE)        \* /x/g
Anywhere == Regex(0, TRUE, TRUE, FALSE)         \* /x*/g
First    == [Plain EXCEPT !.anchored = TRUE]    \* /^x/

Input(rules, lens, reps, n) ==
    [rules |-> rules, lens |-> lens, reps |-> reps, lines |-> n]
=============================================================================
