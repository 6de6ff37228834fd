------------------------------ MODULE MCExecute ------------------------------
(***************************************************************************)
(* The scripts that TLC runs Execute on.  Each is written as its rule file  *)
(* first; a regular expression is only told by what it may find.            *)
(***************************************************************************)
EXTENDS Execute, Scripts

CONSTANTS A, B

(* { /x(y)z/ { A  1 { B s/a/$'b/ }  s/a/$'b/ }  /x/ , /x/g mark }             *)
(* macro mark A                                                              *)
NestedRules ==
    [main   |-> Multi(<<"first", "second">>),
     first  |-> Match(<<Regex(1, FALSE, FALSE, FALSE)>>, "body"),
     body   |-> Multi(<<"a", "sub", "edit">>),
     sub    |-> Match(<<Subex(1)>>, "inner"),
     inner  |-> Multi(<<"b", "edit">>),
     second |-> Match(<<Plain, Global>>, "mark"),
     mark   |-> Macro("a"),
     a      |-> Style(A),
     b      |-> Style(B),
     edit   |-> Subst(Plain, <<After, Text>>)]

(* { s/x*/y/g  /x/g { s/y/$`z/ A }  s/(x)?y/$1$2z/g  set $&z }              *)
EditRules ==
    [main   |-> Multi(<<"every", "first", "edits", "set">>),
     every  |-> Subst(Anywhere, <<Text>>),
     first  |-> Match(<<Global>>, "body"),
     body   |-> Multi(<<"edit", "a">>),
     edit   |-> Subst(Plain, <<Before, Text>>),
     edits  |-> Subst(Regex(1, TRUE, FALSE, TRUE), <<Number(1), Number(2), Text>>),
     set    |-> Set(<<Matched, Text>>),
     a      |-> Style(A)]

(* { /x/g { /y/ skip }  /x/ { /y/ break  B }  /x/ { 0, 1 A }  s/x/y/ }        *)
FlowRules ==
    [main   |-> Multi(<<"first", "second", "third", "edit">>),
     first  |-> Match(<<Global>>, "maybe"),
     maybe  |-> Match(<<Plain>>, "skip"),
     skip   |-> Action("SKIP"),
     second |-> Match(<<Plain>>, "either"),
     either |-> Multi(<<"stop", "b">>),
     stop   |-> Match(<<Plain>>, "break"),
     break  |-> Action("BREAK"),
     third  |-> Match(<<Plain>>, "pick"),
     pick   |-> Match(<<Subex(0), Subex(1)>>, "a"),
     edit   |-> Subst(Plain, <<Text>>),
     a      |-> Style(A),
     b      |-> Style(B)]

(* { /x/ A  /^x/ { /y/ B  A  set $&z } }                                     *)
SetRules ==
    [main   |-> Multi(<<"first", "second">>),
     first  |-> Match(<<Plain>>, "a"),
     second |-> Match(<<First>>, "body"),
     body   |-> Multi(<<"third", "a", "set">>),
     third  |-> Match(<<Plain>>, "b"),
     set    |-> Set(<<Matched, Text>>),
     a      |-> Style(A),
     b      |-> Style(B)]

(* { /x(y)?/g { s/z/w/  1 B } }                                              *)
UnsetRules ==
    [main   |-> Match(<<Regex(1, TRUE, FALSE, TRUE)>>, "body"),
     body   |-> Multi(<<"edit", "sub">>),
     edit   |-> Subst(Plain, <<Text>>),
     sub    |-> Match(<<Subex(1)>>, "b"),
     b      |-> Style(B)]

(* { /x/ { s/y*/z/ A s/z/y/g }  /x/ B }                                       *)
OpenRules ==
    [main   |-> Multi(<<"first", "second">>),
     first  |-> Match(<<Plain>>, "body"),
     body   |-> Multi(<<"empty", "a", "every">>),
     empty  |-> Subst(Regex(0, FALSE, TRUE, FALSE), <<Text>>),
     every  |-> Subst(Global, <<Text>>),
     second |-> Match(<<Plain>>, "b"),
     a      |-> Style(A),
     b      |-> Style(B)]

AllInputs ==
    {Input(NestedRules, {3}, {1, 2}, 1),
     Input(EditRules, {0, 2}, {0, 2}, 1),
     Input(FlowRules, {0, 3}, {0, 1}, 2),
     Input(SetRules, {0, 3}, {0, 1}, 1),
     Input(OpenRules, {3}, {0, 1}, 1),
     Input(UnsetRules, {3}, {0, 1}, 1)}

(* The scripts of the disagreements with the manual.                         *)
ElsewhereRules ==   \* { /x/ A  /y/ set $&z }
    [main  |-> Multi(<<"first", "second">>),
     first |-> Match(<<Plain>>, "a"), second |-> Match(<<Plain>>, "set"),
     a     |-> Style(A), set |-> Set(<<Matched, Text>>)]
ElsewhereInputs == {Input(ElsewhereRules, {3}, {0, 1}, 1)}

SkipRules ==        \* { /x/ A  /y/ skip }
    [main  |-> Multi(<<"first", "second">>),
     first |-> Match(<<Plain>>, "a"), second |-> Match(<<Plain>>, "skip"),
     a     |-> Style(A), skip |-> Action("SKIP")]

SkipInputs == {Input(SkipRules, {2}, {0, 1, 2}, 2)}

ForeverRules ==     \* /x*/g break
    [main  |-> Match(<<Anywhere>>, "break"), break |-> Action("BREAK")]
ForeverInputs == {Input(ForeverRules, {1}, {0, 1, 2}, 1)}
=============================================================================
