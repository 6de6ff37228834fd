------------------------------- MODULE MCRemark -------------------------------
(***************************************************************************)
(* The invocations that TLC runs Remark on.                                 *)
(***************************************************************************)
EXTENDS Remark, Scripts

CONSTANTS A, B

TwoEach == [st \in Styles |-> 2]

(* Command lines.                                                            *)
Arg(option, value) == [option |-> option, value |-> value]
Margins(retain, prepend, append) ==
    <<Arg("prepend", prepend), Arg("append", append), Arg("retain", retain)>>

Job(arguments, in, letters) == [args |-> arguments, input |-> in, alphabet |-> letters]

NoScript(n) == Input(<<>>, {n}, {0}, 1)

(* { /x*/ A  /y/ B }                                                         *)
StyledRules ==
    [main   |-> Multi(<<"first", "second">>),
     first  |-> Match(<<Regex(0, FALSE, TRUE, FALSE)>>, "a"),
     second |-> Match(<<Plain>>, "b"),
     a      |-> Style(A),
     b      |-> Style(B)]
Styled(lens) == Input(StyledRules, lens, {0}, 1)

(* { /x/ skip  s/y/z/  /z/ { A s/y/z/ } }  prepend { B s/x// }                *)
EditedRules ==
    [main    |-> Multi(<<"first", "edit", "second">>),
     first   |-> Match(<<Plain>>, "skip"),
     skip    |-> Action("SKIP"),
     second  |-> Match(<<Plain>>, "body"),
     body    |-> Multi(<<"a", "edit">>),
     prepend |-> Multi(<<"b", "edit">>),
     edit    |-> Subst(Plain, <<Text>>),
     a       |-> Style(A),
     b       |-> Style(B)]

(* s/y/z/  append { /x/ B  /y/ skip }                                         *)
AppendRules ==
    [main   |-> Subst(Plain, <<Text>>),
     append |-> Multi(<<"first", "second">>),
     first  |-> Match(<<Plain>>, "b"),
     second |-> Match(<<Plain>>, "skip"),
     b      |-> Style(B),
     skip   |-> Action("SKIP")]

(* No margins: -w 3, -w 4 -r 1, -f word -w 3 -r 1.                           *)
PlainJobs ==
    {Job(arguments, Styled(lens), letters) :
        arguments \in {<<Arg("width", 3)>>,
                       <<Arg("width", 4), Arg("retain", 1)>>,
                       <<Arg("wrap", "word"), Arg("width", 3), Arg("retain", 1)>>},
        <<lens, letters>> \in {<<{0, 2, 7}, {"x"}>>, <<{5}, {"x", " "}>>}}

(* Margins that leave room, or do not.                                       *)
AroundJobs ==
    {Job(Margins(retain, prepend, append) \o <<Arg("width", w), Arg("wrap", mode)>>,
         NoScript(7), {"x", " "}) :
        mode \in {"char", "word"}, w \in 3..4, retain \in 0..1, prepend \in 0..1, append \in 0..1}

(* Several lines, changed by rules, in a narrow window.                      *)
EditedJobs ==
    {Job(<<Arg("prepend", 1), Arg("width", 3)>>, Input(EditedRules, {4}, {1}, 2), {"x"}),
     Job(<<Arg("append", 1), Arg("width", 3)>>, Input(AppendRules, {4}, {0, 1}, 2), {"x"})}

(* No width, one that is overridden, and arguments the program refuses.      *)
OtherJobs ==
    {Job(arguments, Styled({2}), {"x"}) : arguments \in
        {<<>>,
         <<Arg("wrap", "word")>>,
         <<Arg("width", 9), Arg("wrap", "none"), Arg("width", 1)>>,
         <<Arg("width", -1)>>, <<Arg("retain", Modulus)>>,
         <<Arg("wrap", "line")>>, <<Arg("help", 0)>>}}

AllJobs == PlainJobs \cup AroundJobs \cup EditedJobs \cup OtherJobs
AllInputs == {j.input : j \in AllJobs}

(* The invocation of the disagreement with the manual: -w 3 -p x.            *)
PrependJobs == {Job(<<Arg("width", 3), Arg("prepend", 1)>>, Styled({7}), {"x"})}
PrependInputs == {Styled({7})}
===============================================================================
