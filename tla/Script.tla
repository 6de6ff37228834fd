-------------------------------- MODULE Script --------------------------------
(***************************************************************************)
(* The script in memory: how the parser (src/parser.y) builds the rules,    *)
(* styles and macros of a rule file and of the files it includes, and how   *)
(* free_script (src/parser.y, src/rule.c, src/style.c) gives them back.     *)
(*                                                                         *)
(* An object is named by its address, its index in "heap": the parser frees *)
(* none, so addresses grow.  Rules have one owner, styles and macros are    *)
(* shared and counted.  What a style, a match or a substitution says is     *)
(* left out.                                                                *)
(*                                                                         *)
(* The grammar is a stack of what is being read, "open": files, with those  *)
(* that include them below, and the bodies of matches and declarations.     *)
(***************************************************************************)
EXTENDS Integers, Sequences, FiniteSets, SequencesExt, Functions

CONSTANTS
    Names,          \* the names of styles and macros
    MaxObjects,     \* bound: how many objects a script has
    MaxOpen         \* bound: how deep files and bodies are nested

ASSUME BoundsAssumption == {MaxObjects, MaxOpen} \subseteq Nat

NoRule == 0         \* a null pointer

VARIABLES
    heap,           \* the objects
    freed,          \* the addresses that were freed
    styles, macros, \* from names to the address: RemarkScript.styles, .macros
    prepend_rule, append_rule, rule,    \* the rules of the script
    open,           \* what is being read
    calls,          \* the calls of free_script that are still to be made
    phase           \* "parse", "run", "free", "done", or "dead"

vars == <<heap, freed, styles, macros, prepend_rule, append_rule, rule, open, calls, phase>>

roots == <<prepend_rule, append_rule, rule>>

-----------------------------------------------------------------------------
(* The objects.  refs counts the table of names as well.                     *)
Style           == [kind |-> "style", refs |-> 1]
Macro(r)        == [kind |-> "macro", refs |-> 1, rule |-> r]
StyleRule(st)   == [kind |-> "style_rule", style |-> st]
MacroRule(m)    == [kind |-> "macro_rule", macro |-> m]
MatchRule(r)    == [kind |-> "match", rule |-> r]
MultiRule(list) == [kind |-> "multi", rules |-> list]
Leaf            == [kind |-> "leaf"]        \* an action, a substitution or a set rule

(* Mutants: the use is not counted.                                          *)
new_style_rule_uncounted(mem, st) == Append(mem, StyleRule(st))
new_macro_rule_uncounted(mem, m) == Append(mem, MacroRule(m))

(* An object's address is the length of the heap it makes.                   *)
new_style_rule(mem, st) == Append([mem EXCEPT ![st].refs = @ + 1], StyleRule(st))
new_macro_rule(mem, m) == Append([mem EXCEPT ![m].refs = @ + 1], MacroRule(m))

(* Mutant: a list of no rules is no rule.                                    *)
new_multi_rule_null(mem, list) ==
    IF Len(list) <= 1 THEN [heap |-> mem, rule |-> IF list = <<>> THEN NoRule ELSE list[1]]
    ELSE [heap |-> Append(mem, MultiRule(list)), rule |-> Len(mem) + 1]

(* A list of one rule is that rule.                                          *)
new_multi_rule(mem, list) ==
    IF Len(list) = 1 THEN [heap |-> mem, rule |-> list[1]]
    ELSE [heap |-> Append(mem, MultiRule(list)), rule |-> Len(mem) + 1]

Put(f, x, y) == [z \in DOMAIN f \cup {x} |-> IF z = x THEN y ELSE f[z]]

-----------------------------------------------------------------------------
Open(what, name) == [what |-> what, name |-> name, list |-> <<>>]

top     == Last(open)
Parsing == phase = "parse" /\ open # <<>> /\ Len(heap) < MaxObjects
InFile  == top.what = "file"

(* The rule r is the next statement of what is being read.                   *)
Statement(stack, r) == [stack EXCEPT ![Len(stack)].list = Append(@, r)]

Init ==
    /\ heap = <<>> /\ freed = {}
    /\ styles = <<>> /\ macros = <<>>
    /\ prepend_rule = NoRule /\ append_rule = NoRule /\ rule = NoRule
    /\ open = <<Open("file", "")>>
    /\ calls = <<>> /\ phase = "parse"

(* script_die and yyerror, for anything that is wrong in a file: the program *)
(* exits.                                                                    *)
ScriptDie ==
    /\ phase = "parse"
    /\ phase' = "dead"
    /\ UNCHANGED <<heap, freed, styles, macros, roots, open, calls>>

(* style_decl                                                                *)
DeclareStyle(n) ==
    /\ Parsing /\ InFile /\ n \notin DOMAIN styles
    /\ heap' = Append(heap, Style)
    /\ styles' = Put(styles, n, Len(heap'))
    /\ UNCHANGED <<freed, macros, roots, open, calls, phase>>

(* match_stmt: a name is that of a macro rather than that of a style.        *)
NameMacro(n) ==
    /\ Parsing /\ n \in DOMAIN macros
    /\ heap' = new_macro_rule(heap, macros[n])
    /\ open' = Statement(open, Len(heap'))
    /\ UNCHANGED <<freed, styles, macros, roots, calls, phase>>

NameStyle(n) ==
    /\ Parsing /\ n \in DOMAIN styles \ DOMAIN macros
    /\ heap' = new_style_rule(heap, styles[n])
    /\ open' = Statement(open, Len(heap'))
    /\ UNCHANGED <<freed, styles, macros, roots, calls, phase>>

LeafRule ==
    /\ Parsing
    /\ heap' = Append(heap, Leaf)
    /\ open' = Statement(open, Len(heap'))
    /\ UNCHANGED <<freed, styles, macros, roots, calls, phase>>

(* match_decl, macro_decl, PREPEND and APPEND: a body begins.  A body with   *)
(* no braces is one with one statement.                                      *)
OpenBody(what, n) ==
    /\ Parsing /\ Len(open) < MaxOpen
    /\ what = "match" \/ InFile
    /\ open' = Append(open, Open(what, n))
    /\ UNCHANGED <<heap, freed, styles, macros, roots, calls, phase>>

(* include_script                                                            *)
Include ==
    /\ Parsing /\ Len(open) < MaxOpen
    /\ open' = Append(open, Open("file", ""))
    /\ UNCHANGED <<heap, freed, styles, macros, roots, calls, phase>>

Body == new_multi_rule(heap, top.list)

CloseMatch ==
    /\ Parsing /\ top.what = "match"
    /\ heap' = Append(Body.heap, MatchRule(Body.rule))
    /\ open' = Statement(Front(open), Len(heap'))
    /\ UNCHANGED <<freed, styles, macros, roots, calls, phase>>

(* Mutant: a macro can be declared again, and gets the new body.             *)
CloseMacroAgain ==
    /\ Parsing /\ top.what = "macro"
    /\ IF top.name \in DOMAIN macros
         THEN /\ heap' = [Body.heap EXCEPT ![macros[top.name]].rule = Body.rule]
              /\ UNCHANGED macros
         ELSE /\ heap' = Append(Body.heap, Macro(Body.rule))
              /\ macros' = Put(macros, top.name, Len(heap'))
    /\ open' = Front(open)
    /\ UNCHANGED <<freed, styles, roots, calls, phase>>

CloseMacro ==
    /\ Parsing /\ top.what = "macro"
    /\ top.name \notin DOMAIN macros
    /\ heap' = Append(Body.heap, Macro(Body.rule))
    /\ macros' = Put(macros, top.name, Len(heap'))
    /\ open' = Front(open)
    /\ UNCHANGED <<freed, styles, roots, calls, phase>>

ClosePrepend ==
    /\ Parsing /\ top.what = "prepend" /\ prepend_rule = NoRule
    /\ heap' = Body.heap /\ prepend_rule' = Body.rule
    /\ open' = Front(open)
    /\ UNCHANGED <<freed, styles, macros, append_rule, rule, calls, phase>>

CloseAppend ==
    /\ Parsing /\ top.what = "append" /\ append_rule = NoRule
    /\ heap' = Body.heap /\ append_rule' = Body.rule
    /\ open' = Front(open)
    /\ UNCHANGED <<freed, styles, macros, prepend_rule, rule, calls, phase>>

(* Mutant: the rules of the file are added by include_script as well.        *)
EndOfIncludeTwice ==
    /\ Parsing /\ InFile /\ Len(open) > 1
    /\ heap' = Body.heap
    /\ open' = Statement(Statement(Front(open), Body.rule), Body.rule)
    /\ UNCHANGED <<freed, styles, macros, roots, calls, phase>>

(* The end of a file: its rules are a statement where it was included.       *)
EndOfInclude ==
    /\ Parsing /\ InFile /\ Len(open) > 1
    /\ heap' = Body.heap
    /\ open' = Statement(Front(open), Body.rule)
    /\ UNCHANGED <<freed, styles, macros, roots, calls, phase>>

EndOfScript ==
    /\ phase = "parse" /\ Len(open) = 1
    /\ heap' = Body.heap /\ rule' = Body.rule
    /\ open' = <<>>
    /\ phase' = "run"
    /\ UNCHANGED <<freed, styles, macros, prepend_rule, append_rule, calls>>

-----------------------------------------------------------------------------
(* The calls that give the script back, one step each.                       *)
Call(fn, a)   == [fn |-> fn, of |-> a]
Calls(fn, as) == [i \in 1..Len(as) |-> Call(fn, as[i])]

(* free_script: hmap_foreach_value visits a table in any order.  It calls    *)
(* free_rule for the macros.                                                 *)
free_script ==
    /\ phase = "run"
    /\ \E ss \in SetToSeqs(Range(styles)), ms \in SetToSeqs(Range(macros)) :
         calls' = Calls("free_style", ss) \o Calls("free_rule", ms)
                    \o Calls("free_rule", roots)
    /\ phase' = "free"
    /\ UNCHANGED <<heap, freed, styles, macros, roots, open>>

Calling(fn) == phase = "free" /\ calls # <<>> /\ Head(calls).fn = fn
arg         == Head(calls).of
obj         == heap[arg]

Returns(more) == calls' = more \o Tail(calls)

(* What free_rule calls before it frees the rule.  The body of a match is    *)
(* not freed.  A Macro is no rule: the lower half of the address of its name *)
(* is taken for the type, and is the number of no type.                      *)
Parts(o) ==
    CASE o.kind = "macro_rule" -> <<Call("free_macro", o.macro)>>
      [] o.kind = "style_rule" -> <<Call("free_style", o.style)>>
      [] o.kind = "multi"      -> Calls("free_rule", o.rules)
      [] OTHER                 -> <<>>

free_rule ==
    /\ Calling("free_rule")
    /\ Returns(IF arg = NoRule THEN <<>> ELSE Parts(obj) \o <<Call("free", arg)>>)
    /\ UNCHANGED <<heap, freed, styles, macros, roots, open, phase>>

free_style ==
    /\ Calling("free_style")
    /\ heap' = [heap EXCEPT ![arg].refs = @ - 1]
    /\ Returns(IF heap'[arg].refs <= 0 THEN <<Call("free", arg)>> ELSE <<>>)
    /\ UNCHANGED <<freed, styles, macros, roots, open, phase>>

(* A Macro that was freed has its refs still: the memory is not allocated    *)
(* again before.                                                             *)
free_macro ==
    /\ Calling("free_macro")
    /\ heap' = [heap EXCEPT ![arg].refs = @ - 1]
    /\ Returns(IF heap'[arg].refs <= 0
                 THEN <<Call("free_rule", obj.rule), Call("free", arg)>> ELSE <<>>)
    /\ UNCHANGED <<freed, styles, macros, roots, open, phase>>

free ==
    /\ Calling("free")
    /\ freed' = freed \cup {arg}
    /\ Returns(<<>>)
    /\ UNCHANGED <<heap, styles, macros, roots, open, phase>>

Done ==
    /\ phase = "free" /\ calls = <<>>
    /\ phase' = "done"
    /\ UNCHANGED <<heap, freed, styles, macros, roots, open, calls>>

-----------------------------------------------------------------------------
Parse ==
    \/ \E n \in Names : DeclareStyle(n) \/ NameMacro(n) \/ NameStyle(n) \/ OpenBody("macro", n)
    \/ \E what \in {"match", "prepend", "append"} : OpenBody(what, "")
    \/ LeafRule \/ Include \/ CloseMatch \/ CloseMacro \/ ClosePrepend \/ CloseAppend
    \/ EndOfInclude \/ EndOfScript \/ ScriptDie

Teardown == free_script \/ free_rule \/ free_style \/ free_macro \/ free \/ Done

Next == Parse \/ Teardown

Spec == Init /\ [][Next]_vars

-----------------------------------------------------------------------------
Object ==
    [kind : {"style"}, refs : Int] \cup [kind : {"macro"}, refs : Int, rule : Nat]
    \cup [kind : {"style_rule"}, style : Nat] \cup [kind : {"macro_rule"}, macro : Nat]
    \cup [kind : {"match"}, rule : Nat] \cup [kind : {"multi"}, rules : Seq(Nat)]
    \cup [kind : {"leaf"}]

Address   == 1..Len(heap)
Kind(k)   == {a \in Address : heap[a].kind = k}
IsRule(o) == o.kind \notin {"style", "macro"}
Rules     == {a \in Address : IsRule(heap[a])}

(* What an object leads to when it is executed, and what that must be.       *)
Leads(o) ==
    CASE o.kind \in {"macro", "match"} -> {o.rule}
      [] o.kind = "macro_rule"         -> {o.macro}
      [] o.kind = "style_rule"         -> {o.style}
      [] o.kind = "multi"              -> Range(o.rules)
      [] OTHER                         -> {}

Fits(o, x) ==
    CASE o.kind = "macro_rule" -> x.kind = "macro"
      [] o.kind = "style_rule" -> x.kind = "style"
      [] OTHER                 -> IsRule(x)

(* What a call of free_script may be given.                                  *)
Takes(call) ==
    CASE call.fn = "free_style" -> call.of \in Kind("style")
      [] call.fn = "free_macro" -> call.of \in Kind("macro")
      [] call.fn = "free_rule"  -> call.of \in Address \cup {NoRule}
      [] call.fn = "free"       -> call.of \in Address
      [] OTHER                  -> FALSE

TypeOK ==
    /\ heap \in Seq(Object)
    /\ \A a \in Address : \A b \in Leads(heap[a]) : b \in Address /\ Fits(heap[a], heap[b])
    /\ freed \subseteq Address
    /\ styles \in [DOMAIN styles -> Kind("style")]
    /\ macros \in [DOMAIN macros -> Kind("macro")]
    /\ {prepend_rule, append_rule, rule} \subseteq Rules \cup {NoRule}
    /\ open \in Seq([what : {"file", "match", "macro", "prepend", "append"},
                     name : Names \cup {""}, list : Seq(Rules)])
    /\ calls \in Seq([fn : {"free_style", "free_macro", "free_rule", "free"}, of : Nat])
    /\ \A i \in 1..Len(calls) : Takes(calls[i])
    /\ phase \in {"parse", "run", "free", "done", "dead"}

(* Whatever a script says, executing it ends: a rule leads only to rules,    *)
(* macros and styles that were there before it, and so never to itself.  A   *)
(* macro is not known by its name before its body is read, nor declared      *)
(* again.                                                                    *)
NothingLeadsToItself == \A a \in Address : \A b \in Leads(heap[a]) : b < a

(* A style or a macro knows how many rules name it.                          *)
RefsCounted ==
    phase \in {"parse", "run"} =>
        \A a \in Kind("style") \cup Kind("macro") :
            heap[a].refs = 1 + Cardinality(
                {r \in Kind("style_rule") \cup Kind("macro_rule") : Leads(heap[r]) = {a}})

(* A rule has one owner: a body being read, a rule, a macro or the script.   *)
(* free_script would otherwise come by it twice.                             *)
Owned(o) ==
    CASE o.kind = "multi"              -> o.rules
      [] o.kind \in {"macro", "match"} -> <<o.rule>>
      [] OTHER                         -> <<>>

At(list, r) == {j \in 1..Len(list) : list[j] = r}

Slots(what, a, list, r) == {<<what, a, j>> : j \in At(list, r)}

Owners(r) ==
    (UNION {Slots("open", i, open[i].list, r) : i \in 1..Len(open)})
    \cup Slots("root", 0, roots, r)
    \cup (UNION {Slots("heap", a, Owned(heap[a]), r) : a \in Address})

OneOwner == \A r \in Rules : Cardinality(Owners(r)) = 1

(* free_script touches no rule and no style that it has freed.               *)
FreedOnce ==
    phase = "free" /\ calls # <<>> /\ Head(calls).fn # "free_macro" => arg \notin freed

(* No freed memory is read at all.                                           *)
NoUseAfterFree == phase = "free" /\ calls # <<>> => arg \notin freed
===============================================================================
