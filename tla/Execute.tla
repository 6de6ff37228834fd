------------------------------- MODULE Execute -------------------------------
(***************************************************************************)
(* The rule engine (src/execute.c, try_match of src/match.c): a script is   *)
(* run over one line after the other.  Rules match the text, change it, and *)
(* lay styles over it, each within the context its surrounding match gives. *)
(*                                                                         *)
(* The recursion of execute_any_rule is a stack of frames, "ctl", and the   *)
(* chain of contexts (MatchState.parent) a stack of contexts, "mss": the    *)
(* last element is the innermost.  One action is one call, one iteration of *)
(* a loop, or one return; insert_style is the machine of StyleRanges.       *)
(*                                                                         *)
(* The text is a sequence of cells: i for the i-th character of the line as *)
(* read, 0 for a character a rule put in.  What a regular expression finds  *)
(* in a text is not modelled: it may find anything that lies in the text it *)
(* is given.                                                                *)
(***************************************************************************)
EXTENDS Integers, Sequences, FiniteSets, SequencesExt, StrBuf

CONSTANTS
    Styles,         \* the styles of the script
    Inputs,         \* what the program may be started on
    MaxLen,         \* bound: no rule makes the text longer than this
    MaxRanges       \* bound of StyleRanges, which no action here uses

(* An input is a script, that is a function from names to rules, where       *)
(* "main" is script->rule, and the lines it is run over: their lengths and   *)
(* their number.  reps, a bound, are the lengths of the literal text in its  *)
(* replacements.                                                             *)
ASSUME BoundsAssumption ==
    /\ {MaxLen, MaxRanges} \subseteq Nat
    /\ Modulus > 4 * MaxLen + 2

(* The rules a script may have, and the matches of a match rule.  A rule      *)
(* names only rules that are there: Script shows that the parser sees to it. *)
Matches ==
    [type : {"regex"}, nsub : Nat, global : BOOLEAN, nullable : BOOLEAN, optional : BOOLEAN,
     anchored : BOOLEAN]
    \cup [type : {"subex"}, index : Nat]

Parts == [var : {"text", "before", "match", "after"}] \cup [var : {"number"}, index : Nat]

Rule(names) ==
    [type : {"style"}, style : Styles] \cup [type : {"action"}, action : {"BREAK", "SKIP"}]
    \cup [type : {"macro"}, body : names] \cup [type : {"multi"}, rules : Seq(names)]
    \cup [type : {"match"}, matches : Seq(Matches), body : names]
    \cup [type : {"subst"}, nsub : Nat, global : BOOLEAN, nullable : BOOLEAN,
          optional : BOOLEAN, anchored : BOOLEAN, replacement : Seq(Parts)]
    \cup [type : {"set"}, replacement : Seq(Parts)]

ASSUME InputsAssumption ==
    \A in \in Inputs :
        /\ in.rules \in [DOMAIN in.rules -> Rule(DOMAIN in.rules)]
        /\ in.lens \subseteq 0..MaxLen /\ in.reps \subseteq 0..MaxLen
        /\ in.lines \in Nat

VARIABLES
    input,          \* the script and its lines
    buf,            \* the text of the line: MatchBuffer.buffer
    styles, s1, old_so, node, pc,   \* the style ranges, see StyleRanges
    mss,            \* the contexts, from the root to the innermost
    ctl,            \* the frames of the rules that are running
    todo,           \* what the interpreter does next
    phase,          \* "idle" between lines, "run", "print", or "dead"
    lines,          \* how many lines were read
    marks,          \* history: marks[i] is the styles laid over character i
    verdict         \* history: the last action a rule asked for, for this line

ranges == <<styles, s1, old_so, node, pc>>
given  == <<input, lines>>
vars   == <<given, buf, ranges, mss, ctl, todo, phase, marks, verdict>>

Ranges == INSTANCE StyleRanges WITH N <- MaxLen

-----------------------------------------------------------------------------
(* A subexpression that took no part in a match has rm_so = rm_eo = -1,      *)
(* which is the largest uint32_t.                                            *)
SubmatchSpec(so, eo) == [so |-> so, eo |-> eo]

Rules == input.rules

ms   == Last(mss)           \* the MatchState a rule is given
ctx  == ms.subv[1]          \* its subv[0], the context
top  == Last(ctl)           \* the frame of the rule that is running
rule == Rules[top.rule]

new_match_state(subv) == [subv |-> subv]

-----------------------------------------------------------------------------
(* xregexec_substring hides the text from "end" on and searches from         *)
(* "start".  When "end" lies before the start that hides nothing of what is  *)
(* searched.                                                                 *)
SearchEnd(start, end) ==
    IF start <= end THEN Smaller(end, Len(buf)) ELSE Len(buf)

(* A subexpression lies in what was found, or it is unset; "start" was       *)
(* added to the -1 of an unset one as well.  A regex that is not nullable    *)
(* finds no empty text, for a subexpression either.                          *)
Submatches(regex, start, found) ==
    {sub \in [so : found.so..found.eo, eo : found.so..found.eo] :
        sub.so < sub.eo \/ (sub.so = sub.eo /\ regex.nullable)}
        \cup IF regex.optional
               THEN {SubmatchSpec(Unsigned(start - 1), Unsigned(start - 1))}
               ELSE {}

(* All a search may find: the match, then its subexpressions.  The caret of  *)
(* an anchored regex is where the search starts.                             *)
Found(regex, start, end) ==
    {found \in [so : start..SearchEnd(start, end), eo : start..SearchEnd(start, end)] :
        /\ found.so < found.eo \/ (found.so = found.eo /\ regex.nullable)
        /\ regex.anchored => found.so = start}

xregexec_substring(regex, start, end) ==
    UNION {{<<found>> \o subs : subs \in [1..regex.nsub -> Submatches(regex, start, found)]} :
             found \in Found(regex, start, end)}

-----------------------------------------------------------------------------
(* expand_substitution: a replacement is a sequence of parts, text of its    *)
(* own and variables.  $`, $& and $' are what is before, in and after the    *)
(* match, within the context; $i is a subexpression, and nothing when the    *)
(* match has no such one.  A variable is read before the text is changed.    *)
Variable(part, subv) ==
    CASE part.var = "before" -> SubmatchSpec(ctx.so, subv[1].so)
      [] part.var = "match" -> subv[1]
      [] part.var = "after" -> SubmatchSpec(subv[1].eo, ctx.eo)
      [] part.var = "number" ->
           IF part.index < Len(subv) THEN subv[part.index + 1] ELSE SubmatchSpec(0, 0)

expand_variable(part, subv) ==
    SubstringLength(buf, Variable(part, subv).so, Variable(part, subv).eo)

(* The lengths of the texts it may expand to, and such a text.               *)
expand_part(part, subv) ==
    IF part.var = "text" THEN input.reps ELSE {expand_variable(part, subv)}

expand_substitution(repl, subv) ==
    LET upto[k \in 0..Len(repl)] ==
            IF k = 0 THEN {0}
            ELSE {len + more : len \in upto[k - 1], more \in expand_part(repl[k], subv)}
    IN  upto[Len(repl)]

NewText(n) == [i \in 1..n |-> 0]

-----------------------------------------------------------------------------
(* update_positions: "diff" characters more at position so.  Every context   *)
(* of the chain moves, and the styles with the root.                         *)
MovedUnclamped(p, so, diff) == Signed(p) + diff      \* mutant: no MAX

Moved(p, so, diff) == Larger(Signed(p) + diff, so)

(* Mutant: whatever ends at so grows.                                        *)
MoveSpecEager(r, so, diff, growsAtEnd) ==
    [r EXCEPT !.eo = IF r.eo >= so THEN Moved(@, so, diff) ELSE @,
              !.so = IF r.so > so THEN Moved(@, so, diff) ELSE @]

MoveSpec(r, so, diff, growsAtEnd) ==
    IF r.so = r.eo /\ r.so = so
      THEN [r EXCEPT !.eo = Moved(r.eo, so, diff)]
      ELSE [r EXCEPT
              !.eo = IF r.eo > so \/ (growsAtEnd /\ r.eo >= so)
                       THEN Moved(@, so, diff) ELSE @,
              !.so = IF r.so > so THEN Moved(@, so, diff) ELSE @]

StylesStay(so, diff) == styles      \* mutant: the styles are forgotten

MoveStyles(so, diff) ==
    [i \in 1..Len(styles) |->
        MoveSpec(styles[i], so, diff, so = mss[1].subv[1].eo)]

(* Mutant: the parents are forgotten.                                        *)
MoveInnermost(so, diff) ==
    [mss EXCEPT ![Len(mss)] = new_match_state([c \in 1..Len(ms.subv) |->
        MoveSpec(ms.subv[c], so, diff, c = 1 /\ Len(mss) = 1)])]

MoveContexts(so, diff) ==
    [d \in 1..Len(mss) |->
        new_match_state([c \in 1..Len(mss[d].subv) |->
            MoveSpec(mss[d].subv[c], so, diff, c = 1 /\ d = 1)])]

update_positions(so, diff) ==
    /\ styles' = MoveStyles(so, diff)
    /\ mss' = MoveContexts(so, diff)
    /\ UNCHANGED <<s1, old_so, node, pc>>

-----------------------------------------------------------------------------
(* What the interpreter does next: start a rule, go once around the loop of  *)
(* the top frame, or return an action to it.                                 *)
Exec(name)     == [op |-> "exec", name |-> name]
Loop           == [op |-> "loop"]
Return(action) == [op |-> "return", action |-> action]

(* A frame holds the locals of execute_multi_rule (at: c), execute_match_rule *)
(* (at: c, so, again: call > 0, outer: outer_action) or                       *)
(* execute_substitution_rule (so, eo).                                        *)
Frame(name, so, eo) ==
    [rule |-> name, at |-> 1, so |-> so, eo |-> eo, again |-> FALSE, outer |-> "CONTINUE"]

SetTop(frame)   == ctl' = Front(ctl) \o <<frame>>
Leave(action)   == ctl' = Front(ctl) /\ todo' = Return(action)

Running        == phase = "run" /\ pc = "idle"
Starts(type)   == Running /\ todo.op = "exec" /\ Rules[todo.name].type = type
Loops(type)    == Running /\ todo = Loop /\ ctl # <<>> /\ rule.type = type
Returned(type) == Running /\ todo.op = "return" /\ ctl # <<>> /\ rule.type = type

Starting == Rules[todo.name]

Init ==
    /\ input \in Inputs
    /\ buf = <<>> /\ mss = <<>> /\ ctl = <<>> /\ todo = Loop
    /\ Ranges!Init
    /\ phase = "idle" /\ lines = 0 /\ marks = <<>> /\ verdict = "CONTINUE"

(* execute_rule: a rule is run over a text, with the root context around it. *)
Enter(root, len) ==
    /\ phase = "idle"
    /\ buf' = [i \in 1..len |-> i]
    /\ mss' = <<new_match_state(<<SubmatchSpec(0, len)>>)>>
    /\ marks' = [i \in 1..len |-> <<>>]
    /\ todo' = Exec(root) /\ phase' = "run" /\ verdict' = "CONTINUE"
    /\ UNCHANGED ctl

(* try_line: the next line.  A script that has only prepend and append rules   *)
(* does nothing to it.                                                       *)
ReadLine ==
    /\ "main" \in DOMAIN Rules
    /\ lines < input.lines /\ lines' = lines + 1
    /\ \E len \in input.lens : Enter("main", len)
    /\ UNCHANGED <<input, ranges>>

(* execute_any_rule                                                          *)
ExecMacro ==
    /\ Starts("macro")
    /\ todo' = Exec(Starting.body)
    /\ UNCHANGED <<buf, ranges, mss, ctl, phase, given, marks, verdict>>

ExecAction ==
    /\ Starts("action")
    /\ todo' = Return(Starting.action)
    /\ verdict' = Starting.action
    /\ UNCHANGED <<buf, ranges, mss, ctl, phase, given, marks>>

Covered(i) == ctx.so < i /\ i <= ctx.eo     \* cell i of the text is in the context

ExecStyle ==
    /\ Starts("style")
    /\ Ranges!Call(Starting.style, ctx.so, ctx.eo)
    /\ marks' = [k \in DOMAIN marks |->
                    IF \E i \in 1..Len(buf) : buf[i] = k /\ Covered(i)
                      THEN Append(marks[k], Starting.style) ELSE marks[k]]
    /\ todo' = Return("CONTINUE")
    /\ UNCHANGED <<buf, mss, ctl, phase, given, verdict>>

InsertStyle ==
    /\ phase = "run" /\ Ranges!Step
    /\ UNCHANGED <<buf, mss, ctl, todo, phase, given, marks, verdict>>

(* execute_multi_rule: the rules in order, until one does not continue.      *)
ExecMulti ==
    /\ Starts("multi")
    /\ ctl' = Append(ctl, Frame(todo.name, 0, 0))
    /\ todo' = Return("CONTINUE")
    /\ UNCHANGED <<buf, ranges, mss, phase, given, marks, verdict>>

MultiNext ==
    /\ Returned("multi")
    /\ todo.action = "CONTINUE" /\ top.at <= Len(rule.rules)
    /\ todo' = Exec(rule.rules[top.at])
    /\ SetTop([top EXCEPT !.at = @ + 1])
    /\ UNCHANGED <<buf, ranges, mss, phase, given, marks, verdict>>

MultiEnd ==
    /\ Returned("multi")
    /\ todo.action # "CONTINUE" \/ top.at > Len(rule.rules)
    /\ Leave(todo.action)
    /\ UNCHANGED <<buf, ranges, mss, phase, given, marks, verdict>>

(* execute_match_rule: each match in turn, the body once for every time      *)
(* try_match finds it.                                                       *)
ExecMatch ==
    /\ Starts("match")
    /\ ctl' = Append(ctl, Frame(todo.name, ctx.so, 0))
    /\ todo' = Loop
    /\ UNCHANGED <<buf, ranges, mss, phase, given, marks, verdict>>

match == rule.matches[top.at]
Matching(type) == Loops("match") /\ top.at <= Len(rule.matches) /\ match.type = type

RunBody(subv, so) ==
    /\ mss' = Append(mss, new_match_state(subv))
    /\ SetTop([top EXCEPT !.so = so, !.again = TRUE])
    /\ todo' = Exec(rule.body)
    /\ UNCHANGED <<buf, ranges, phase, given, marks, verdict>>

TryRegex ==
    /\ Matching("regex")
    /\ top.again => match.global
    /\ \E subv \in xregexec_substring(match, top.so, ctx.eo) :
         RunBody(subv, Unsigned(top.so + subv[1].eo - subv[1].so))

TrySubex ==
    /\ Matching("subex")
    /\ ~top.again
    /\ match.index < Len(ms.subv)
    /\ LET spec == ms.subv[match.index + 1] IN
         /\ spec.so # Unsigned(-1) /\ spec.eo # Unsigned(-1)
         /\ RunBody(<<spec>>, spec.so)

(* try_match finds nothing: on to the next match, from the context's start.  *)
TryNothing ==
    /\ Loops("match") /\ top.at <= Len(rule.matches)
    /\ \/ match.type = "regex"
       \/ match.type = "subex" /\ top.again
       \/ /\ match.type = "subex" /\ match.index < Len(ms.subv)
          /\ LET spec == ms.subv[match.index + 1] IN
               spec.so = Unsigned(-1) \/ spec.eo = Unsigned(-1)
    /\ SetTop([top EXCEPT !.at = @ + 1, !.so = ctx.so, !.again = FALSE])
    /\ UNCHANGED <<buf, ranges, mss, todo, phase, given, marks, verdict>>

(* "subexpression index is out of range": the program dies.                  *)
Die ==
    /\ Matching("subex")
    /\ ~top.again /\ match.index >= Len(ms.subv)
    /\ phase' = "dead"
    /\ UNCHANGED <<buf, ranges, mss, ctl, todo, given, marks, verdict>>

(* Mutants: the search goes on where the match ended before its body ran; a  *)
(* skip is taken for a break.                                                *)
BodyReturnsStale ==
    /\ Returned("match") /\ todo.action # "SKIP"
    /\ SetTop([top EXCEPT !.outer = IF todo.action = "BREAK" THEN "BREAK" ELSE @])
    /\ mss' = Front(mss)
    /\ todo' = Loop
    /\ UNCHANGED <<buf, ranges, phase, given, marks, verdict>>

BodyReturnsAlways ==
    /\ Returned("match")
    /\ SetTop([top EXCEPT !.so = ctx.eo,
                          !.outer = IF todo.action # "CONTINUE" THEN "BREAK" ELSE @])
    /\ mss' = Front(mss)
    /\ todo' = Loop
    /\ UNCHANGED <<buf, ranges, phase, given, marks, verdict>>

(* The body returns: the next search starts where its context ends now.      *)
BodyReturns ==
    /\ Returned("match") /\ todo.action # "SKIP"
    /\ SetTop([top EXCEPT !.so = ctx.eo,
                          !.outer = IF todo.action = "BREAK" THEN "BREAK" ELSE @])
    /\ mss' = Front(mss)
    /\ todo' = Loop
    /\ UNCHANGED <<buf, ranges, phase, given, marks, verdict>>

BodySkips ==
    /\ Returned("match") /\ todo.action = "SKIP"
    /\ mss' = Front(mss)
    /\ Leave("SKIP")
    /\ UNCHANGED <<buf, ranges, phase, given, marks, verdict>>

MatchEnd ==
    /\ Loops("match") /\ top.at > Len(rule.matches)
    /\ Leave(top.outer)
    /\ UNCHANGED <<buf, ranges, mss, phase, given, marks, verdict>>

(* Mutant: the substitution works on the whole line.                         *)
ExecSubstOnLine ==
    /\ Starts("subst")
    /\ ctl' = Append(ctl, Frame(todo.name, mss[1].subv[1].so, mss[1].subv[1].eo))
    /\ todo' = Loop
    /\ UNCHANGED <<buf, ranges, mss, phase, given, marks, verdict>>

(* execute_substitution_rule: so and eo are taken from the context once, and *)
(* every iteration moves so by what it put in, and by one past an empty      *)
(* match.                                                                    *)
ExecSubst ==
    /\ Starts("subst")
    /\ ctl' = Append(ctl, Frame(todo.name, ctx.so, ctx.eo))
    /\ todo' = Loop
    /\ UNCHANGED <<buf, ranges, mss, phase, given, marks, verdict>>

StayOnEmpty(len, replen) == replen      \* mutant: no step past an empty match

AdvanceAgain(len, replen) == IF len = 0 THEN 1 ELSE 0   \* mutant: what was put in
                                                        \* is searched again

Advance(len, replen) == replen + (IF len = 0 THEN 1 ELSE 0)

Substitute ==
    /\ Loops("subst")
    /\ \E subv \in xregexec_substring(rule, top.so, top.eo) :
       \E replen \in expand_substitution(rule.replacement, subv) :
         LET so   == subv[1].so
             len  == subv[1].eo - subv[1].so
             last == top.so >= Len(buf)
         IN  /\ Len(buf) + replen - len <= MaxLen
             /\ buf' = strbuf_replace(buf, so, subv[1].eo, NewText(replen))
             /\ update_positions(so, replen - len)
             /\ IF rule.global /\ ~last
                  THEN /\ SetTop([top EXCEPT !.so = @ + Advance(len, replen)])
                       /\ UNCHANGED todo
                  ELSE Leave("CONTINUE")
    /\ UNCHANGED <<phase, given, marks, verdict>>

SubstNothing ==
    /\ Loops("subst")
    /\ Leave("CONTINUE")
    /\ UNCHANGED <<buf, ranges, mss, phase, given, marks, verdict>>

(* execute_set_rule: the text of the context is replaced, but the positions  *)
(* are updated as if the change had been at the start of the line.           *)
ExecSet ==
    /\ Starts("set")
    /\ \E replen \in expand_substitution(Starting.replacement, ms.subv) :
         /\ Len(buf) + replen - (ctx.eo - ctx.so) <= MaxLen
         /\ buf' = strbuf_replace(buf, ctx.so, ctx.eo, NewText(replen))
         /\ update_positions(0, replen - (ctx.eo - ctx.so))
    /\ todo' = Return("CONTINUE")
    /\ UNCHANGED <<ctl, phase, given, marks, verdict>>

(* The end of execute_rule.  A skipped line is left as it is: execute_script *)
(* returns before it clears the styles.                                      *)
FinishLine ==
    /\ Running /\ todo.op = "return" /\ ctl = <<>>
    /\ phase' = IF todo.action = "SKIP" THEN "idle" ELSE "print"
    /\ mss' = <<>> /\ todo' = Loop
    /\ UNCHANGED <<buf, ranges, ctl, given, marks, verdict>>

(* The text is printed with its styles, and nobody looks at it again; the    *)
(* list of styles is cleared.                                                *)
PrintLine ==
    /\ phase = "print"
    /\ Ranges!Clear
    /\ phase' = "idle" /\ buf' = <<>> /\ marks' = <<>>
    /\ UNCHANGED <<mss, ctl, todo, given, verdict>>

(* The input has ended, or the program has died.                             *)
Stopped ==
    /\ phase = "dead" \/ (phase = "idle" /\ lines = input.lines)
    /\ UNCHANGED vars

RuleStep ==
    \/ ExecMacro \/ ExecAction \/ ExecStyle \/ InsertStyle
    \/ ExecMulti \/ MultiNext \/ MultiEnd
    \/ ExecMatch \/ TryRegex \/ TrySubex \/ TryNothing \/ Die
    \/ BodyReturns \/ BodySkips \/ MatchEnd
    \/ ExecSubst \/ Substitute \/ SubstNothing \/ ExecSet

Step == RuleStep \/ FinishLine \/ PrintLine

Next == ReadLine \/ Step \/ Stopped

Spec == Init /\ [][Next]_vars

(* Nothing can hold up the program once it has a line; it may wait for input *)
(* for ever.                                                                 *)
FairSpec == Spec /\ WF_vars(Step)

-----------------------------------------------------------------------------
Matchspec == [so : 0..(Modulus - 1), eo : 0..(Modulus - 1)]

TypeOK ==
    /\ buf \in Seq(0..MaxLen) /\ Len(buf) <= MaxLen
    /\ styles \in Seq(Ranges!StyleRange)
    /\ mss \in Seq([subv : Seq(Matchspec)])
    /\ \A i \in 1..Len(ctl) : ctl[i].rule \in DOMAIN Rules
    /\ todo.op \in {"exec", "loop", "return"}
    /\ phase \in {"idle", "run", "print", "dead"}
    /\ lines \in 0..input.lines

Between == pc = "idle"      \* not in the middle of insert_style

(* Whatever rules have done to the text since, a character that is still     *)
(* there carries exactly the styles that were laid over it, in their order:  *)
(* update_positions moved the ranges with the characters.                    *)
MarksFollowCells ==
    phase \in {"run", "print"} /\ Between =>
        \A i \in 1..Len(buf) :
            buf[i] # 0 => Ranges!StylesAt(styles, i - 1) = marks[buf[i]]

(* No search starts behind the end of the text, or writes its terminating    *)
(* NUL outside of what is allocated.                                         *)
SearchInBuffer ==
    Running /\ todo = Loop /\ ctl # <<>> =>
        \/ rule.type = "subst" /\ top.so <= Len(buf) /\ Signed(top.eo) \in 0..MaxLen
        \/ /\ rule.type = "match"
           /\ top.at <= Len(rule.matches) /\ match.type = "regex" =>
                top.so <= Len(buf) /\ Signed(ctx.eo) \in 0..Len(buf)

(* What apply_styles is given: ranges from left to right, within the text.   *)
(* Only ranges that begin together may overlap: text put in where an empty   *)
(* range and another one begin belongs to both.                              *)
StylesPrintable ==
    phase = "print" =>
        /\ \A i \in 1..Len(styles) :
              styles[i].so <= styles[i].eo /\ styles[i].eo <= Len(buf)
        /\ \A i, j \in 1..Len(styles) :
              i < j => styles[i].eo <= styles[j].so \/ styles[i].so = styles[j].so

UnsetContexts ==
    \E name \in DOMAIN Rules :
        /\ Rules[name].type = "match"
        /\ \E m \in Range(Rules[name].matches) : m.type = "regex" /\ m.optional

(* A substitution may put text in at the end of its context, or behind it:   *)
(* by matching the empty text there, or by going on, in a global one, to     *)
(* where its context ended when it began.                                    *)
OpenEnded ==
    \E name \in DOMAIN Rules :
        Rules[name].type = "subst" /\ (Rules[name].nullable \/ Rules[name].global)

(* The root context is the whole text: the assertion at the end of           *)
(* execute_rule, and before.  Every context lies in the text, and begins and *)
(* ends within the one around it; but it may begin before that if a body can *)
(* run for a subexpression that took no part (from the second match of a     *)
(* global regex on, the context of that one is empty, and lies before the    *)
(* match), and it may outgrow that one at its end.                           *)
ContextsNested ==
    phase = "run" =>
        /\ mss[1].subv[1] = SubmatchSpec(0, Len(buf))
        /\ \A d \in 2..Len(mss) :
             LET outer == mss[d - 1].subv[1]
                 inner == mss[d].subv[1]
             IN  /\ inner.so <= inner.eo /\ inner.eo <= Len(buf)
                 /\ UnsetContexts \/ outer.so <= inner.so
                 /\ UnsetContexts \/ OpenEnded \/ inner.eo <= outer.eo

(* A rule changes no text outside of its context; a global substitution      *)
(* below a match may go on behind it.                                        *)
OnlyContextChanges ==
    [][buf' # buf /\ phase = "run" =>
          /\ IsPrefix(SubSeq(buf, 1, ctx.so), buf')
          /\ \/ Loops("subst") /\ rule.global /\ Len(mss) > 1
             \/ IsSuffix(SubSeq(buf, ctx.eo + 1, Len(buf)), buf')]_vars

(* After a break or a skip no rule touches the text or its styles, however   *)
(* deep in the script it was, and a line that a rule skips is not printed.   *)
ActionsAreFinal ==
    [][/\ phase = "run" /\ verdict \in {"BREAK", "SKIP"} => UNCHANGED <<buf, marks>>
       /\ phase = "run" /\ verdict = "SKIP" => phase' # "print"]_vars

(* Every round of a global substitution has less text ahead of it than the   *)
(* one before, however much it puts in: s///g ends, on empty matches too.    *)
SubstMovesOn ==
    [][Loops("subst") /\ todo' = Loop =>
          Len(buf') - Last(ctl').so < Len(buf) - top.so]_vars

(* Every line is done at some time: printed, skipped, or the program dies.   *)
LineEnds == phase = "run" ~> phase # "run"
=============================================================================
