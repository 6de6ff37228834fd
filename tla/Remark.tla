-------------------------------- MODULE Remark --------------------------------
(***************************************************************************)
(* The program (main and try_line of src/remark.c, execute_script of        *)
(* src/execute.c) and the cacheline that may stand behind it.  The options  *)
(* are read; then for each line the script's rule is run over it, the rules *)
(* for the strings of --append and --prepend over these, the line is        *)
(* wrapped with all three, and written.                                     *)
(*                                                                         *)
(* The rules are run by Execute, over one MatchBuffer at a time; mbs keeps  *)
(* what each of the three holds otherwise.  Wrap and Execute share the list *)
(* of style ranges: wrap_line is given the one the line's rule has made.    *)
(***************************************************************************)
EXTENDS Wrap, CacheLine

CONSTANTS
    Inputs, MaxLen, MaxRanges,                  \* see Execute
    Jobs            \* invocations: arguments, an input, and what characters are in it

Kinds == {"main", "append", "prepend"}

(* An argument is an option and its value; the strings of --prepend and       *)
(* --append are texts as well.  Rules "append" and "prepend" are the ones of *)
(* those statements.  Lengths that add up to 2^32 get past the check of main *)
(* and are not looked at.                                                    *)
Given(arguments, option) ==
    {0} \cup {a.value : a \in {arg \in Range(arguments) : arg.option = option}}

ASSUME JobsAssumption ==
    \A j \in Jobs :
        /\ j.input \in Inputs
        /\ j.alphabet \subseteq {"x", " "}
        /\ j.args \in Seq(Range(j.args))
        /\ Given(j.args, "prepend") \cup Given(j.args, "append") \subseteq 0..MaxLen
        /\ \A n \in Given(j.args, "retain"), p \in Given(j.args, "prepend"),
              a \in Given(j.args, "append") :
             parse_uint32(n) => n + p + a < Modulus

VARIABLES
    job,            \* the invocation
    at,             \* what is going on: "read", a rule of Kinds, or "wrap"
    mbs,            \* the three MatchBuffers
    input, matched, s1, old_so, at_node, inserting,     \* see Execute
    mss, ctl, todo, phase, lines, marks, verdict,
    written         \* history: all that was written

E == INSTANCE Execute WITH buf <- matched, node <- at_node, pc <- inserting

ASSUME ExecuteAssumption == E!BoundsAssumption /\ E!InputsAssumption

executing == <<input, matched, s1, old_so, at_node, inserting, mss, ctl, todo, phase,
               lines, marks, verdict>>
output    == <<cache, written>>
vars      == <<job, at, mbs, wrapping, styles, executing, output>>

-----------------------------------------------------------------------------
(* A MatchBuffer: its text, as in Execute; bufferlen; its styles; and the    *)
(* history of them.                                                          *)
MB(n, list) == [cells |-> [i \in 1..n |-> i], bufferlen |-> n, styles |-> list,
                marks |-> [i \in 1..n |-> <<>>]]

Init ==
    /\ job \in Jobs /\ args = job.args /\ input = job.input
    /\ at = "read" /\ mbs = [k \in Kinds |-> MB(0, <<>>)]
    /\ WrapInit /\ E!Init /\ CacheInit /\ written = <<>>

ReadOptions ==
    /\ OptionsStep
    /\ UNCHANGED <<prepend_mb, append_mb, text, styles, buf, len, retainbuf, width, sp, ep>>
    /\ UNCHANGED <<style_mod, local, job, at, mbs, executing, output>>

(* try_line sets the three buffers.  The styles of the line are those that   *)
(* the one before has left.                                                  *)
ReadLine ==
    /\ at = "read" /\ pc = "idle" /\ phase = "idle" /\ ~closed
    /\ lines < input.lines /\ lines' = lines + 1
    /\ \E n \in input.lens :
         mbs' = [main    |-> MB(n, mbs["main"].styles),
                 append  |-> MB(opt.append, <<>>),
                 prepend |-> MB(opt.prepend, <<>>)]
    /\ at' = "main"
    /\ UNCHANGED <<job, wrapping, styles, input, matched, s1, old_so, at_node, inserting>>
    /\ UNCHANGED <<mss, ctl, todo, phase, marks, verdict, output>>

NextOf(kind) == CASE kind = "main" -> "append" [] kind = "append" -> "prepend"
                 [] kind = "prepend" -> "wrap"

HasRule == at \in DOMAIN input.rules

(* A script need not have the rule, and without a file there is no script.   *)
NoRule ==
    /\ at \in Kinds /\ phase = "idle" /\ ~HasRule
    /\ at' = NextOf(at)
    /\ UNCHANGED <<job, mbs, wrapping, styles, executing, output>>

RunRule ==
    /\ at \in Kinds /\ phase = "idle" /\ HasRule
    /\ E!Enter(at, mbs[at].bufferlen)
    /\ styles' = mbs[at].styles
    /\ UNCHANGED <<job, at, mbs, wrapping, input, s1, old_so, at_node, inserting, lines, output>>

RuleStep ==
    /\ E!RuleStep \/ (E!FinishLine /\ todo.action # "SKIP")
    /\ UNCHANGED <<job, at, mbs, wrapping, output>>

Result(n) == [cells |-> matched, bufferlen |-> n, styles |-> styles, marks |-> marks]

(* The rule is done; the list it was run on is cleared in the end.           *)
RuleDone ==
    /\ at \in Kinds
    /\ mbs' = [mbs EXCEPT ![at] = Result(Len(matched))]
    /\ E!PrintLine
    /\ at' = NextOf(at)
    /\ UNCHANGED <<job, wrapping, output>>

(* A line that is skipped is done with, but keeps its styles.  A string that *)
(* is skipped counts as empty.                                               *)
SkipsLine ==
    /\ at = "main" /\ E!FinishLine /\ todo.action = "SKIP"
    /\ mbs' = [mbs EXCEPT !["main"] = MB(0, styles)]
    /\ at' = "read"
    /\ UNCHANGED <<job, wrapping, output>>

SkipsString ==
    /\ at \in {"append", "prepend"} /\ E!FinishLine /\ todo.action = "SKIP"
    /\ mbs' = [mbs EXCEPT ![at] = Result(0)]
    /\ at' = NextOf(at)
    /\ UNCHANGED <<job, wrapping, output>>

(* Which of the line's characters are blanks the rules have known, but not   *)
(* this model.                                                               *)
StringMB(kind) ==
    [length |-> Len(mbs[kind].cells), bufferlen |-> mbs[kind].bufferlen,
     styles |-> mbs[kind].styles]

StartWrap ==
    /\ at = "wrap"
    /\ \E line \in [1..mbs["main"].bufferlen -> job.alphabet] :
         Start(line, mbs["main"].styles, StringMB("prepend"), StringMB("append"))
    /\ UNCHANGED <<job, at, mbs, executing, output>>

WrapStep ==
    /\ wrap_line
    /\ UNCHANGED <<job, at, mbs, executing, output>>

(* fputs and fflush.                                                         *)
Character(cell) == IF cell.kind = "newline" THEN "newline" ELSE "char"
Written         == [p \in 1..Len(buf) |-> Character(buf[p])]

PrintBuffer ==
    /\ EndOfBuffer
    /\ pipe' = pipe \o Written /\ written' = written \o Written
    /\ mbs' = [k \in Kinds |-> MB(0, <<>>)]
    /\ at' = "read"
    /\ UNCHANGED <<job, executing, closed, held, screen>>

(* The input has ended, or an error was fatal: remark exits.                 *)
Exit ==
    /\ \/ pc = "dead" \/ phase = "dead"
       \/ at = "read" /\ pc = "idle" /\ lines = input.lines
    /\ ~closed /\ closed' = TRUE
    /\ UNCHANGED <<job, at, mbs, wrapping, styles, executing, pipe, held, screen, written>>

CopyLine ==
    /\ cacheline
    /\ UNCHANGED <<job, at, mbs, wrapping, styles, executing, written>>

Ended == closed /\ pipe = <<>> /\ UNCHANGED vars

RemarkStep ==
    \/ ReadOptions \/ NoRule \/ RunRule \/ RuleStep \/ RuleDone \/ SkipsLine \/ SkipsString
    \/ StartWrap \/ WrapStep \/ PrintBuffer \/ Exit

Next == RemarkStep \/ ReadLine \/ CopyLine \/ Ended

Spec == Init /\ [][Next]_vars

(* cacheline waits for nothing but lines, however slow remark is.            *)
FairSpec == Spec /\ WF_cache(CopyLine)

-----------------------------------------------------------------------------
TypeOK ==
    /\ job \in Jobs /\ at \in Kinds \cup {"read", "wrap"}
    /\ WrapTypeOK /\ E!TypeOK
    /\ closed \in BOOLEAN /\ held \in BOOLEAN

(* Every printed character stands within the markup of exactly the styles    *)
(* that rules laid over it, the first one outermost, on whatever line it is, *)
(* whatever substitutions, strings and line breaks came between; every line  *)
(* ends the markup it begins, and no string of a style is torn.              *)
Laid(cell) ==
    LET mb == mbs["main"]
    IN  IF cell.kind = "char" /\ mb.cells[cell.of] # 0
          THEN mb.marks[mb.cells[cell.of]] ELSE Wanted(cell)
PrintedAsLaid == pc = "printed" /\ Markable => MarkedUp(Laid)

(* What is on the screen is what was read from the pipe, except for the      *)
(* newline at its end: that one waits for more.                              *)
NewlineHeld ==
    LET read == SubSeq(written, 1, Len(written) - Len(pipe))
    IN  screen = IF read # <<>> /\ Last(read) = "newline" THEN Front(read) ELSE read

(* What is written is shown, newline or not, without more being written.      *)
AllShown == pipe # <<>> ~> pipe = <<>>
===============================================================================
