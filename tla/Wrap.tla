--------------------------------- MODULE Wrap ---------------------------------
(***************************************************************************)
(* Printing a line (src/wrap.c): wrap_line cuts the text into lines of the  *)
(* wanted width, and puts the markup of the style ranges, the retained      *)
(* text, the prepend and append strings and the newlines into the same      *)
(* buffer.  One action is one line cut, one style range marked up, or one   *)
(* line finished.                                                           *)
(*                                                                         *)
(* Ranges hold positions of the text as it was matched; style_mod is what   *)
(* has to be added to get a position in the buffer.  The iterator over the  *)
(* ranges stays where it is between lines, and is moved back over the       *)
(* ranges that the next line shows again.                                   *)
(*                                                                         *)
(* The options are those of Options.  Once they are read, pc is "idle", and *)
(* then "cut" and "mark" for each line that is cut off, and "printed".  The *)
(* lines come from Remark.                                                  *)
(***************************************************************************)
EXTENDS Integers, Sequences, FiniteSets, SequencesExt, Options

CONSTANTS
    Styles,         \* the styles of the script
    PreLen,         \* [Styles -> Nat]: the length of a style's pre string
    PostLen         \* [Styles -> Nat]: and of its post string

ASSUME MarkupAssumption == PreLen \in [Styles -> Nat] /\ PostLen \in [Styles -> Nat]

VARIABLES
    prepend_mb, append_mb,      \* what --prepend and --append are when their rules
                                \* are done: length, bufferlen, and styles
    text,           \* the text as it was matched, a sequence of "x" and " "
    styles,         \* its style ranges
    buf, len,       \* the buffer; its length, as wrap_line counts it
    retainbuf,      \* what the lines after the first repeat
    width, sp, ep,  \* the width for the text of a line; its start and its end
    deleted,        \* the blanks dropped after this line
    style_mod,      \* from a position of a range to one in the buffer
    node,           \* the iterator: the next range
    back,           \* how many ranges go on past the end of this line
    last, post_last, keep       \* for ranges that are the same

local == <<deleted, node, back, last, post_last, keep>>
setup == <<opt, args, prepend_mb, append_mb>>
wrapping == <<setup, text, buf, len, retainbuf, width, sp, ep, style_mod, local, pc>>

NoRange         == [style |-> "none", so |-> 0, eo |-> 0]
SameRange(x, y) == x # NoRange /\ x.so = y.so /\ x.eo = y.eo

-----------------------------------------------------------------------------
(* The cells of the buffer.                                                  *)
Cell(kind, of, n) == [kind |-> kind, of |-> of, n |-> n]
Row(kind, n)     == [i \in 1..n |-> Cell(kind, i, 1)]
Newline          == <<Cell("newline", 0, 1)>>
Pre(st)          == [n \in 1..PreLen[st] |-> Cell("pre", st, n)]
Post(st)         == [n \in 1..PostLen[st] |-> Cell("post", st, n)]
Blank(p)         == buf[p + 1].kind = "char" /\ text[buf[p + 1].of] = " "

(* One round of the loop of apply_styles, which marks up text that is not    *)
(* wrapped.  s.on is FALSE once the loop has been left.                      *)
ApplyRange(s, r) ==
    LET so   == Unsigned(r.so + s.mod)
        post == IF SameRange(s.last, r) THEN s.post ELSE 0
        es   == Smaller(s.ep, Unsigned(r.eo + s.mod))
        n    == PreLen[r.style] + PostLen[r.style]
    IN  IF ~s.on \/ so >= s.ep
          THEN [s EXCEPT !.on = FALSE]
          ELSE [on   |-> TRUE,
                buf  |-> strbuf_insert(strbuf_insert(s.buf, so - post, Pre(r.style)),
                                       es + PreLen[r.style] - post, Post(r.style)),
                mod  |-> s.mod + n,
                ep   |-> s.ep + n,
                post |-> post + PostLen[r.style],
                last |-> r]

apply_styles(cells, ranges, end) ==
    LET round[i \in 0..Len(ranges)] ==
            IF i = 0
              THEN [on |-> TRUE, buf |-> cells, mod |-> 0, ep |-> end, post |-> 0, last |-> NoRange]
              ELSE ApplyRange(round[i - 1], ranges[i])
    IN  round[Len(ranges)].buf

(* The strings of --prepend and --append, marked up by their rules, and the  *)
(* lengths wrap_line takes for them.                                         *)
Unbounded == Modulus \div 2 - 1     \* INT32_MAX
prestr == apply_styles(Row("prepend", prepend_mb.length), prepend_mb.styles, Unbounded)
appstr == apply_styles(Row("append", append_mb.length), append_mb.styles, Unbounded)
prelen == prepend_mb.bufferlen
applen == append_mb.bufferlen

NoText(n) == [length |-> n, bufferlen |-> n, styles |-> <<>>]

-----------------------------------------------------------------------------
WrapInit ==
    /\ text = <<>> /\ styles = <<>> /\ buf = <<>> /\ len = 0 /\ retainbuf = <<>>
    /\ width = 0 /\ sp = 0 /\ ep = 0 /\ style_mod = 0
    /\ deleted = 0 /\ node = 1 /\ back = 0
    /\ last = NoRange /\ post_last = 0 /\ keep = 0
    /\ prepend_mb = NoText(0) /\ append_mb = NoText(0)
    /\ opt = Defaults /\ pc = "options"

(* wrap_line is called: a text of no length is marked up and that is all.    *)
Start(line, ranges, pre, app) ==
    /\ pc = "idle"
    /\ prepend_mb' = pre /\ append_mb' = app
    /\ LET n     == Len(line)
           cells == Row("char", n)
       IN  /\ text' = line /\ styles' = ranges
           /\ len' = n
           /\ width' = opt.width
           /\ IF n = 0
                THEN /\ buf' = apply_styles(cells, ranges, Unbounded) \o Newline
                     /\ pc' = "printed"
                ELSE /\ buf' = cells
                     /\ pc' = "cut"
           /\ retainbuf' =
                IF opt.retain = 0 \/ n = 0 THEN <<>>
                ELSE apply_styles(Row("kept", Smaller(opt.retain, n)), ranges, opt.retain)
    /\ UNCHANGED <<opt, args, sp, ep, style_mod, local>>

(* Where the next line ends, before blanks are looked at.                    *)
FirstEndFull == Smaller(len, Unsigned(sp + width))     \* mutant: no room for append

FirstEnd ==
    LET e == Smaller(len, Unsigned(sp + width))
    IN  IF e # len THEN Unsigned(e - applen) ELSE e

(* The last blank of the line, or its start; the first blank after e.        *)
BlankBefore(e) ==
    CHOOSE t \in sp..Larger(sp, e - 1) :
        /\ t = sp \/ Blank(t)
        /\ \A u \in (t + 1)..(e - 1) : ~Blank(u)
BlankAfter(e) ==
    CHOOSE u \in (e + 1)..len :
        /\ u = len \/ Blank(u)
        /\ \A t \in (e + 1)..(u - 1) : ~Blank(t)
TextAfter(e) ==
    CHOOSE t \in (e + 1)..len :
        /\ t = len \/ ~Blank(t)
        /\ \A u \in (e + 1)..(t - 1) : Blank(u)

(* The line may end before the word at e, if there is a blank in it and the  *)
(* whole word fits on the next line.                                         *)
WordEnd(e) ==
    LET t    == BlankBefore(e)
        u    == BlankAfter(e)
        room == IF sp = 0 THEN Unsigned(width - prelen) ELSE width
    IN  IF /\ t > sp
           /\ u - t - 1 <= Unsigned(room - applen) \/ (u - t - 1 <= room /\ u = len)
          THEN t + 1 ELSE e

(* Mutants: the length is not kept; one blank too many is dropped.           *)
CutKeepsLen(e, n) ==
    /\ ep' = e
    /\ deleted' = n
    /\ buf' = strbuf_delete(buf, e, e + n)
    /\ len' = len
    /\ pc' = "mark"
    /\ back' = 0 /\ last' = NoRange /\ post_last' = 0 /\ keep' = 0
    /\ UNCHANGED <<setup, text, styles, retainbuf, width, sp, style_mod, node>>

CutOneMore(e, n) ==
    /\ ep' = e
    /\ deleted' = n
    /\ buf' = strbuf_delete(buf, e, IF n = 0 THEN e ELSE e + n + 1)
    /\ len' = Len(buf')
    /\ pc' = "mark"
    /\ back' = 0 /\ last' = NoRange /\ post_last' = 0 /\ keep' = 0
    /\ UNCHANGED <<setup, text, styles, retainbuf, width, sp, style_mod, node>>

Cut(e, n) ==
    /\ ep' = e
    /\ deleted' = n
    /\ buf' = strbuf_delete(buf, e, e + n)
    /\ len' = len - n
    /\ pc' = "mark"
    /\ back' = 0 /\ last' = NoRange /\ post_last' = 0 /\ keep' = 0
    /\ UNCHANGED <<setup, text, styles, retainbuf, width, sp, style_mod, node>>

CutLine ==
    /\ pc = "cut"
    /\ LET e == FirstEnd IN
         \/ e >= len /\ Cut(e, 0)
         \/ /\ e < len /\ ~Blank(e)
            /\ Cut(IF opt.wrapper = "word" THEN WordEnd(e) ELSE e, 0)
         \/ /\ e < len /\ Blank(e)
            /\ Cut(e, IF TextAfter(e) < len THEN TextAfter(e) - e ELSE 0)

(* The range the iterator is at, in the buffer.                              *)
rng      == styles[node]
from     == Unsigned(rng.so + style_mod)
to       == Unsigned(rng.eo + style_mod)
AfterLine ==
    /\ rng.so # rng.eo \/ from > ep
    /\ ep # len
    /\ from >= ep

(* Mutant: ranges that are the same are not nested.                          *)
MarkRangeFlat ==
    /\ pc = "mark" /\ node <= Len(styles) /\ ~AfterLine
    /\ LET st   == rng.style
           mark == strbuf_insert(buf, Larger(sp, from), Pre(st))
       IN  /\ buf' = strbuf_insert(mark, Smaller(ep, to) + PreLen[st], Post(st))
           /\ style_mod' = style_mod + PreLen[st] + PostLen[st]
           /\ len' = len + PreLen[st] + PostLen[st]
           /\ ep' = ep + PreLen[st] + PostLen[st]
    /\ back' = back + IF to > ep THEN 1 ELSE 0
    /\ last' = rng
    /\ node' = node + 1
    /\ UNCHANGED <<setup, text, styles, retainbuf, width, sp, deleted, post_last, keep, pc>>

(* The part of a range that lies on this line is put between the style's     *)
(* strings; inside of those of the range before, if that is the same.        *)
MarkRange ==
    /\ pc = "mark" /\ node <= Len(styles) /\ ~AfterLine
    /\ LET st   == rng.style
           same == SameRange(last, rng)
           post == IF same THEN post_last ELSE 0
           kp   == IF same THEN keep ELSE 0
           mark == strbuf_insert(buf, Larger(sp, from) - post + kp, Pre(st))
       IN  /\ buf' = strbuf_insert(mark, Smaller(ep, to) + PreLen[st] - post, Post(st))
           /\ style_mod' = style_mod + PreLen[st] + PostLen[st]
           /\ len' = len + PreLen[st] + PostLen[st]
           /\ ep' = ep + PreLen[st] + PostLen[st]
           /\ post_last' = post + PostLen[st]
           /\ keep' = kp + Larger(Signed(Unsigned(sp - from)), 0)
    /\ back' = back + IF to > ep THEN 1 ELSE 0
    /\ last' = rng
    /\ node' = node + 1
    /\ UNCHANGED <<setup, text, styles, retainbuf, width, sp, deleted, pc>>

(* The rest of the line: the iterator goes back, and the strings between the *)
(* lines are put in.                                                         *)
FinishLine ==
    /\ pc = "mark" /\ (node <= Len(styles) => AfterLine)
    /\ LET kept == IF sp # 0 THEN retainbuf ELSE <<>>
           pre  == IF sp # 0 THEN prestr ELSE <<>>
           app  == IF ep < len /\ applen > 0 THEN appstr ELSE <<>>
           more == Len(kept) + Len(pre) + Len(app) + 1
       IN  /\ buf' = strbuf_insert(strbuf_insert(buf, ep, app \o Newline), sp, kept \o pre)
           /\ len' = len + more
           /\ sp' = ep + more
           /\ style_mod' = style_mod + Len(kept) + 1 - deleted
           /\ pc' = IF ep + more < len + more THEN "cut" ELSE "printed"
    /\ width' = IF sp = 0 THEN width - (opt.retain + prelen) ELSE width
    /\ node' = IF node > Len(styles) THEN node - back
               ELSE IF to > ep THEN node - back ELSE node + 1 - back
    /\ UNCHANGED <<setup, text, styles, retainbuf, ep, deleted, back, last, post_last, keep>>

wrap_line == CutLine \/ MarkRange \/ FinishLine

(* The buffer is written out, the next line starts afresh.                   *)
EndOfBuffer ==
    /\ pc = "printed" /\ pc' = "idle"
    /\ text' = <<>> /\ styles' = <<>> /\ buf' = <<>> /\ len' = 0 /\ retainbuf' = <<>>
    /\ width' = 0 /\ sp' = 0 /\ ep' = 0 /\ style_mod' = 0
    /\ deleted' = 0 /\ node' = 1 /\ back' = 0
    /\ last' = NoRange /\ post_last' = 0 /\ keep' = 0
    /\ prepend_mb' = NoText(0) /\ append_mb' = NoText(0)
    /\ UNCHANGED <<opt, args>>

-----------------------------------------------------------------------------
WrapTypeOK ==
    /\ opt.wrapper \in Wrappers /\ {opt.width, opt.retain} \subseteq 0..(Modulus - 1)
    /\ text # <<>> => len = Len(buf)
    /\ pc \in {"mark", "cut"} => sp < len /\ sp <= Len(buf)
    /\ pc = "mark" => sp < ep /\ ep <= len
    /\ node \in 1..(Len(styles) + 1)
    /\ back \in 0..Len(styles)
    /\ pc \in {"options", "dead", "idle", "cut", "mark", "printed"}

(* The cells of the printed lines, and the line each is on.                  *)
Shown(kinds)   == {p \in 1..Len(buf) : buf[p].kind \in kinds}
Visible        == {"char", "kept", "prepend", "append"}
LineOf(p)      == Cardinality({q \in 1..(p - 1) : buf[q].kind = "newline"})
CellOf(i)      == CHOOSE p \in Shown({"char"}) : buf[p].of = i
Kept(i)        == \E p \in Shown({"char"}) : buf[p].of = i

(* Wrapping loses no text and reorders none: what is printed is the text,    *)
(* and the only characters missing are blanks; these are missing between a   *)
(* line and the next, so that each line of the text is in one piece.         *)
TextComplete ==
    /\ \A p, q \in Shown({"char"}) : p < q => buf[p].of < buf[q].of
    /\ \A i \in 1..Len(text) : ~Kept(i) => text[i] = " "

LinesWhole ==
    \A i, j \in {k \in 1..Len(text) : Kept(k)} :
        i + 1 < j /\ (\A k \in (i + 1)..(j - 1) : ~Kept(k)) =>
            LineOf(CellOf(i)) < LineOf(CellOf(j))

TextKept == pc = "printed" => TextComplete /\ LinesWhole

(* No printed line shows more characters than the width, whatever strings    *)
(* go around the text.  Markup does not count.  A prepend string that its    *)
(* rule skips is not counted by the program either, but printed.             *)
WidthRespected ==
    pc = "printed" /\ prelen = prepend_mb.length =>
        \A l \in {LineOf(p) : p \in 1..Len(buf)} :
            Cardinality({p \in Shown(Visible) : LineOf(p) = l}) <= opt.width

StylesAt(ranges, c) ==
    LET over == SelectSeq(ranges, LAMBDA r : r.so <= c /\ c < r.eo)
    IN  [i \in 1..Len(over) |-> over[i].style]

Wanted(cell) ==
    StylesAt(CASE cell.kind = "prepend" -> prepend_mb.styles
               [] cell.kind = "append"  -> append_mb.styles
               [] OTHER                 -> styles, cell.of - 1)

(* A terminal reads the markup from left to right: "open" are the styles     *)
(* that have begun, Want(cell) the ones that should have.                    *)
Read(s, cell, Want(_)) ==
    CASE cell.kind \in {"pre", "post"} /\ cell.n > 1 -> s
      [] cell.kind = "pre"     -> [s EXCEPT !.open = Append(@, cell.of)]
      [] cell.kind = "post"    -> IF s.open = <<>> THEN [s EXCEPT !.right = FALSE]
                                  ELSE [open  |-> Front(s.open),
                                        right |-> s.right /\ Last(s.open) = cell.of]
      [] cell.kind = "newline" -> [s EXCEPT !.right = @ /\ s.open = <<>>]
      [] OTHER                 -> [s EXCEPT !.right = @ /\ s.open = Want(cell)]

Whole(p) ==
    LET cell == buf[p] IN
    cell.kind \in {"pre", "post"} =>
        cell.n = 1 \/ (p > 1 /\ buf[p - 1] = [cell EXCEPT !.n = @ - 1])

MarkedUp(Want(_)) ==
    /\ \A p \in 1..Len(buf) : Whole(p)
    /\ FoldLeft(LAMBDA s, cell : Read(s, cell, Want),
                [open |-> <<>>, right |-> TRUE], buf).right

(* What wrap_line can mark up: ranges that begin and end in a word, not in    *)
(* blanks that may be dropped; whose blanks are no more in a row than their  *)
(* markup and the newline (a range that begins before the start of the       *)
(* buffer is taken to begin behind its end); and such as are the same, when  *)
(* they are no longer than their markup (the distance "keep" is off          *)
(* otherwise).                                                               *)
Blanks      == {i \in 1..Len(text) : text[i] = " "}
Markup(r)   == PreLen[r.style] + PostLen[r.style]
InWords(r)  == r.so < Len(text) /\ text[r.so + 1] = "x" /\ (r.eo > 0 => text[r.eo] = "x")
Close(r)    == \A i, j \in (r.so + 1)..r.eo : i..j \subseteq Blanks => j - i <= Markup(r)
Short(i, j) == SameRange(styles[i], styles[j]) =>
                   styles[i].eo - styles[i].so <= Markup(styles[i])
Markable ==
    /\ Blanks # {} => \A i \in 1..Len(styles) : InWords(styles[i]) /\ Close(styles[i])
    /\ \A i, j \in 1..Len(styles) : i # j => Short(i, j)

(* Each line takes some of the text with it, so that the last one comes.     *)
TextAhead == Cardinality({p \in Shown({"char"}) : p > sp})
LinesAdvance ==
    [][pc = "mark" /\ pc' # "mark" => TextAhead' < TextAhead]_<<wrapping, styles>>
===============================================================================
