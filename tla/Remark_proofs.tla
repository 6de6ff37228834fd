---------------------------- MODULE Remark_proofs ----------------------------
(***************************************************************************)
(* The whole program: what it prints is the text, line by line, within the  *)
(* width, and cacheline shows all of it but the last newline.               *)
(*                                                                         *)
(* First the wrapping, with whatever lines and ranges it is started:        *)
(*                                                                         *)
(* - WrapTyped: what the variables are.  Typing adds, at the end, those of  *)
(*   the program around it, and the invariant of the rule engine.           *)
(* - Complete: no character is lost or moved but blanks.  That needs only   *)
(*   that the length of the buffer can be counted (Small).                  *)
(* - Sized: where lines begin and end, when the strings of --prepend and    *)
(*   --append are no longer than these say (Fits).                          *)
(* - Lined: the text is a row of lines, up to sp printed (Printed) and up   *)
(*   to ep on the line (OpenLine), when the markup has room (Room): its     *)
(*   ranges are Waiting for the line, or Marked up to "node" on it.         *)
(***************************************************************************)
EXTENDS Remark, Inductions, SequenceTheorems

StyleRange == [style : Styles, so : Nat, eo : Nat]

(* The cells of a buffer: markup, and what shows.                            *)
Letters == {"char", "kept", "prepend", "append", "newline"}
Marks   == [kind : {"pre", "post"}, of : Styles, n : Nat]
Cells   == Marks \cup [kind : Letters, of : Nat, n : Nat]

-----------------------------------------------------------------------------
(* Numbers and sequences.                                                    *)
LEMMA ModulusFacts == Modulus \in Nat /\ Modulus > 0
  BY ModulusAssumption

LEMMA UnsignedIs ==
    ASSUME NEW x \in Int
    PROVE  Unsigned(x) \in 0..(Modulus - 1) /\ (x \in 0..(Modulus - 1) => Unsigned(x) = x)
  BY ModulusFacts DEF Unsigned

LEMMA PieceTyped ==
    ASSUME NEW S, NEW s \in Seq(S), NEW m \in Nat \ {0}, NEW n \in Nat, n <= Len(s)
    PROVE  /\ SubSeq(s, m, n) \in Seq(S)
           /\ Len(SubSeq(s, m, n)) = IF m <= n THEN n - m + 1 ELSE 0
           /\ \A i \in 1..(n - m + 1) : SubSeq(s, m, n)[i] = s[m + i - 1]
<1>1. m \in Int /\ n \in Int /\ \A i \in m..n : s[i] \in S
  OBVIOUS
<1> QED
  BY <1>1, SubSeqProperties

LEMMA FunctionIsSeq ==
    ASSUME NEW S, NEW n \in Nat, NEW f \in [1..n -> S]
    PROVE  f \in Seq(S) /\ Len(f) = n
  OBVIOUS

(* What an insertion at q does to a sequence.                                *)
Inserted(after, b, q, new) ==
    /\ q \in 0..Len(b) /\ Len(after) = Len(b) + Len(new)
    /\ \A i \in 1..q : after[i] = b[i]
    /\ \A i \in 1..Len(new) : after[q + i] = new[i]
    /\ \A i \in (q + 1)..Len(b) : after[Len(new) + i] = b[i]

LEMMA ReplaceIs ==
    ASSUME NEW C, NEW b \in Seq(C), NEW new \in Seq(C),
           NEW p \in 0..Len(b), NEW q \in p..Len(b)
    PROVE  LET after == SubSeq(b, 1, p) \o new \o SubSeq(b, q + 1, Len(b))
           IN  /\ after \in Seq(C) /\ Len(after) = Len(b) + Len(new) - (q - p)
               /\ \A i \in 1..p : after[i] = b[i]
               /\ \A i \in 1..Len(new) : after[p + i] = new[i]
               /\ \A i \in (q + 1)..Len(b) : after[Len(new) - (q - p) + i] = b[i]
<1> DEFINE x == SubSeq(b, 1, p)
           z == SubSeq(b, q + 1, Len(b))
<1>1. Len(b) \in Nat /\ Len(new) \in Nat
  OBVIOUS
<1>2. x \in Seq(C) /\ Len(x) = p /\ \A i \in 1..p : x[i] = b[i]
  <2>1. /\ x \in Seq(C) /\ Len(x) = IF 1 <= p THEN p - 1 + 1 ELSE 0
        /\ \A i \in 1..(p - 1 + 1) : x[i] = b[1 + i - 1]
    BY <1>1, PieceTyped
  <2> HIDE DEF x
  <2> QED
    BY <1>1, <2>1
<1>3. z \in Seq(C) /\ Len(z) = Len(b) - q /\ \A i \in 1..(Len(b) - q) : z[i] = b[q + i]
  <2>1. /\ z \in Seq(C) /\ Len(z) = IF q + 1 <= Len(b) THEN Len(b) - (q + 1) + 1 ELSE 0
        /\ \A i \in 1..(Len(b) - (q + 1) + 1) : z[i] = b[(q + 1) + i - 1]
    BY <1>1, PieceTyped
  <2> HIDE DEF z
  <2>2. \A i \in 1..(Len(b) - q) : (q + 1) + i - 1 = q + i
    BY <1>1
  <2> QED
    BY <1>1, <2>1, <2>2
<1> HIDE DEF x, z
<1> DEFINE xn == x \o new
<1>4. xn \in Seq(C) /\ Len(xn) = p + Len(new)
      /\ \A i \in 1..(p + Len(new)) : xn[i] = IF i <= p THEN x[i] ELSE new[i - p]
  BY <1>1, <1>2, ConcatProperties
<1> HIDE DEF xn
<1> DEFINE after == xn \o z
           m == p + Len(new)
<1>5. after \in Seq(C) /\ Len(after) = m + (Len(b) - q)
      /\ \A i \in 1..(m + (Len(b) - q)) : after[i] = IF i <= m THEN xn[i] ELSE z[i - m]
  <2>1. Len(xn) = m /\ Len(z) = Len(b) - q
    BY <1>3, <1>4
  <2>2. /\ after \in Seq(C) /\ Len(after) = Len(xn) + Len(z)
        /\ \A i \in 1..(Len(xn) + Len(z)) :
              after[i] = IF i <= Len(xn) THEN xn[i] ELSE z[i - Len(xn)]
    BY <1>3, <1>4, ConcatProperties
  <2> HIDE DEF m, after
  <2> QED
    BY <2>1, <2>2
<1> HIDE DEF after
<1>6. \A i \in 1..p : after[i] = b[i]
  <2> SUFFICES ASSUME NEW i \in 1..p PROVE after[i] = b[i]
    OBVIOUS
  <2>1. i \in 1..m /\ i \in 1..(m + (Len(b) - q)) /\ i <= m /\ i <= p
    BY <1>1
  <2> QED
    BY <1>2, <1>4, <1>5, <2>1
<1>7. \A i \in 1..Len(new) : after[p + i] = new[i]
  <2> SUFFICES ASSUME NEW i \in 1..Len(new) PROVE after[p + i] = new[i]
    OBVIOUS
  <2>1. p + i \in 1..m /\ p + i \in 1..(m + (Len(b) - q)) /\ p + i <= m
        /\ ~(p + i <= p) /\ p + i - p = i
    BY <1>1
  <2> QED
    BY <1>4, <1>5, <2>1
<1>8. \A i \in (q + 1)..Len(b) : after[Len(new) - (q - p) + i] = b[i]
  <2> SUFFICES ASSUME NEW i \in (q + 1)..Len(b) PROVE after[Len(new) - (q - p) + i] = b[i]
    OBVIOUS
  <2> DEFINE t == Len(new) - (q - p) + i
  <2>1. t \in 1..(m + (Len(b) - q)) /\ ~(t <= m)
        /\ t - m = i - q /\ i - q \in 1..(Len(b) - q) /\ q + (i - q) = i
    BY <1>1
  <2> HIDE DEF t
  <2>2. after[t] = z[i - q]
    BY <1>5, <2>1
  <2> QED
    BY <1>3, <2>1, <2>2 DEF t
<1>9. after \in Seq(C) /\ Len(after) = Len(b) + Len(new) - (q - p)
  <2>1. m + (Len(b) - q) = Len(b) + Len(new) - (q - p)
    BY <1>1
  <2> QED
    BY <1>5, <2>1
<1>10. after = SubSeq(b, 1, p) \o new \o SubSeq(b, q + 1, Len(b))
  BY DEF after, xn, x, z
<1> QED
  BY <1>6, <1>7, <1>8, <1>9, <1>10

LEMMA InsertIs ==
    ASSUME NEW C, NEW b \in Seq(C), NEW new \in Seq(C), NEW p \in Int
    PROVE  /\ strbuf_insert(b, p, new) \in Seq(C)
           /\ Inserted(strbuf_insert(b, p, new), b, Smaller(Unsigned(p), Len(b)), new)
<1> DEFINE q == Smaller(Unsigned(p), Len(b))
<1>1. q \in 0..Len(b) /\ q \in q..Len(b) /\ Len(b) \in Nat /\ Len(new) \in Nat
  BY UnsignedIs, ModulusFacts DEF Smaller
<1>2. strbuf_insert(b, p, new) = SubSeq(b, 1, q) \o new \o SubSeq(b, q + 1, Len(b))
  BY DEF strbuf_insert, strbuf_replace, normalize_strbuf_pos, Smaller, Larger
<1> HIDE DEF q
<1> DEFINE after == SubSeq(b, 1, q) \o new \o SubSeq(b, q + 1, Len(b))
<1>3. /\ after \in Seq(C) /\ Len(after) = Len(b) + Len(new) - (q - q)
      /\ \A i \in 1..q : after[i] = b[i]
      /\ \A i \in 1..Len(new) : after[q + i] = new[i]
      /\ \A i \in (q + 1)..Len(b) : after[Len(new) - (q - q) + i] = b[i]
  BY <1>1, ReplaceIs
<1> HIDE DEF after
<1>4. Len(b) + Len(new) - (q - q) = Len(b) + Len(new) /\ Len(new) - (q - q) = Len(new)
  BY <1>1
<1>5. Inserted(after, b, q, new)
  BY <1>1, <1>3, <1>4 DEF Inserted
<1> QED
  BY <1>2, <1>3, <1>5 DEF after, q

(* Where a cell comes from.                                                  *)
LEMMA Origin ==
    ASSUME NEW C, NEW b \in Seq(C), NEW new \in Seq(C), NEW q, NEW after,
           Inserted(after, b, q, new), NEW i \in 1..Len(after)
    PROVE  \/ i <= q /\ i \in 1..Len(b) /\ after[i] = b[i]
           \/ /\ i > q /\ i <= q + Len(new)
              /\ i - q \in 1..Len(new) /\ after[i] = new[i - q]
           \/ /\ i > q + Len(new)
              /\ i - Len(new) \in (q + 1)..Len(b) /\ after[i] = b[i - Len(new)]
<1>1. Len(b) \in Nat /\ Len(new) \in Nat /\ q \in 0..Len(b) /\ i \in 1..(Len(b) + Len(new))
  BY DEF Inserted
<1>2. CASE i <= q
  BY <1>1, <1>2 DEF Inserted
<1>3. CASE i > q /\ i <= q + Len(new)
  <2>1. i - q \in 1..Len(new) /\ q + (i - q) = i
    BY <1>1, <1>3
  <2> QED
    BY <1>3, <2>1 DEF Inserted
<1>4. CASE i > q + Len(new)
  <2>1. i - Len(new) \in (q + 1)..Len(b) /\ Len(new) + (i - Len(new)) = i
    BY <1>1, <1>4
  <2> QED
    BY <1>4, <2>1 DEF Inserted
<1> QED
  BY <1>1, <1>2, <1>3, <1>4

-----------------------------------------------------------------------------
(* The cells.                                                                *)
LEMMA MarkTyped ==
    ASSUME NEW st \in Styles
    PROVE  /\ Pre(st) \in Seq(Marks) /\ Len(Pre(st)) = PreLen[st]
           /\ Post(st) \in Seq(Marks) /\ Len(Post(st)) = PostLen[st]
           /\ PreLen[st] \in Nat /\ PostLen[st] \in Nat
<1>1. PreLen[st] \in Nat /\ PostLen[st] \in Nat
  BY MarkupAssumption
<1>2. \A n \in Nat : Cell("pre", st, n) \in Marks /\ Cell("post", st, n) \in Marks
  BY DEF Cell, Marks
<1>3. Pre(st) \in [1..PreLen[st] -> Marks] /\ Post(st) \in [1..PostLen[st] -> Marks]
  BY <1>1, <1>2 DEF Pre, Post
<1> QED
  BY <1>1, <1>3, FunctionIsSeq

LEMMA CellFields ==
    ASSUME NEW c \in Cells
    PROVE  /\ c.kind \in {"pre", "post"} \cup Letters
           /\ c.kind \in Letters => c.of \in Nat
           /\ c.kind \notin {"pre", "post"} => c.kind \in Letters
  BY DEF Cells, Marks, Letters

LEMMA MarksAreCells == Marks \subseteq Cells /\ Seq(Marks) \subseteq Seq(Cells)
  BY DEF Cells

LEMMA MarkFields ==
    ASSUME NEW c \in Marks
    PROVE  c.kind \in {"pre", "post"} /\ c.kind \notin Letters
  BY DEF Marks, Letters

(* A text of "n" cells of a kind, with markup anywhere, and perhaps not whole. *)
Shows(b, kind, n) ==
    /\ b \in Seq(Cells)
    /\ \A p \in 1..Len(b) :
         /\ b[p].kind \in {"pre", "post", kind}
         /\ b[p].kind = kind => b[p].of \in 1..n
    /\ \A p, q \in 1..Len(b) :
         p < q /\ b[p].kind = kind /\ b[q].kind = kind => b[p].of < b[q].of

LEMMA RowShows ==
    ASSUME NEW kind \in Letters, NEW n \in Nat
    PROVE  Shows(Row(kind, n), kind, n) /\ Len(Row(kind, n)) = n
<1>1. \A i \in 1..n : Cell(kind, i, 1) \in Cells
  BY DEF Cell, Cells
<1>2. Row(kind, n) \in [1..n -> Cells]
  BY <1>1 DEF Row
<1>3. Row(kind, n) \in Seq(Cells) /\ Len(Row(kind, n)) = n
  BY <1>2, FunctionIsSeq
<1>4. \A i \in 1..n : Row(kind, n)[i].kind = kind /\ Row(kind, n)[i].of = i
  BY DEF Row, Cell
<1> QED
  BY <1>3, <1>4 DEF Shows

LEMMA InsertShows ==
    ASSUME NEW kind \in Letters, NEW n \in Nat, NEW b, Shows(b, kind, n),
           NEW new \in Seq(Marks), NEW p \in Int
    PROVE  Shows(strbuf_insert(b, p, new), kind, n)
<1> DEFINE after == strbuf_insert(b, p, new)
           q == Smaller(Unsigned(p), Len(b))
<1>1. b \in Seq(Cells) /\ new \in Seq(Cells) /\ Len(b) \in Nat /\ Len(new) \in Nat
  BY MarksAreCells DEF Shows
<1>2. after \in Seq(Cells) /\ Inserted(after, b, q, new)
  BY <1>1, InsertIs
<1> HIDE DEF after, q
<1>3. q \in 0..Len(b) /\ Len(after) \in Nat
  BY <1>2 DEF Inserted
<1>4. \A i \in 1..Len(new) : new[i].kind \in {"pre", "post"} /\ new[i].kind # kind
  BY MarkFields
<1> DEFINE From(i) == IF i <= q THEN i ELSE i - Len(new)
<1>5. ASSUME NEW i \in 1..Len(after)
      PROVE  \/ i > q /\ after[i].kind \in {"pre", "post"} /\ after[i].kind # kind
             \/ From(i) \in 1..Len(b) /\ after[i] = b[From(i)] /\ (i <= q \/ i > q + Len(new))
  <2>1. \/ i <= q /\ i \in 1..Len(b) /\ after[i] = b[i]
        \/ /\ i > q /\ i <= q + Len(new)
           /\ i - q \in 1..Len(new) /\ after[i] = new[i - q]
        \/ /\ i > q + Len(new)
           /\ i - Len(new) \in (q + 1)..Len(b) /\ after[i] = b[i - Len(new)]
    BY <1>1, <1>2, Origin
  <2> QED
    BY <1>1, <1>3, <1>4, <2>1
<1>6. ASSUME NEW i \in 1..Len(after), NEW j \in 1..Len(after), i < j,
             after[i].kind = kind, after[j].kind = kind
      PROVE  after[i].of < after[j].of
  <2>1. /\ From(i) \in 1..Len(b) /\ after[i] = b[From(i)] /\ (i <= q \/ i > q + Len(new))
        /\ From(j) \in 1..Len(b) /\ after[j] = b[From(j)] /\ (j <= q \/ j > q + Len(new))
    BY <1>5, <1>6
  <2>2. From(i) < From(j)
    BY <1>1, <1>3, <1>6, <2>1
  <2> HIDE DEF From
  <2> QED
    BY <1>6, <2>1, <2>2 DEF Shows
<1>7. ASSUME NEW i \in 1..Len(after)
      PROVE  /\ after[i].kind \in {"pre", "post", kind}
             /\ after[i].kind = kind => after[i].of \in 1..n
  <2>1. CASE after[i].kind \in {"pre", "post"} /\ after[i].kind # kind
    BY <2>1
  <2>2. CASE From(i) \in 1..Len(b) /\ after[i] = b[From(i)]
    <3> HIDE DEF From
    <3> QED
      BY <2>2 DEF Shows
  <2> QED
    BY <1>5, <2>1, <2>2
<1>8. Shows(after, kind, n)
  BY <1>2, <1>6, <1>7 DEF Shows
<1> QED
  BY <1>8 DEF after

-----------------------------------------------------------------------------
(* Text that is marked up but not wrapped.                                   *)
LEMMA MinIs == \A x, y \in Int : Smaller(x, y) \in Int /\ Smaller(x, y) <= x /\ Smaller(x, y) <= y
  BY DEF Smaller

LEMMA MaxIs == \A x, y \in Int : Larger(x, y) \in Int /\ Larger(x, y) >= x /\ Larger(x, y) >= y
  BY DEF Larger

Rounds(kind, n) ==
    [on : BOOLEAN, buf : {b \in Seq(Cells) : Shows(b, kind, n)}, mod : Int, ep : Int,
     post : Int, last : StyleRange \cup {NoRange}]

LEMMA ApplyRangeShows ==
    ASSUME NEW kind \in Letters, NEW n \in Nat, NEW s \in Rounds(kind, n), NEW r \in StyleRange
    PROVE  ApplyRange(s, r) \in Rounds(kind, n)
<1> DEFINE so   == Unsigned(r.so + s.mod)
           post == IF SameRange(s.last, r) THEN s.post ELSE 0
           es   == Smaller(s.ep, Unsigned(r.eo + s.mod))
           m    == PreLen[r.style] + PostLen[r.style]
           b    == strbuf_insert(s.buf, so - post, Pre(r.style))
           c    == strbuf_insert(b, es + PreLen[r.style] - post, Post(r.style))
<1>1. /\ s.on \in BOOLEAN /\ Shows(s.buf, kind, n) /\ s.mod \in Int /\ s.ep \in Int
      /\ s.post \in Int
      /\ r.style \in Styles /\ r.so \in Nat /\ r.eo \in Nat
  BY DEF Rounds, StyleRange
<1>2. /\ PreLen[r.style] \in Nat /\ PostLen[r.style] \in Nat
      /\ Pre(r.style) \in Seq(Marks) /\ Post(r.style) \in Seq(Marks)
  BY <1>1, MarkTyped
<1>3. so \in Int /\ post \in Int /\ es \in Int
  <2>1. r.so + s.mod \in Int /\ r.eo + s.mod \in Int
    BY <1>1
  <2>2. so \in Int /\ Unsigned(r.eo + s.mod) \in Int
    BY <2>1, UnsignedIs, ModulusFacts
  <2>3. post \in Int
    BY <1>1
  <2>4. \A x \in Int : Smaller(s.ep, x) \in Int
    BY <1>1 DEF Smaller
  <2> HIDE DEF so, post
  <2> QED
    BY <2>2, <2>3, <2>4
<1>4. Shows(b, kind, n)
  <2>1. so - post \in Int
    BY <1>3
  <2> HIDE DEF so, post
  <2> QED
    BY <1>1, <1>2, <2>1, InsertShows
<1>5. Shows(c, kind, n)
  <2>1. es + PreLen[r.style] - post \in Int
    BY <1>2, <1>3
  <2> HIDE DEF es, post, b
  <2> QED
    BY <1>2, <1>4, <2>1, InsertShows
<1>6. c \in Seq(Cells)
  <2> HIDE DEF c
  <2> QED
    BY <1>5 DEF Shows
<1>7. ASSUME s.on, so < s.ep
      PROVE  ApplyRange(s, r) = [on |-> TRUE, buf |-> c, mod |-> s.mod + m, ep |-> s.ep + m,
                                 post |-> post + PostLen[r.style], last |-> r]
  BY <1>3, <1>1, <1>7 DEF ApplyRange
<1>8. ASSUME ~(s.on /\ so < s.ep)
      PROVE  ApplyRange(s, r) = [s EXCEPT !.on = FALSE]
  BY <1>1, <1>3, <1>8 DEF ApplyRange
<1>9. m \in Int /\ s.mod + m \in Int /\ s.ep + m \in Int /\ post + PostLen[r.style] \in Int
  <2> HIDE DEF so, es, post
  <2>1. post \in Int /\ s.mod \in Int /\ s.ep \in Int
    BY <1>1, <1>3
  <2> QED
    BY <1>2, <2>1
<1> HIDE DEF so, post, es, m, b, c
<1>10. CASE s.on /\ so < s.ep
  <2>1. c \in {x \in Seq(Cells) : Shows(x, kind, n)} /\ r \in StyleRange \cup {NoRange}
    BY <1>5, <1>6
  <2>2. [on |-> TRUE, buf |-> c, mod |-> s.mod + m, ep |-> s.ep + m,
         post |-> post + PostLen[r.style], last |-> r] \in Rounds(kind, n)
    BY <1>9, <2>1 DEF Rounds
  <2> QED
    BY <1>7, <1>10, <2>2
<1>11. CASE ~(s.on /\ so < s.ep)
  <2>1. [s EXCEPT !.on = FALSE] \in Rounds(kind, n)
    BY DEF Rounds
  <2> QED
    BY <1>8, <1>11, <2>1
<1> QED
  BY <1>10, <1>11

LEMMA ApplyShows ==
    ASSUME NEW kind \in Letters, NEW n \in Nat, NEW cells, Shows(cells, kind, n),
           NEW list \in Seq(StyleRange), NEW end \in Int
    PROVE  Shows(apply_styles(cells, list, end), kind, n)
<1> DEFINE m == Len(list)
           S == Rounds(kind, n)
           first == [on |-> TRUE, buf |-> cells, mod |-> 0, ep |-> end, post |-> 0,
                     last |-> NoRange]
           op == [a \in (1..m) \X S |-> ApplyRange(a[2], list[a[1]])]
           body(h) == [i \in 0..m |-> IF i = 0 THEN first ELSE ApplyRange(h[i - 1], list[i])]
<1>1. m \in Nat
  OBVIOUS
<1>2. first \in S
  BY DEF Rounds, Shows
<1>3. \A i \in 1..m, s \in S : ApplyRange(s, list[i]) \in S
  BY ApplyRangeShows
<1>4. op \in [(1..m) \X S -> S]
  <2> HIDE DEF S
  <2> QED
    BY <1>3
<1>5. PICK f \in [0..m -> S] : RecursesUpto(f, m, first, op)
  <2> HIDE DEF m, S, first, op
  <2> QED
    BY <1>1, <1>2, <1>4, RecursionUpto
<1>6. f = body(f)
  <2>1. f[0] = first
    BY <1>5 DEF RecursesUpto
  <2>2. ASSUME NEW i \in 0..m, i # 0 PROVE f[i] = ApplyRange(f[i - 1], list[i])
    <3>1. i \in 1..m /\ i - 1 \in 0..m
      BY <1>1, <2>2
    <3>2. f[i] = op[<<i, f[i - 1]>>]
      <4> HIDE DEF op, S, first
      <4> QED
        BY <1>5, <3>1 DEF RecursesUpto
    <3> HIDE DEF S
    <3> QED
      BY <1>5, <3>1, <3>2
  <2> HIDE DEF S, first
  <2> QED
    BY <1>5, <2>1, <2>2
<1> DEFINE round == CHOOSE h : h = body(h)
<1>7. round = body(round)
  <2> HIDE DEF body
  <2> QED
    BY <1>6
<1>8. apply_styles(cells, list, end) = round[m].buf
  BY DEF apply_styles
<1> HIDE DEF round
<1>9. round[0] = first /\ \A i \in 1..m : round[i] = ApplyRange(round[i - 1], list[i])
  <2>1. \A i \in 0..m : round[i] = IF i = 0 THEN first ELSE ApplyRange(round[i - 1], list[i])
    <3> HIDE DEF first
    <3> QED
      BY <1>7
  <2>2. 0 \in 0..m /\ \A i \in 1..m : i \in 0..m /\ i # 0
    BY <1>1
  <2> HIDE DEF first, m
  <2> QED
    BY <2>1, <2>2
<1> DEFINE T == {i \in Nat : i <= m => round[i] \in S}
<1>10. T \in SUBSET Nat /\ 0 \in T
  <2> HIDE DEF S, first
  <2> QED
    BY <1>2, <1>9
<1>11. ASSUME NEW i \in Nat, i \in T PROVE i + 1 \in T
  <2> SUFFICES ASSUME i + 1 <= m PROVE round[i + 1] \in S
    OBVIOUS
  <2>1. i <= m /\ i + 1 \in 1..m /\ (i + 1) - 1 = i
    BY <1>1
  <2>2. round[i] \in S
    BY <1>11, <2>1
  <2> HIDE DEF S
  <2> QED
    BY <1>3, <1>9, <2>1, <2>2
<1>12. T = Nat
  <2> HIDE DEF T
  <2> QED
    BY <1>10, <1>11, SetInduction
<1>13. round[m] \in S
  BY <1>1, <1>12
<1> QED
  BY <1>8, <1>13 DEF Rounds

-----------------------------------------------------------------------------
(* What holds of the wrapping whatever is printed.                           *)
Alphabet == {"x", " "}

StringTyped(mb) ==
    mb.length \in Nat /\ mb.bufferlen \in {0, mb.length} /\ mb.styles \in Seq(StyleRange)

(* Nothing is left of a line when it is printed.                             *)
Rested ==
    /\ text = <<>> /\ buf = <<>> /\ len = 0 /\ retainbuf = <<>>
    /\ width = 0 /\ sp = 0 /\ ep = 0 /\ style_mod = 0
    /\ deleted = 0 /\ node = 1 /\ back = 0
    /\ last = NoRange /\ post_last = 0 /\ keep = 0

WrapTyped ==
    /\ pc \in {"options", "dead", "idle", "cut", "mark", "printed"}
    /\ pc \in {"options", "dead", "idle"} => Rested
    /\ text \in Seq(Alphabet) /\ styles \in Seq(StyleRange)
    /\ buf \in Seq(Cells) /\ retainbuf \in Seq(Cells)
    /\ len \in Nat /\ sp \in Nat /\ ep \in Nat /\ deleted \in Nat
    /\ width \in Int /\ style_mod \in Int /\ post_last \in Int /\ keep \in Int
    /\ last \in StyleRange \cup {NoRange}
    /\ node \in 1..(Len(styles) + 1) /\ back \in 0..Len(styles)
    /\ pc = "mark" => back < node
    /\ StringTyped(prepend_mb) /\ StringTyped(append_mb)

-----------------------------------------------------------------------------
(* The buffers stay buffers.                                                 *)
LEMMA GreatestOf ==
    ASSUME NEW m \in Int, NEW n \in Int, NEW S \in SUBSET (m..n), S # {}
    PROVE  \E x \in S : \A y \in S : y <= x
<1> DEFINE T == {n - x : x \in S}
<1>1. T \in SUBSET Nat /\ T # {}
  OBVIOUS
<1>2. PICK d \in T : \A t \in T : d <= t
  BY <1>1, LeastNumber
<1>3. PICK x \in S : d = n - x
  BY <1>2
<1>4. ASSUME NEW y \in S PROVE y <= x
  <2>1. n - y \in T /\ y \in Int /\ x \in Int
    BY <1>3
  <2> QED
    BY <1>2, <1>3, <2>1
<1> QED
  BY <1>4

LEMMA LeastOf ==
    ASSUME NEW m \in Int, NEW n \in Int, NEW S \in SUBSET (m..n), S # {}
    PROVE  \E x \in S : \A y \in S : x <= y
<1> DEFINE T == {x - m : x \in S}
<1>1. T \in SUBSET Nat /\ T # {}
  <2>1. \A x \in S : x \in Int /\ m <= x
    OBVIOUS
  <2>2. \A x \in S : x - m \in Nat
    BY <2>1
  <2> QED
    BY <2>2
<1>2. PICK d \in T : \A t \in T : d <= t
  BY <1>1, LeastNumber
<1>3. PICK x \in S : d = x - m
  BY <1>2
<1>4. ASSUME NEW y \in S PROVE x <= y
  <2>1. y - m \in T /\ y \in Int /\ x \in Int
    BY <1>3
  <2>2. x - m <= y - m
    BY <1>2, <1>3, <2>1
  <2> QED
    BY <2>1, <2>2
<1> QED
  BY <1>4

LEMMA DeleteIs ==
    ASSUME NEW C, NEW b \in Seq(C), NEW p \in Int, NEW q \in Int
    PROVE  LET P == Smaller(Unsigned(p), Len(b))
               Q == Smaller(Unsigned(q), Len(b))
               after == strbuf_delete(b, p, q)
           IN  /\ after \in Seq(C)
               /\ P \in 0..Len(b) /\ Q \in 0..Len(b)
               /\ P <= Q => /\ Len(after) = Len(b) - (Q - P)
                            /\ \A i \in 1..P : after[i] = b[i]
                            /\ \A i \in (Q + 1)..Len(b) : after[i - (Q - P)] = b[i]
<1> DEFINE P == Smaller(Unsigned(p), Len(b))
           Q == Smaller(Unsigned(q), Len(b))
           lo == Smaller(P, Q)
           hi == Larger(P, Q)
           after == strbuf_delete(b, p, q)
<1>1. P \in 0..Len(b) /\ Q \in 0..Len(b) /\ Len(b) \in Nat
  BY UnsignedIs, ModulusFacts DEF Smaller
<1>2. after = SubSeq(b, 1, lo) \o <<>> \o SubSeq(b, hi + 1, Len(b))
  BY DEF strbuf_delete, strbuf_replace, normalize_strbuf_pos
<1> HIDE DEF P, Q
<1>3. lo \in 0..Len(b) /\ hi \in lo..Len(b) /\ (P <= Q => lo = P /\ hi = Q)
  BY <1>1 DEF Smaller, Larger
<1> HIDE DEF lo, hi, after
<1>4. <<>> \in Seq(C) /\ Len(<<>>) = 0
  OBVIOUS
<1> DEFINE new == <<>>
<1>5. new \in Seq(C) /\ Len(new) = 0
  BY <1>4
<1> HIDE DEF new
<1> DEFINE r == SubSeq(b, 1, lo) \o new \o SubSeq(b, hi + 1, Len(b))
<1>6. /\ r \in Seq(C) /\ Len(r) = Len(b) + Len(new) - (hi - lo)
      /\ \A i \in 1..lo : r[i] = b[i]
      /\ \A i \in 1..Len(new) : r[lo + i] = new[i]
      /\ \A i \in (hi + 1)..Len(b) : r[Len(new) - (hi - lo) + i] = b[i]
  <2>1. lo \in 0..Len(b) /\ hi \in lo..Len(b) /\ new \in Seq(C) /\ b \in Seq(C)
    BY <1>3, <1>5
  <2>2. LET r_ == SubSeq(b, 1, lo) \o new \o SubSeq(b, hi + 1, Len(b))
        IN  /\ r_ \in Seq(C) /\ Len(r_) = Len(b) + Len(new) - (hi - lo)
            /\ \A i \in 1..lo : r_[i] = b[i]
            /\ \A i \in 1..Len(new) : r_[lo + i] = new[i]
            /\ \A i \in (hi + 1)..Len(b) : r_[Len(new) - (hi - lo) + i] = b[i]
    BY <2>1, ReplaceIs, Zenon
  <2> QED
    BY <2>2, Zenon
<1>7. after = SubSeq(b, 1, lo) \o new \o SubSeq(b, hi + 1, Len(b))
  BY <1>2 DEF new
<1>8. /\ after \in Seq(C) /\ Len(after) = Len(b) + Len(new) - (hi - lo)
      /\ \A i \in 1..lo : after[i] = b[i]
      /\ \A i \in (hi + 1)..Len(b) : after[Len(new) - (hi - lo) + i] = b[i]
  BY <1>6, <1>7
<1>9. /\ Len(b) + Len(new) - (hi - lo) = Len(b) - (hi - lo)
      /\ \A i \in (hi + 1)..Len(b) : Len(new) - (hi - lo) + i = i - (hi - lo)
  BY <1>1, <1>3, <1>5
<1>10. /\ Len(after) = Len(b) - (hi - lo)
       /\ \A i \in (hi + 1)..Len(b) : after[i - (hi - lo)] = b[i]
  BY <1>8, <1>9
<1>11. P <= Q => /\ Len(after) = Len(b) - (Q - P)
                 /\ \A i \in 1..P : after[i] = b[i]
                 /\ \A i \in (Q + 1)..Len(b) : after[i - (Q - P)] = b[i]
  BY <1>3, <1>8, <1>10
<1> QED
  BY <1>1, <1>8, <1>11 DEF after, P, Q

LEMMA LengthsTyped ==
    ASSUME StringTyped(prepend_mb), StringTyped(append_mb)
    PROVE  prelen \in Nat /\ applen \in Nat /\ prepend_mb.length \in Nat /\ append_mb.length \in Nat
  BY DEF StringTyped, prelen, applen

(* Where a line may end, whatever the text.                                  *)
LEMMA FirstEndTyped ==
    ASSUME WrapTyped
    PROVE  FirstEnd \in Nat
<1>0. StringTyped(prepend_mb) /\ StringTyped(append_mb) /\ len \in Nat /\ sp \in Nat
      /\ width \in Int
  BY DEF WrapTyped
<1>1. len \in Nat /\ sp + width \in Int /\ applen \in Int
  BY <1>0, LengthsTyped
<1> DEFINE e == Smaller(len, Unsigned(sp + width))
<1>2. e \in Nat
  BY <1>1, UnsignedIs, ModulusFacts DEF Smaller
<1> HIDE DEF e
<1>3. Unsigned(e - applen) \in Nat
  BY <1>1, <1>2, UnsignedIs, ModulusFacts
<1> QED
  BY <1>2, <1>3 DEF FirstEnd, e

LEMMA BlankBeforeIs ==
    ASSUME sp \in Nat, NEW e \in Int
    PROVE  LET t == BlankBefore(e)
           IN  /\ t \in sp..Larger(sp, e - 1)
               /\ t = sp \/ Blank(t)
               /\ \A u \in (t + 1)..(e - 1) : ~Blank(u)
<1> DEFINE top == Larger(sp, e - 1)
           S == {t \in sp..top : t = sp \/ Blank(t)}
<1>1. top \in Int /\ top >= sp /\ top >= e - 1
  BY DEF Larger
<1> HIDE DEF top
<1>2. S \in SUBSET (sp..top) /\ sp \in S
  BY <1>1
<1>3. PICK t \in S : \A y \in S : y <= t
  <2> HIDE DEF S
  <2>1. S # {} /\ sp \in Int
    BY <1>2
  <2> QED
    BY <1>1, <1>2, <2>1, GreatestOf, Zenon
<1>4. \A u \in (t + 1)..(e - 1) : ~Blank(u)
  <2> SUFFICES ASSUME NEW u \in (t + 1)..(e - 1), Blank(u) PROVE FALSE
    OBVIOUS
  <2>1. t \in Int /\ t >= sp
    BY <1>2, <1>3
  <2>2. u \in sp..top /\ ~(u <= t)
    BY <1>1, <2>1
  <2> QED
    BY <1>3, <2>2
<1>5. t \in sp..top /\ (t = sp \/ Blank(t))
  BY <1>3
<1> QED
  BY <1>4, <1>5 DEF BlankBefore, top

LEMMA BlankAfterIs ==
    ASSUME NEW e \in Nat, e < len, len \in Nat
    PROVE  LET u == BlankAfter(e)
           IN  /\ u \in (e + 1)..len
               /\ u = len \/ Blank(u)
               /\ \A t \in (e + 1)..(u - 1) : ~Blank(t)
<1> DEFINE S == {u \in (e + 1)..len : u = len \/ Blank(u)}
<1>1. S \in SUBSET ((e + 1)..len) /\ len \in S /\ e + 1 \in Int
  OBVIOUS
<1>2. PICK u \in S : \A y \in S : u <= y
  <2> HIDE DEF S
  <2>1. S # {} /\ len \in Int
    BY <1>1
  <2> QED
    BY <1>1, <2>1, LeastOf, Zenon
<1>3. \A t \in (e + 1)..(u - 1) : ~Blank(t)
  <2> SUFFICES ASSUME NEW t \in (e + 1)..(u - 1), Blank(t) PROVE FALSE
    OBVIOUS
  <2>1. u \in (e + 1)..len
    BY <1>2
  <2>2. t \in (e + 1)..len /\ ~(u <= t)
    BY <2>1
  <2> QED
    BY <1>2, <2>2
<1> QED
  BY <1>2, <1>3 DEF BlankAfter

LEMMA TextAfterIs ==
    ASSUME NEW e \in Nat, e < len, len \in Nat
    PROVE  LET t == TextAfter(e)
           IN  /\ t \in (e + 1)..len
               /\ t = len \/ ~Blank(t)
               /\ \A u \in (e + 1)..(t - 1) : Blank(u)
<1> DEFINE S == {t \in (e + 1)..len : t = len \/ ~Blank(t)}
<1>1. S \in SUBSET ((e + 1)..len) /\ len \in S /\ e + 1 \in Int
  OBVIOUS
<1>2. PICK t \in S : \A y \in S : t <= y
  <2> HIDE DEF S
  <2>1. S # {} /\ len \in Int
    BY <1>1
  <2> QED
    BY <1>1, <2>1, LeastOf, Zenon
<1>3. \A u \in (e + 1)..(t - 1) : Blank(u)
  <2> SUFFICES ASSUME NEW u \in (e + 1)..(t - 1), ~Blank(u) PROVE FALSE
    OBVIOUS
  <2>1. t \in (e + 1)..len
    BY <1>2
  <2>2. u \in (e + 1)..len /\ ~(t <= u)
    BY <2>1
  <2> QED
    BY <1>2, <2>2
<1> QED
  BY <1>2, <1>3 DEF TextAfter

LEMMA WordEndTyped ==
    ASSUME WrapTyped, NEW e \in Nat
    PROVE  WordEnd(e) \in Nat
<1>1. sp \in Nat
  BY DEF WrapTyped
<1>2. BlankBefore(e) \in sp..Larger(sp, e - 1)
  BY <1>1, BlankBeforeIs
<1>3. BlankBefore(e) + 1 \in Nat
  BY <1>1, <1>2
<1> QED
  BY <1>3 DEF WordEnd

LEMMA CutTyped ==
    ASSUME WrapTyped, pc = "cut", NEW e \in Nat, NEW n \in 0..len, Cut(e, n)
    PROVE  WrapTyped'
<1>1. buf \in Seq(Cells) /\ len \in Nat /\ n \in Nat
  BY DEF WrapTyped
<1>2. buf' \in Seq(Cells)
  <2>1. e \in Int /\ e + n \in Int
    BY <1>1
  <2>2. strbuf_delete(buf, e, e + n) \in Seq(Cells)
    BY <1>1, <2>1, DeleteIs
  <2> QED
    BY <2>2 DEF Cut
<1>3. len' \in Nat
  BY <1>1 DEF Cut
<1>4. StringTyped(prepend_mb)' /\ StringTyped(append_mb)'
  BY DEF WrapTyped, StringTyped, Cut, setup
<1>5. /\ pc' = "mark" /\ ep' = e /\ deleted' = n /\ back' = 0 /\ last' = NoRange
      /\ post_last' = 0 /\ keep' = 0
      /\ UNCHANGED <<text, styles, retainbuf, width, sp, style_mod, node>>
  BY DEF Cut
<1>6. /\ text \in Seq(Alphabet) /\ styles \in Seq(StyleRange) /\ retainbuf \in Seq(Cells)
      /\ sp \in Nat /\ width \in Int /\ style_mod \in Int /\ node \in 1..(Len(styles) + 1)
  BY DEF WrapTyped
<1> QED
  BY <1>1, <1>2, <1>3, <1>4, <1>5, <1>6 DEF WrapTyped

LEMMA CutLineTyped == WrapTyped /\ CutLine => WrapTyped'
<1> SUFFICES ASSUME WrapTyped, CutLine PROVE WrapTyped'
  OBVIOUS
<1> DEFINE e == FirstEnd
<1>1. e \in Nat /\ len \in Nat /\ pc = "cut" /\ WordEnd(e) \in Nat
  BY FirstEndTyped, WordEndTyped DEF WrapTyped, CutLine
<1>2. \/ Cut(e, 0) \/ Cut(WordEnd(e), 0)
      \/ e < len /\ Cut(e, IF TextAfter(e) < len THEN TextAfter(e) - e ELSE 0)
  BY DEF CutLine
<1> HIDE DEF e
<1>3. CASE Cut(e, 0) \/ Cut(WordEnd(e), 0)
  BY <1>1, <1>3, CutTyped
<1>4. CASE e < len /\ Cut(e, IF TextAfter(e) < len THEN TextAfter(e) - e ELSE 0)
  <2>1. TextAfter(e) \in (e + 1)..len
    BY <1>1, <1>4, TextAfterIs
  <2>2. (IF TextAfter(e) < len THEN TextAfter(e) - e ELSE 0) \in 0..len
    BY <1>1, <2>1
  <2> QED
    BY <1>1, <1>4, <2>2, CutTyped
<1> QED
  BY <1>2, <1>3, <1>4

LEMMA RangeTyped ==
    ASSUME WrapTyped, node <= Len(styles)
    PROVE  /\ rng \in StyleRange /\ rng.style \in Styles /\ rng.so \in Nat /\ rng.eo \in Nat
           /\ node \in 1..Len(styles)
           /\ from \in Nat /\ to \in Nat
<1>1. node \in 1..Len(styles) /\ styles \in Seq(StyleRange) /\ style_mod \in Int
  BY DEF WrapTyped
<1>2. rng \in StyleRange
  BY <1>1 DEF rng
<1>3. rng.style \in Styles /\ rng.so \in Nat /\ rng.eo \in Nat
  BY <1>2 DEF StyleRange
<1>4. rng.so + style_mod \in Int /\ rng.eo + style_mod \in Int
  BY <1>1, <1>3
<1>5. from \in Nat /\ to \in Nat
  BY <1>4, UnsignedIs, ModulusFacts DEF from, to
<1> QED
  BY <1>1, <1>2, <1>3, <1>5

LEMMA MarkRangeTyped == WrapTyped /\ MarkRange => WrapTyped'
<1> SUFFICES ASSUME WrapTyped, MarkRange PROVE WrapTyped'
  OBVIOUS
<1> DEFINE st   == rng.style
           same == SameRange(last, rng)
           post == IF same THEN post_last ELSE 0
           kp   == IF same THEN keep ELSE 0
           mark == strbuf_insert(buf, Larger(sp, from) - post + kp, Pre(st))
           new  == strbuf_insert(mark, Smaller(ep, to) + PreLen[st] - post, Post(st))
           over == Larger(Signed(Unsigned(sp - from)), 0)
           more == IF to > ep THEN 1 ELSE 0
<1>1. /\ pc = "mark" /\ node <= Len(styles) /\ buf' = new
      /\ style_mod' = style_mod + PreLen[st] + PostLen[st]
      /\ len' = len + PreLen[st] + PostLen[st]
      /\ ep' = ep + PreLen[st] + PostLen[st]
      /\ post_last' = post + PostLen[st] /\ keep' = kp + over
      /\ back' = back + more /\ last' = rng /\ node' = node + 1
      /\ UNCHANGED <<setup, text, styles, retainbuf, width, sp, deleted, pc>>
  BY DEF MarkRange
<1>2. /\ rng \in StyleRange /\ st \in Styles /\ node \in 1..Len(styles)
      /\ from \in Nat /\ to \in Nat
  BY <1>1, RangeTyped
<1>3. /\ text \in Seq(Alphabet) /\ styles \in Seq(StyleRange)
      /\ buf \in Seq(Cells) /\ retainbuf \in Seq(Cells)
      /\ len \in Nat /\ sp \in Nat /\ ep \in Nat /\ deleted \in Nat
      /\ width \in Int /\ style_mod \in Int /\ post_last \in Int /\ keep \in Int
      /\ back \in 0..Len(styles) /\ back < node
      /\ StringTyped(prepend_mb) /\ StringTyped(append_mb)
  BY <1>1 DEF WrapTyped
<1>4. /\ Pre(st) \in Seq(Cells) /\ Post(st) \in Seq(Cells)
      /\ PreLen[st] \in Nat /\ PostLen[st] \in Nat
  BY <1>2, MarkTyped, MarksAreCells
<1>5. post \in Int /\ kp \in Int /\ over \in Int /\ more \in {0, 1}
  <2>1. Unsigned(sp - from) \in Int
    BY <1>2, <1>3, UnsignedIs, ModulusFacts
  <2>2. Signed(Unsigned(sp - from)) \in Int
    BY <2>1, ModulusFacts DEF Signed
  <2>3. over \in Int
    BY <2>2 DEF Larger
  <2> QED
    BY <1>3, <2>3
<1> HIDE DEF st, post, kp, over, more
<1>6. Larger(sp, from) \in Int /\ Smaller(ep, to) \in Int
  BY <1>2, <1>3 DEF Larger, Smaller
<1>7. mark \in Seq(Cells)
  <2>1. Larger(sp, from) - post + kp \in Int
    BY <1>5, <1>6
  <2> QED
    BY <1>3, <1>4, <2>1, InsertIs
<1> HIDE DEF mark
<1>8. new \in Seq(Cells)
  <2>1. Smaller(ep, to) + PreLen[st] - post \in Int
    BY <1>4, <1>5, <1>6
  <2> QED
    BY <1>4, <1>7, <2>1, InsertIs
<1> HIDE DEF new
<1>9. /\ len' \in Nat /\ ep' \in Nat /\ style_mod' \in Int /\ post_last' \in Int /\ keep' \in Int
  <2>1. PICK m, k : m = PreLen[st] /\ k = PostLen[st]
    OBVIOUS
  <2>2. /\ style_mod' = style_mod + m + k /\ len' = len + m + k /\ ep' = ep + m + k
        /\ post_last' = post + k /\ keep' = kp + over
    BY <1>1, <2>1
  <2>3. m \in Nat /\ k \in Nat
    BY <1>4, <2>1
  <2>4. len \in Nat /\ ep \in Nat /\ style_mod \in Int
    BY <1>3
  <2> QED
    BY <1>5, <2>2, <2>3, <2>4
<1>10. node' \in 1..(Len(styles) + 1) /\ back' \in 0..Len(styles) /\ back' < node'
  BY <1>1, <1>2, <1>3, <1>5
<1>11. StringTyped(prepend_mb)' /\ StringTyped(append_mb)'
  BY <1>1, <1>3 DEF StringTyped, setup
<1> QED
  BY <1>1, <1>2, <1>3, <1>8, <1>9, <1>10, <1>11 DEF WrapTyped

(* The strings of --prepend and --append, with their markup.                 *)
LEMMA StringsShow ==
    ASSUME StringTyped(prepend_mb), StringTyped(append_mb)
    PROVE  /\ Shows(prestr, "prepend", prepend_mb.length)
           /\ Shows(appstr, "append", append_mb.length)
<1>1. Unbounded \in Int
  BY ModulusFacts DEF Unbounded
<1>2. prepend_mb.length \in Nat /\ prepend_mb.styles \in Seq(StyleRange)
      /\ append_mb.length \in Nat /\ append_mb.styles \in Seq(StyleRange)
  BY DEF StringTyped
<1>3. "prepend" \in Letters /\ "append" \in Letters
  BY DEF Letters
<1>4. /\ Shows(Row("prepend", prepend_mb.length), "prepend", prepend_mb.length)
      /\ Shows(Row("append", append_mb.length), "append", append_mb.length)
  BY <1>2, <1>3, RowShows
<1> QED
  BY <1>1, <1>2, <1>3, <1>4, ApplyShows DEF prestr, appstr

LEMMA FinishLineTyped == WrapTyped /\ FinishLine /\ opt.retain \in Nat => WrapTyped'
<1> SUFFICES ASSUME WrapTyped, FinishLine, opt.retain \in Nat PROVE WrapTyped'
  OBVIOUS
<1> DEFINE kept == IF sp # 0 THEN retainbuf ELSE <<>>
           pre  == IF sp # 0 THEN prestr ELSE <<>>
           app  == IF ep < len /\ applen > 0 THEN appstr ELSE <<>>
           more == Len(kept) + Len(pre) + Len(app) + 1
           first == strbuf_insert(buf, ep, app \o Newline)
           new   == strbuf_insert(first, sp, kept \o pre)
<1>1. /\ pc = "mark" /\ buf' = new /\ len' = len + more /\ sp' = ep + more
      /\ style_mod' = style_mod + Len(kept) + 1 - deleted
      /\ pc' = IF ep + more < len + more THEN "cut" ELSE "printed"
      /\ width' = IF sp = 0 THEN width - (opt.retain + prelen) ELSE width
      /\ node' = IF node > Len(styles) THEN node - back
                 ELSE IF to > ep THEN node - back ELSE node + 1 - back
      /\ UNCHANGED <<setup, text, styles, retainbuf, ep, deleted, back, last, post_last, keep>>
  BY DEF FinishLine
<1>2. /\ text \in Seq(Alphabet) /\ styles \in Seq(StyleRange)
      /\ buf \in Seq(Cells) /\ retainbuf \in Seq(Cells)
      /\ len \in Nat /\ sp \in Nat /\ ep \in Nat /\ deleted \in Nat
      /\ width \in Int /\ style_mod \in Int /\ post_last \in Int /\ keep \in Int
      /\ last \in StyleRange \cup {NoRange}
      /\ node \in 1..(Len(styles) + 1) /\ back \in 0..Len(styles) /\ back < node
      /\ StringTyped(prepend_mb) /\ StringTyped(append_mb)
  BY <1>1 DEF WrapTyped
<1>3. prestr \in Seq(Cells) /\ appstr \in Seq(Cells) /\ prelen \in Nat
  BY <1>2, StringsShow, LengthsTyped DEF Shows
<1>4. Newline \in Seq(Cells)
  BY DEF Newline, Cell, Cells, Letters
<1>5. kept \in Seq(Cells) /\ pre \in Seq(Cells) /\ app \in Seq(Cells)
  BY <1>2, <1>3
<1> HIDE DEF kept, pre, app
<1>6. app \o Newline \in Seq(Cells) /\ kept \o pre \in Seq(Cells)
  BY <1>4, <1>5, ConcatProperties
<1>7. ep \in Int /\ sp \in Int
  BY <1>2
<1>8. first \in Seq(Cells)
  BY <1>2, <1>6, <1>7, InsertIs
<1> HIDE DEF first
<1>9. new \in Seq(Cells)
  BY <1>6, <1>7, <1>8, InsertIs
<1> HIDE DEF new
<1>10. Len(kept) \in Nat /\ Len(pre) \in Nat /\ Len(app) \in Nat
  BY <1>5
<1>11. /\ len' \in Nat /\ sp' \in Nat /\ style_mod' \in Int /\ width' \in Int
       /\ pc' \in {"cut", "printed"}
  <2>1. more \in Nat /\ pc' \in {"cut", "printed"}
    BY <1>1, <1>10
  <2>2. len' = len + more /\ sp' = ep + more
    BY <1>1
  <2>3. len' \in Nat /\ sp' \in Nat
    <3> HIDE DEF more
    <3> QED
      BY <1>2, <2>1, <2>2
  <2>4. style_mod' \in Int /\ width' \in Int
    <3>1. style_mod' = style_mod + Len(kept) + 1 - deleted
          /\ style_mod \in Int /\ deleted \in Nat /\ Len(kept) \in Nat
      BY <1>1, <1>2, <1>10
    <3>2. width' = IF sp = 0 THEN width - (opt.retain + prelen) ELSE width
      BY <1>1
    <3>3. width - (opt.retain + prelen) \in Int /\ width \in Int
      BY <1>2, <1>3
    <3>4. style_mod' \in Int
      BY <3>1
    <3> QED
      BY <3>2, <3>3, <3>4
  <2> QED
    BY <2>1, <2>3, <2>4
<1>12. node' \in 1..(Len(styles) + 1)
  BY <1>1, <1>2
<1>13. StringTyped(prepend_mb)' /\ StringTyped(append_mb)'
  BY <1>1, <1>2 DEF StringTyped, setup
<1> QED
  BY <1>1, <1>2, <1>9, <1>11, <1>12, <1>13 DEF WrapTyped

LEMMA StartTyped ==
    ASSUME WrapTyped, opt.retain \in Nat, opt.width \in Nat,
           NEW line \in Seq(Alphabet), NEW ranges \in Seq(StyleRange),
           NEW pre, NEW app, StringTyped(pre), StringTyped(app),
           Start(line, ranges, pre, app)
    PROVE  WrapTyped'
<1> DEFINE n == Len(line)
           cells == Row("char", n)
           kept == apply_styles(Row("kept", Smaller(opt.retain, n)), ranges, opt.retain)
           whole == apply_styles(cells, ranges, Unbounded)
<1>1. /\ pc = "idle" /\ prepend_mb' = pre /\ append_mb' = app
      /\ text' = line /\ styles' = ranges /\ len' = n /\ width' = opt.width
      /\ IF n = 0 THEN buf' = whole \o Newline /\ pc' = "printed"
         ELSE buf' = cells /\ pc' = "cut"
      /\ retainbuf' = IF opt.retain = 0 \/ n = 0 THEN <<>> ELSE kept
      /\ UNCHANGED <<sp, ep, style_mod, deleted, node, back, last, post_last, keep>>
  BY DEF Start, local
<1>2. n \in Nat /\ Smaller(opt.retain, n) \in Nat /\ Unbounded \in Int
  BY ModulusFacts DEF Smaller, Unbounded
<1>3. "char" \in Letters /\ "kept" \in Letters
  BY DEF Letters
<1> HIDE DEF n
<1>4. Shows(cells, "char", n) /\ Shows(Row("kept", Smaller(opt.retain, n)), "kept", Smaller(opt.retain, n))
  BY <1>2, <1>3, RowShows
<1>5. Shows(whole, "char", n) /\ Shows(kept, "kept", Smaller(opt.retain, n))
  BY <1>2, <1>3, <1>4, ApplyShows
<1>6. cells \in Seq(Cells) /\ whole \in Seq(Cells) /\ kept \in Seq(Cells)
  <2> HIDE DEF cells, whole, kept
  <2> QED
    BY <1>4, <1>5 DEF Shows
<1> HIDE DEF cells, whole, kept
<1>7. Newline \in Seq(Cells)
  BY DEF Newline, Cell, Cells, Letters
<1>8. buf' \in Seq(Cells) /\ retainbuf' \in Seq(Cells)
  <2>1. whole \o Newline \in Seq(Cells) /\ <<>> \in Seq(Cells)
    BY <1>6, <1>7, ConcatProperties
  <2> QED
    BY <1>1, <1>6, <2>1
<1>9. /\ sp = 0 /\ ep = 0 /\ style_mod = 0
      /\ deleted = 0 /\ node = 1 /\ back = 0
      /\ last = NoRange /\ post_last = 0 /\ keep = 0
  BY <1>1 DEF WrapTyped, Rested
<1>10. StringTyped(prepend_mb)' /\ StringTyped(append_mb)'
  BY <1>1 DEF StringTyped
<1>11. node' \in 1..(Len(styles') + 1) /\ back' \in 0..Len(styles')
  BY <1>1, <1>9
<1>12. pc' \in {"cut", "printed"}
  BY <1>1
<1> QED
  BY <1>1, <1>2, <1>8, <1>9, <1>10, <1>11, <1>12 DEF WrapTyped, Rested

LEMMA EndOfBufferTyped ==
    ASSUME WrapTyped, EndOfBuffer
    PROVE  WrapTyped'
<1>1. StringTyped(NoText(0))
  BY DEF StringTyped, NoText
<1>2. StringTyped(prepend_mb)' /\ StringTyped(append_mb)'
  BY <1>1 DEF StringTyped, EndOfBuffer
<1> QED
  BY <1>2 DEF WrapTyped, EndOfBuffer, Rested

LEMMA WrapInitTyped == WrapInit => WrapTyped
<1>1. StringTyped(NoText(0))
  BY DEF StringTyped, NoText
<1> QED
  BY <1>1 DEF WrapTyped, WrapInit, Rested

(* Rules are run between the lines.                                          *)
LEMMA WrapRests ==
    ASSUME WrapTyped, UNCHANGED wrapping, styles' \in Seq(StyleRange),
           pc \in {"options", "dead", "idle"} \/ UNCHANGED styles
    PROVE  WrapTyped'
<1>1. UNCHANGED <<prepend_mb, append_mb, text, buf, len, retainbuf, width, sp, ep, style_mod,
                  deleted, node, back, last, post_last, keep, pc>>
  BY DEF wrapping, setup, local
<1>2. CASE UNCHANGED styles
  BY <1>1, <1>2 DEF WrapTyped, Rested, StringTyped
<1>3. CASE pc \in {"options", "dead", "idle"}
  <2>1. Rested /\ StringTyped(prepend_mb) /\ StringTyped(append_mb)
    BY <1>3 DEF WrapTyped
  <2>2. Rested' /\ StringTyped(prepend_mb)' /\ StringTyped(append_mb)'
    BY <1>1, <2>1 DEF Rested, StringTyped
  <2>3. Len(styles') \in Nat
    OBVIOUS
  <2> QED
    BY <1>1, <1>3, <2>2, <2>3 DEF WrapTyped, Rested
<1> QED
  BY <1>2, <1>3

-----------------------------------------------------------------------------
(* The text in the buffer.  A cell of kind "char" is a character of the text. *)
Gap(i) == text[i] = " "
Quiet(new) == \A r \in 1..Len(new) : new[r].kind # "char"

(* The characters are in order; those below "n" that are not there are blanks. *)
Ordered(b, n) ==
    /\ \A p \in 1..Len(b) : b[p].kind = "char" => b[p].of \in 1..n
    /\ \A p, q \in 1..Len(b) :
         p < q /\ b[p].kind = "char" /\ b[q].kind = "char" => b[p].of < b[q].of
Holds(b, i) == \E r \in 1..Len(b) : b[r].kind = "char" /\ b[r].of = i
NoneLost(b, n) == \A i \in 1..n : Gap(i) \/ Holds(b, i)

(* Up to c, what is on one line is in one piece.                             *)
Pieces(b, c) ==
    \A p, q \in 1..c :
        p < q /\ b[p].kind = "char" /\ b[q].kind = "char" =>
          \/ \E r \in p..q : b[r].kind = "newline"
          \/ \A i \in (b[p].of)..(b[q].of) :
               \E r \in p..q : b[r].kind = "char" /\ b[r].of = i

(* After c there is nothing but the characters after the m-th.               *)
Rest(b, c, m, n) ==
    /\ m \in 0..n /\ c \in 0..Len(b) /\ Len(b) - c = n - m
    /\ \A p \in (c + 1)..Len(b) : b[p].kind = "char" /\ b[p].of = m + (p - c)

(* Up to c, what shows has a column of its own on its line.                  *)
ColumnsAre(f, b, c, w) ==
    \A p \in 1..c : b[p].kind \in Visible =>
        /\ f[p] \in 1..w
        /\ \A q \in 1..c : p < q /\ b[q].kind \in Visible /\ f[p] = f[q] =>
             \E r \in p..q : b[r].kind = "newline"
Columns(b, c, w) == \E f \in [1..c -> Int] : ColumnsAre(f, b, c, w)

(* Where an insertion at q moves a position.                                 *)
Moved(p, q, n) == IF p <= q THEN p ELSE p + n

LEMMA MovedIs ==
    ASSUME NEW q \in Int, NEW n \in Nat
    PROVE  /\ \A p \in Int : Moved(p, q, n) \in Int /\ Moved(p, q, n) >= p /\ Moved(p, q, n) <= p + n
           /\ \A p, s \in Int : p < s <=> Moved(p, q, n) < Moved(s, q, n)
           /\ \A p, s \in Int : p <= s <=> Moved(p, q, n) <= Moved(s, q, n)
  BY DEF Moved

LEMMA InsertMoves ==
    ASSUME NEW C, NEW b \in Seq(C), NEW new \in Seq(C), NEW q, NEW after,
           Inserted(after, b, q, new)
    PROVE  /\ Len(b) \in Nat /\ Len(new) \in Nat /\ Len(after) = Len(b) + Len(new)
           /\ q \in 0..Len(b)
           /\ \A p \in 1..Len(b) : /\ Moved(p, q, Len(new)) \in 1..Len(after)
                                   /\ after[Moved(p, q, Len(new))] = b[p]
           /\ \A i \in 1..Len(after) :
                \/ \E p \in 1..Len(b) : i = Moved(p, q, Len(new))
                \/ \E r \in 1..Len(new) : after[i] = new[r]
<1>1. Len(b) \in Nat /\ Len(new) \in Nat /\ Len(after) = Len(b) + Len(new) /\ q \in 0..Len(b)
  BY DEF Inserted
<1>2. ASSUME NEW p \in 1..Len(b)
      PROVE  Moved(p, q, Len(new)) \in 1..Len(after) /\ after[Moved(p, q, Len(new))] = b[p]
  <2>1. CASE p <= q
    <3>1. Moved(p, q, Len(new)) = p /\ p \in 1..q /\ p \in 1..Len(after)
      BY <1>1, <2>1 DEF Moved
    <3> QED
      BY <3>1 DEF Inserted
  <2>2. CASE p > q
    <3>1. Moved(p, q, Len(new)) = Len(new) + p /\ p \in (q + 1)..Len(b) /\ Len(new) + p \in 1..Len(after)
      BY <1>1, <2>2 DEF Moved
    <3> QED
      BY <3>1 DEF Inserted
  <2> QED
    BY <1>1, <2>1, <2>2
<1>3. ASSUME NEW i \in 1..Len(after)
      PROVE  \/ \E p \in 1..Len(b) : i = Moved(p, q, Len(new))
             \/ \E r \in 1..Len(new) : after[i] = new[r]
  <2>1. \/ i <= q /\ i \in 1..Len(b) /\ after[i] = b[i]
        \/ /\ i > q /\ i <= q + Len(new)
           /\ i - q \in 1..Len(new) /\ after[i] = new[i - q]
        \/ /\ i > q + Len(new)
           /\ i - Len(new) \in (q + 1)..Len(b) /\ after[i] = b[i - Len(new)]
    BY Origin
  <2>2. CASE i <= q /\ i \in 1..Len(b)
    BY <2>2 DEF Moved
  <2>3. CASE i - q \in 1..Len(new) /\ after[i] = new[i - q]
    BY <2>3
  <2>4. CASE i > q + Len(new) /\ i - Len(new) \in (q + 1)..Len(b)
    <3>1. i - Len(new) \in 1..Len(b) /\ i = Moved(i - Len(new), q, Len(new))
      BY <1>1, <2>4 DEF Moved
    <3> QED
      BY <3>1
  <2> QED
    BY <2>1, <2>2, <2>3, <2>4
<1> QED
  BY <1>1, <1>2, <1>3

LEMMA CharMoved ==
    ASSUME NEW C, NEW b \in Seq(C), NEW new \in Seq(C), NEW q, NEW after,
           Inserted(after, b, q, new), Quiet(new),
           NEW i \in 1..Len(after), after[i].kind = "char"
    PROVE  \E p \in 1..Len(b) : i = Moved(p, q, Len(new)) /\ b[p] = after[i]
<1>1. \/ \E p \in 1..Len(b) : i = Moved(p, q, Len(new))
      \/ \E r \in 1..Len(new) : after[i] = new[r]
  BY InsertMoves
<1>2. ~ \E r \in 1..Len(new) : after[i] = new[r]
  BY DEF Quiet
<1>3. PICK p \in 1..Len(b) : i = Moved(p, q, Len(new))
  BY <1>1, <1>2
<1>4. after[Moved(p, q, Len(new))] = b[p]
  BY InsertMoves
<1> QED
  BY <1>3, <1>4

LEMMA InsertOrdered ==
    ASSUME NEW C, NEW b \in Seq(C), NEW new \in Seq(C), NEW q, NEW after,
           Inserted(after, b, q, new), Quiet(new), NEW n, Ordered(b, n)
    PROVE  Ordered(after, n)
<1> DEFINE g(p) == Moved(p, q, Len(new))
<1>1. Len(b) \in Nat /\ Len(new) \in Nat /\ q \in Int
  BY InsertMoves
<1>2. \A p, s \in Int : p < s <=> g(p) < g(s)
  BY <1>1, MovedIs
<1> HIDE DEF g
<1>3. ASSUME NEW i \in 1..Len(after), after[i].kind = "char"
      PROVE  \E p \in 1..Len(b) : i = g(p) /\ b[p] = after[i]
  BY <1>3, CharMoved DEF g
<1>4. ASSUME NEW i \in 1..Len(after), after[i].kind = "char" PROVE after[i].of \in 1..n
  <2>1. PICK p \in 1..Len(b) : b[p] = after[i]
    BY <1>3, <1>4
  <2> QED
    BY <1>4, <2>1 DEF Ordered
<1>5. ASSUME NEW i \in 1..Len(after), NEW j \in 1..Len(after), i < j,
             after[i].kind = "char", after[j].kind = "char"
      PROVE  after[i].of < after[j].of
  <2>1. PICK p \in 1..Len(b) : i = g(p) /\ b[p] = after[i]
    BY <1>3, <1>5
  <2>2. PICK s \in 1..Len(b) : j = g(s) /\ b[s] = after[j]
    BY <1>3, <1>5
  <2>3. p \in Int /\ s \in Int
    OBVIOUS
  <2>4. p < s
    BY <1>2, <1>5, <2>1, <2>2, <2>3
  <2> QED
    BY <1>5, <2>1, <2>2, <2>4 DEF Ordered
<1> QED
  BY <1>4, <1>5 DEF Ordered

LEMMA InsertNoneLost ==
    ASSUME NEW C, NEW b \in Seq(C), NEW new \in Seq(C), NEW q, NEW after,
           Inserted(after, b, q, new), NEW n, NoneLost(b, n)
    PROVE  NoneLost(after, n)
<1>1. ASSUME NEW i, Holds(b, i) PROVE Holds(after, i)
  <2>1. PICK r \in 1..Len(b) : b[r].kind = "char" /\ b[r].of = i
    BY <1>1 DEF Holds
  <2>2. Moved(r, q, Len(new)) \in 1..Len(after) /\ after[Moved(r, q, Len(new))] = b[r]
    BY InsertMoves
  <2> QED
    BY <2>1, <2>2 DEF Holds
<1> QED
  BY <1>1, Zenon DEF NoneLost

LEMMA InsertPieces ==
    ASSUME NEW C, NEW b \in Seq(C), NEW new \in Seq(C), NEW q, NEW after,
           Inserted(after, b, q, new), Quiet(new),
           NEW c \in 0..Len(b), q <= c, Pieces(b, c)
    PROVE  Pieces(after, c + Len(new))
<1> DEFINE g(p) == Moved(p, q, Len(new))
<1>1. /\ Len(b) \in Nat /\ Len(new) \in Nat /\ q \in Int /\ Len(after) = Len(b) + Len(new)
      /\ c \in Int
  BY InsertMoves
<1>2. \A p, s \in Int : /\ g(p) \in Int
                        /\ p < s <=> g(p) < g(s)
                        /\ p <= s <=> g(p) <= g(s)
  BY <1>1, MovedIs
<1>3. \A p \in Int : g(p) <= c + Len(new) => p <= c
  BY <1>1 DEF Moved
<1>4. \A p \in 1..Len(b) : after[g(p)] = b[p]
  BY InsertMoves
<1> HIDE DEF g
<1>5. ASSUME NEW i \in 1..(c + Len(new)), after[i].kind = "char"
      PROVE  \E p \in 1..c : i = g(p) /\ b[p] = after[i]
  <2>1. i \in 1..Len(after)
    BY <1>1
  <2>2. PICK p \in 1..Len(b) : i = g(p) /\ b[p] = after[i]
    BY <1>5, <2>1, CharMoved DEF g
  <2>3. p \in 1..c
    BY <1>1, <1>3, <2>2
  <2> QED
    BY <2>2, <2>3
<1> SUFFICES ASSUME NEW i \in 1..(c + Len(new)), NEW j \in 1..(c + Len(new)), i < j,
                    after[i].kind = "char", after[j].kind = "char"
             PROVE  \/ \E r \in i..j : after[r].kind = "newline"
                    \/ \A t \in (after[i].of)..(after[j].of) :
                         \E r \in i..j : after[r].kind = "char" /\ after[r].of = t
  BY Zenon DEF Pieces
<1>6. PICK p \in 1..c : i = g(p) /\ b[p] = after[i]
  BY <1>5
<1>7. PICK s \in 1..c : j = g(s) /\ b[s] = after[j]
  BY <1>5
<1>8. p \in Int /\ s \in Int
  OBVIOUS
<1>9. p < s
  BY <1>2, <1>6, <1>7, <1>8
<1>10. ASSUME NEW r \in p..s PROVE g(r) \in i..j /\ after[g(r)] = b[r]
  <2>1. r \in Int /\ p <= r /\ r <= s /\ r \in 1..Len(b)
    BY <1>1, <1>8
  <2>2. g(r) \in Int /\ g(p) <= g(r) /\ g(r) <= g(s)
    BY <1>2, <1>8, <2>1
  <2> QED
    BY <1>4, <1>6, <1>7, <2>1, <2>2
<1>11. \/ \E r \in p..s : b[r].kind = "newline"
       \/ \A t \in (b[p].of)..(b[s].of) :
            \E r \in p..s : b[r].kind = "char" /\ b[r].of = t
  BY <1>6, <1>7, <1>9 DEF Pieces
<1>12. CASE \E r \in p..s : b[r].kind = "newline"
  BY <1>10, <1>12
<1>13. CASE \A t \in (b[p].of)..(b[s].of) :
              \E r \in p..s : b[r].kind = "char" /\ b[r].of = t
  <2>1. ASSUME NEW t \in (after[i].of)..(after[j].of)
        PROVE  \E r \in i..j : after[r].kind = "char" /\ after[r].of = t
    <3>1. PICK r \in p..s : b[r].kind = "char" /\ b[r].of = t
      BY <1>6, <1>7, <1>13, <2>1
    <3> QED
      BY <1>10, <3>1
  <2> QED
    BY <2>1
<1> QED
  BY <1>11, <1>12, <1>13

LEMMA InsertRest ==
    ASSUME NEW C, NEW b \in Seq(C), NEW new \in Seq(C), NEW q, NEW after,
           Inserted(after, b, q, new), NEW n \in Nat, NEW m, NEW c, Rest(b, c, m, n), q <= c
    PROVE  Rest(after, c + Len(new), m, n)
<1>1. /\ Len(b) \in Nat /\ Len(new) \in Nat /\ q \in 0..Len(b) /\ Len(after) = Len(b) + Len(new)
  BY InsertMoves
<1>2. m \in 0..n /\ c \in 0..Len(b) /\ Len(b) - c = n - m
  BY DEF Rest
<1>3. ASSUME NEW p \in (c + Len(new) + 1)..Len(after)
      PROVE  after[p].kind = "char" /\ after[p].of = m + (p - (c + Len(new)))
  <2> DEFINE s == p - Len(new)
  <2>1. /\ s \in (c + 1)..Len(b) /\ s \in (q + 1)..Len(b) /\ Len(new) + s = p
        /\ p - (c + Len(new)) = s - c
    BY <1>1, <1>2
  <2> HIDE DEF s
  <2>2. after[Len(new) + s] = b[s]
    BY <2>1 DEF Inserted
  <2> QED
    BY <2>1, <2>2 DEF Rest
<1>4. c + Len(new) \in 0..Len(after) /\ Len(after) - (c + Len(new)) = n - m
  BY <1>1, <1>2
<1> QED
  BY <1>2, <1>3, <1>4 DEF Rest

LEMMA SameColumns ==
    ASSUME NEW b, NEW after, NEW c \in Nat, NEW w, Columns(b, c, w),
           \A p \in 1..c : after[p] = b[p]
    PROVE  Columns(after, c, w)
<1>1. PICK f \in [1..c -> Int] : ColumnsAre(f, b, c, w)
  BY DEF Columns
<1>2. ColumnsAre(f, after, c, w)
  <2>1. ASSUME NEW p \in 1..c, NEW q \in 1..c, NEW r \in p..q PROVE r \in 1..c
    OBVIOUS
  <2> QED
    BY <1>1, <2>1 DEF ColumnsAre
<1> QED
  BY <1>2 DEF Columns

-----------------------------------------------------------------------------
(* No text is lost, whatever is marked up where, as long as the buffer is    *)
(* shorter than what its length is counted in.                               *)
Small == 2 * len < Modulus

Complete ==
    /\ pc \in {"cut", "mark"} => text # <<>>
    /\ pc \in {"cut", "mark", "printed"} =>
         Ordered(buf, Len(text)) /\ NoneLost(buf, Len(text))
    /\ text # <<>> => len = Len(buf) /\ 2 * Len(text) < Modulus
    /\ pc \in {"cut", "mark"} => Shows(retainbuf, "kept", opt.retain)

LEMMA BlankIs == \A p : Blank(p) <=> buf[p + 1].kind = "char" /\ Gap(buf[p + 1].of)
  BY Zenon DEF Blank, Gap

LEMMA GapKept == UNCHANGED text => \A i : Gap(i)' <=> Gap(i)
  BY Zenon DEF Gap

LEMMA NoneLostKept ==
    ASSUME UNCHANGED text, NoneLost(buf', Len(text))
    PROVE  NoneLost(buf, Len(text))'
<1>1. \A i : Gap(i)' <=> Gap(i)
  BY GapKept
<1>2. \A i : Holds(buf, i)' <=> Holds(buf', i)
  BY DEF Holds
<1>3. Len(text') = Len(text)
  OBVIOUS
<1> QED
  BY <1>1, <1>2, <1>3, Zenon DEF NoneLost

LEMMA OrderedKept ==
    ASSUME UNCHANGED text, Ordered(buf', Len(text))
    PROVE  Ordered(buf, Len(text))'
  BY DEF Ordered

LEMMA DeleteUndoes ==
    ASSUME NEW C, NEW b \in Seq(C), NEW p \in Nat, NEW q \in Nat, p <= q, q <= Len(b),
           Len(b) < Modulus
    PROVE  LET after == strbuf_delete(b, p, q)
           IN  /\ after \in Seq(C) /\ Len(after) = Len(b) - (q - p)
               /\ \A i \in 1..p : after[i] = b[i]
               /\ \A i \in (q + 1)..Len(b) : after[i - (q - p)] = b[i]
<1> DEFINE after == strbuf_delete(b, p, q)
           P == Smaller(Unsigned(p), Len(b))
           Q == Smaller(Unsigned(q), Len(b))
<1>1. Len(b) \in Nat /\ p \in 0..(Modulus - 1) /\ q \in 0..(Modulus - 1) /\ p \in Int /\ q \in Int
  BY ModulusFacts
<1>2. Unsigned(p) = p /\ Unsigned(q) = q
  BY <1>1, UnsignedIs
<1>3. P = p /\ Q = q
  BY <1>1, <1>2 DEF Smaller
<1>4. /\ after \in Seq(C)
      /\ P <= Q => /\ Len(after) = Len(b) - (Q - P)
                   /\ \A i \in 1..P : after[i] = b[i]
                   /\ \A i \in (Q + 1)..Len(b) : after[i - (Q - P)] = b[i]
  BY <1>1, DeleteIs
<1> HIDE DEF P, Q, after
<1> QED
  BY <1>3, <1>4 DEF after

LEMMA DeleteNothing ==
    ASSUME NEW C, NEW b \in Seq(C), NEW p \in Int
    PROVE  strbuf_delete(b, p, p + 0) = b
<1> DEFINE P == Smaller(Unsigned(p), Len(b))
           after == strbuf_delete(b, p, p)
<1>1. /\ after \in Seq(C) /\ P \in 0..Len(b)
      /\ P <= P => /\ Len(after) = Len(b) - (P - P)
                   /\ \A i \in 1..P : after[i] = b[i]
                   /\ \A i \in (P + 1)..Len(b) : after[i - (P - P)] = b[i]
  BY DeleteIs
<1> HIDE DEF P, after
<1>2. Len(b) \in Nat
  OBVIOUS
<1>3. Len(after) = Len(b) /\ \A i \in 1..Len(b) : after[i] = b[i]
  <2>1. P <= P /\ P - P = 0 /\ \A i \in Int : i - 0 = i
    BY <1>1, <1>2
  <2>2. \A i \in (P + 1)..Len(b) : after[i] = b[i]
    BY <1>1, <2>1
  <2>3. \A i \in 1..Len(b) : i \in 1..P \/ i \in (P + 1)..Len(b)
    BY <1>1
  <2> QED
    BY <1>1, <1>2, <2>1, <2>2, <2>3
<1>4. after = b
  BY <1>1, <1>3
<1>5. p + 0 = p
  OBVIOUS
<1> QED
  BY <1>4, <1>5 DEF after

LEMMA DeleteKeeps ==
    ASSUME NEW b \in Seq(Cells), NEW n \in Nat, Ordered(b, n), NoneLost(b, n),
           NEW p \in Nat, NEW q \in Nat, p <= q, q <= Len(b), Len(b) < Modulus,
           \A u \in p..(q - 1) : b[u + 1].kind = "char" => Gap(b[u + 1].of)
    PROVE  LET after == strbuf_delete(b, p, q)
           IN  Ordered(after, n) /\ NoneLost(after, n)
<1> DEFINE after == strbuf_delete(b, p, q)
           d == q - p
           g(i) == Moved(i, p, d)
<1>1. /\ after \in Seq(Cells) /\ Len(after) = Len(b) - d
      /\ \A i \in 1..p : after[i] = b[i]
      /\ \A i \in (q + 1)..Len(b) : after[i - d] = b[i]
  BY DeleteUndoes
<1> HIDE DEF after
<1>2. Len(b) \in Nat /\ d \in Nat /\ p \in Int /\ q = p + d
  OBVIOUS
<1>3. \A i, j \in Int : i < j <=> g(i) < g(j)
  BY <1>2, MovedIs
<1>4. ASSUME NEW i \in 1..Len(after) PROVE g(i) \in 1..Len(b) /\ after[i] = b[g(i)]
  <2>1. i \in Nat /\ i <= Len(b) - d
    BY <1>1, <1>2
  <2>2. CASE i <= p
    <3>1. g(i) = i /\ i \in 1..p /\ i \in 1..Len(b)
      BY <1>2, <2>1, <2>2 DEF Moved
    <3> QED
      BY <1>1, <3>1
  <2>3. CASE i > p
    <3>1. g(i) = i + d /\ i + d \in (q + 1)..Len(b) /\ (i + d) - d = i /\ i + d \in 1..Len(b)
      BY <1>2, <2>1, <2>3 DEF Moved
    <3> HIDE DEF g, d
    <3> QED
      BY <1>1, <3>1
  <2> QED
    BY <2>1, <2>2, <2>3
<1> HIDE DEF g, d
<1>5. Ordered(after, n)
  <2>1. ASSUME NEW i \in 1..Len(after), after[i].kind = "char" PROVE after[i].of \in 1..n
    BY <1>4, <2>1 DEF Ordered
  <2>2. ASSUME NEW i \in 1..Len(after), NEW j \in 1..Len(after), i < j,
               after[i].kind = "char", after[j].kind = "char"
        PROVE  after[i].of < after[j].of
    <3>1. i \in Int /\ j \in Int /\ g(i) < g(j)
      BY <1>3, <2>2
    <3> QED
      BY <1>4, <2>2, <3>1 DEF Ordered
  <2> QED
    BY <2>1, <2>2 DEF Ordered
<1>6. ASSUME NEW i, Holds(b, i), ~Gap(i) PROVE Holds(after, i)
  <2>1. PICK r \in 1..Len(b) : b[r].kind = "char" /\ b[r].of = i
    BY <1>6 DEF Holds
  <2>2. r \notin (p + 1)..q
    <3> SUFFICES ASSUME r \in (p + 1)..q PROVE FALSE
      OBVIOUS
    <3>1. r - 1 \in p..(q - 1) /\ (r - 1) + 1 = r
      OBVIOUS
    <3> QED
      BY <1>6, <2>1, <3>1
  <2>3. CASE r <= p
    <3>1. r \in 1..p /\ r \in 1..Len(after)
      BY <1>1, <1>2, <2>3
    <3> QED
      BY <1>1, <2>1, <3>1 DEF Holds
  <2>4. CASE r > q
    <3>1. r \in (q + 1)..Len(b) /\ r - d \in 1..Len(after)
      BY <1>1, <1>2, <2>4
    <3> QED
      BY <1>1, <2>1, <3>1 DEF Holds
  <2> QED
    BY <2>2, <2>3, <2>4
<1>7. NoneLost(after, n)
  BY <1>6, Zenon DEF NoneLost
<1> QED
  BY <1>5, <1>7 DEF after

(* What the steps of wrap_line do to the buffer.                             *)
at_pre ==
    Larger(sp, from) - (IF SameRange(last, rng) THEN post_last ELSE 0)
                     + (IF SameRange(last, rng) THEN keep ELSE 0)
at_post ==
    Smaller(ep, to) + PreLen[rng.style] - (IF SameRange(last, rng) THEN post_last ELSE 0)
kept_text == IF sp # 0 THEN retainbuf ELSE <<>>
pre_text  == IF sp # 0 THEN prestr ELSE <<>>
app_text  == IF ep < len /\ applen > 0 THEN appstr ELSE <<>>

LEMMA MarksQuiet ==
    ASSUME NEW new \in Seq(Marks)
    PROVE  Quiet(new)
<1>1. ASSUME NEW r \in 1..Len(new) PROVE new[r].kind # "char"
  <2>1. new[r] \in Marks
    OBVIOUS
  <2> QED
    BY <2>1 DEF Marks
<1> QED
  BY <1>1 DEF Quiet

LEMMA ShowsQuiet ==
    ASSUME NEW b, NEW kind, NEW n, Shows(b, kind, n), kind # "char"
    PROVE  Quiet(b)
  BY DEF Shows, Quiet

LEMMA JoinIs ==
    ASSUME NEW C, NEW x \in Seq(C), NEW y \in Seq(C)
    PROVE  /\ x \o y \in Seq(C) /\ Len(x \o y) = Len(x) + Len(y)
           /\ Len(x) \in Nat /\ Len(y) \in Nat
           /\ \A i \in 1..Len(x) : (x \o y)[i] = x[i]
           /\ \A i \in 1..Len(y) : (x \o y)[Len(x) + i] = y[i]
           /\ \A i \in 1..(Len(x) + Len(y)) :
                \/ i \in 1..Len(x)
                \/ i - Len(x) \in 1..Len(y) /\ i = Len(x) + (i - Len(x))
<1>1. Len(x) \in Nat /\ Len(y) \in Nat
  OBVIOUS
<1> DEFINE z == x \o y
<1>2. /\ z \in Seq(C) /\ Len(z) = Len(x) + Len(y)
      /\ \A i \in 1..(Len(x) + Len(y)) : z[i] = IF i <= Len(x) THEN x[i] ELSE y[i - Len(x)]
  BY ConcatProperties
<1> HIDE DEF z
<1>3. \A i \in 1..Len(x) : z[i] = x[i]
  BY <1>1, <1>2
<1>4. ASSUME NEW i \in 1..Len(y) PROVE z[Len(x) + i] = y[i]
  <2> DEFINE t == Len(x) + i
  <2>1. t \in 1..(Len(x) + Len(y)) /\ ~(t <= Len(x)) /\ t - Len(x) = i
    BY <1>1
  <2> HIDE DEF t
  <2>2. z[t] = y[i]
    BY <1>2, <2>1
  <2> QED
    BY <2>2 DEF t
<1>5. \A i \in 1..(Len(x) + Len(y)) :
         \/ i \in 1..Len(x)
         \/ i - Len(x) \in 1..Len(y) /\ i = Len(x) + (i - Len(x))
  BY <1>1
<1> QED
  BY <1>1, <1>2, <1>3, <1>4, <1>5 DEF z

LEMMA JoinQuiet ==
    ASSUME NEW x \in Seq(Cells), NEW y \in Seq(Cells), Quiet(x), Quiet(y)
    PROVE  Quiet(x \o y)
<1> DEFINE z == x \o y
<1>1. /\ Len(z) = Len(x) + Len(y)
      /\ \A i \in 1..Len(x) : z[i] = x[i]
      /\ \A i \in 1..Len(y) : z[Len(x) + i] = y[i]
      /\ \A i \in 1..(Len(x) + Len(y)) :
           \/ i \in 1..Len(x)
           \/ i - Len(x) \in 1..Len(y) /\ i = Len(x) + (i - Len(x))
  BY JoinIs
<1> HIDE DEF z
<1>2. ASSUME NEW i \in 1..Len(z) PROVE z[i].kind # "char"
  <2>1. CASE i \in 1..Len(x)
    BY <1>1, <2>1 DEF Quiet
  <2>2. CASE i - Len(x) \in 1..Len(y) /\ i = Len(x) + (i - Len(x))
    <3>1. z[i] = y[i - Len(x)]
      BY <1>1, <2>2
    <3> QED
      BY <2>2, <3>1 DEF Quiet
  <2> QED
    BY <1>1, <2>1, <2>2
<1> QED
  BY <1>2 DEF Quiet, z

LEMMA NewlineIs ==
    Newline \in Seq(Cells) /\ Len(Newline) = 1 /\ Newline[1].kind = "newline" /\ Quiet(Newline)
<1>1. Newline \in Seq(Cells) /\ Len(Newline) = 1 /\ Newline[1].kind = "newline"
  BY DEF Newline, Cell, Cells, Letters
<1> QED
  BY <1>1 DEF Quiet

LEMMA MarkIs ==
    ASSUME WrapTyped, MarkRange
    PROVE  \E mark \in Seq(Cells) :
             /\ Inserted(mark, buf, Smaller(Unsigned(at_pre), Len(buf)), Pre(rng.style))
             /\ Inserted(buf', mark, Smaller(Unsigned(at_post), Len(mark)), Post(rng.style))
<1> DEFINE st == rng.style
           mark == strbuf_insert(buf, at_pre, Pre(st))
<1>1. buf' = strbuf_insert(mark, at_post, Post(st)) /\ pc = "mark" /\ node <= Len(styles)
  BY DEF MarkRange, at_pre, at_post
<1>2. st \in Styles /\ from \in Nat /\ to \in Nat
  BY <1>1, RangeTyped
<1>3. /\ buf \in Seq(Cells) /\ sp \in Nat /\ ep \in Nat /\ post_last \in Int /\ keep \in Int
  BY DEF WrapTyped
<1>4. /\ Pre(st) \in Seq(Cells) /\ Post(st) \in Seq(Cells) /\ PreLen[st] \in Nat
  BY <1>2, MarkTyped, MarksAreCells
<1>5. at_pre \in Int /\ at_post \in Int
  <2>1. Larger(sp, from) \in Int /\ Smaller(ep, to) \in Int
    BY <1>2, <1>3 DEF Larger, Smaller
  <2> QED
    BY <1>3, <1>4, <2>1 DEF at_pre, at_post
<1>6. mark \in Seq(Cells) /\ Inserted(mark, buf, Smaller(Unsigned(at_pre), Len(buf)), Pre(st))
  BY <1>3, <1>4, <1>5, InsertIs
<1> HIDE DEF mark
<1>7. Inserted(buf', mark, Smaller(Unsigned(at_post), Len(mark)), Post(st))
  BY <1>1, <1>4, <1>5, <1>6, InsertIs
<1> QED
  BY <1>6, <1>7

LEMMA StringsQuiet ==
    ASSUME WrapTyped, pc \in {"cut", "mark"}, Complete
    PROVE  /\ kept_text \in Seq(Cells) /\ Quiet(kept_text)
           /\ pre_text \in Seq(Cells) /\ Quiet(pre_text)
           /\ app_text \in Seq(Cells) /\ Quiet(app_text)
<1>1. <<>> \in Seq(Cells) /\ Quiet(<<>>)
  BY DEF Quiet
<1>2. Shows(retainbuf, "kept", opt.retain)
  BY DEF Complete
<1>3. Shows(prestr, "prepend", prepend_mb.length) /\ Shows(appstr, "append", append_mb.length)
  BY StringsShow DEF WrapTyped
<1>4. Quiet(retainbuf) /\ Quiet(prestr) /\ Quiet(appstr)
  BY <1>2, <1>3, ShowsQuiet
<1>5. retainbuf \in Seq(Cells) /\ prestr \in Seq(Cells) /\ appstr \in Seq(Cells)
  BY <1>2, <1>3 DEF Shows
<1> QED
  BY <1>1, <1>4, <1>5 DEF kept_text, pre_text, app_text

LEMMA FinishIs ==
    ASSUME WrapTyped, Complete, FinishLine
    PROVE  /\ app_text \o Newline \in Seq(Cells) /\ Quiet(app_text \o Newline)
           /\ kept_text \o pre_text \in Seq(Cells) /\ Quiet(kept_text \o pre_text)
           /\ Len(app_text) \in Nat /\ Len(app_text \o Newline) = Len(app_text) + 1
           /\ Len(kept_text) \in Nat /\ Len(pre_text) \in Nat
           /\ Len(kept_text \o pre_text) = Len(kept_text) + Len(pre_text)
           /\ \E first \in Seq(Cells) :
                /\ Inserted(first, buf, Smaller(Unsigned(ep), Len(buf)), app_text \o Newline)
                /\ Inserted(buf', first, Smaller(Unsigned(sp), Len(first)), kept_text \o pre_text)
<1> DEFINE first == strbuf_insert(buf, ep, app_text \o Newline)
<1>1. buf' = strbuf_insert(first, sp, kept_text \o pre_text) /\ pc = "mark"
  BY DEF FinishLine, kept_text, pre_text, app_text
<1>2. buf \in Seq(Cells) /\ sp \in Int /\ ep \in Int
  BY DEF WrapTyped
<1>3. /\ kept_text \in Seq(Cells) /\ Quiet(kept_text)
      /\ pre_text \in Seq(Cells) /\ Quiet(pre_text)
      /\ app_text \in Seq(Cells) /\ Quiet(app_text)
  BY <1>1, StringsQuiet
<1>4. /\ app_text \o Newline \in Seq(Cells) /\ Quiet(app_text \o Newline)
      /\ Len(app_text \o Newline) = Len(app_text) + 1
  <2> DEFINE a == app_text
             b == Newline
  <2>1. a \in Seq(Cells) /\ b \in Seq(Cells) /\ Quiet(a) /\ Quiet(b) /\ Len(b) = 1
    BY <1>3, NewlineIs
  <2> HIDE DEF a, b
  <2>4. a \o b \in Seq(Cells) /\ Len(a \o b) = Len(a) + Len(b)
    BY <2>1, JoinIs
  <2>2. a \o b \in Seq(Cells) /\ Len(a \o b) = Len(a) + 1
    BY <2>1, <2>4
  <2>3. Quiet(a \o b)
    BY <2>1, JoinQuiet
  <2> QED
    BY <2>2, <2>3 DEF a, b
<1>5. /\ kept_text \o pre_text \in Seq(Cells) /\ Quiet(kept_text \o pre_text)
      /\ Len(kept_text \o pre_text) = Len(kept_text) + Len(pre_text)
  BY <1>3, JoinIs, JoinQuiet
<1>6. first \in Seq(Cells)
      /\ Inserted(first, buf, Smaller(Unsigned(ep), Len(buf)), app_text \o Newline)
  BY <1>2, <1>4, InsertIs
<1> HIDE DEF first
<1>7. Inserted(buf', first, Smaller(Unsigned(sp), Len(first)), kept_text \o pre_text)
  BY <1>1, <1>2, <1>5, <1>6, InsertIs
<1>8. Len(app_text) \in Nat /\ Len(kept_text) \in Nat /\ Len(pre_text) \in Nat
  BY <1>3
<1> QED
  BY <1>4, <1>5, <1>6, <1>7, <1>8

(* A line is cut: blanks are all that is deleted.                            *)
LEMMA CutIs ==
    ASSUME WrapTyped, Complete, Small, CutLine
    PROVE  \E e \in Nat, n \in Nat :
             /\ Cut(e, n)
             /\ \/ n = 0 /\ buf' = buf
                \/ /\ e + n < len
                   /\ \A u \in e..(e + n - 1) : Blank(u)
             /\ e = FirstEnd \/ (n = 0 /\ e = WordEnd(FirstEnd) /\ FirstEnd < len)
<1> DEFINE e == FirstEnd
<1>1. /\ e \in Nat /\ len \in Nat /\ WordEnd(e) \in Nat /\ buf \in Seq(Cells)
  BY FirstEndTyped, WordEndTyped DEF WrapTyped
<1>2. \/ Cut(e, 0) \/ (Cut(WordEnd(e), 0) /\ e < len)
      \/ /\ e < len /\ Blank(e) /\ e = FirstEnd
         /\ Cut(e, IF TextAfter(e) < len THEN TextAfter(e) - e ELSE 0)
  BY DEF CutLine
<1>3. e = FirstEnd
  OBVIOUS
<1> HIDE DEF e
<1>4. ASSUME NEW x \in Nat, Cut(x, 0) PROVE buf' = buf
  BY <1>1, <1>4, DeleteNothing DEF Cut
<1>5. CASE Cut(e, 0) \/ (Cut(WordEnd(e), 0) /\ e < len)
  BY <1>1, <1>3, <1>4, <1>5
<1>6. CASE /\ e < len /\ Blank(e)
           /\ Cut(e, IF TextAfter(e) < len THEN TextAfter(e) - e ELSE 0)
  <2>1. CASE TextAfter(e) >= len
    <3>1. TextAfter(e) \in (e + 1)..len
      BY <1>1, <1>6, TextAfterIs
    <3>2. Cut(e, 0)
      BY <1>1, <1>6, <2>1, <3>1
    <3> QED
      BY <1>1, <1>3, <1>4, <3>2
  <2>2. CASE TextAfter(e) < len
    <3>1. TextAfter(e) \in (e + 1)..len /\ \A u \in (e + 1)..(TextAfter(e) - 1) : Blank(u)
      BY <1>1, <1>6, TextAfterIs
    <3>2. PICK n \in Nat : n = TextAfter(e) - e
      BY <1>1, <3>1
    <3>3. e + n = TextAfter(e) /\ TextAfter(e) \in Int
      BY <1>1, <3>1, <3>2
    <3>4. Cut(e, n) /\ e + n < len
      BY <1>6, <2>2, <3>2, <3>3
    <3>5. \A u \in e..(e + n - 1) : u = e \/ u \in (e + 1)..(TextAfter(e) - 1)
      BY <1>1, <3>3
    <3>6. \A u \in e..(e + n - 1) : Blank(u)
      BY <1>6, <3>1, <3>5
    <3> QED
      BY <1>1, <1>3, <3>4, <3>6
  <2>3. TextAfter(e) \in Int
    BY <1>1, <1>6, TextAfterIs
  <2> QED
    BY <1>1, <2>1, <2>2, <2>3
<1> QED
  BY <1>2, <1>5, <1>6

LEMMA CompleteCut == WrapTyped /\ Complete /\ Small /\ CutLine => Complete'
<1> SUFFICES ASSUME WrapTyped, Complete, Small, CutLine PROVE Complete'
  OBVIOUS
<1>1. PICK e \in Nat, n \in Nat :
        /\ Cut(e, n)
        /\ \/ n = 0 /\ buf' = buf
           \/ /\ e + n < len
              /\ \A u \in e..(e + n - 1) : Blank(u)
  BY CutIs
<1>2. /\ pc = "cut" /\ pc' = "mark" /\ buf' = strbuf_delete(buf, e, e + n) /\ len' = len - n
      /\ UNCHANGED <<text, retainbuf, opt>>
  BY <1>1 DEF CutLine, Cut, setup
<1>3. /\ buf \in Seq(Cells) /\ len \in Nat /\ text \in Seq(Alphabet) /\ Len(text) \in Nat
  BY DEF WrapTyped
<1>4. /\ text # <<>> /\ Ordered(buf, Len(text)) /\ NoneLost(buf, Len(text))
      /\ len = Len(buf) /\ 2 * Len(text) < Modulus /\ Shows(retainbuf, "kept", opt.retain)
  BY <1>2 DEF Complete
<1>5. len' = Len(buf') /\ Ordered(buf', Len(text)) /\ NoneLost(buf', Len(text))
  <2>1. CASE n = 0 /\ buf' = buf
    BY <1>2, <1>3, <1>4, <2>1
  <2>2. CASE e + n < len /\ \A u \in e..(e + n - 1) : Blank(u)
    <3>1. PICK q \in Nat : q = e + n
      OBVIOUS
    <3>2. e <= q /\ q <= Len(buf) /\ Len(buf) < Modulus /\ q - e = n
      BY <1>3, <1>4, <2>2, <3>1, ModulusFacts DEF Small
    <3>3. \A u \in e..(q - 1) : buf[u + 1].kind = "char" => Gap(buf[u + 1].of)
      <4>1. ASSUME NEW u \in e..(q - 1) PROVE Blank(u)
        <5>1. u \in e..(e + n - 1)
          BY <3>1
        <5> QED
          BY <2>2, <5>1
      <4> QED
        BY <4>1, BlankIs, Zenon
    <3>4. buf' = strbuf_delete(buf, e, q)
      BY <1>2, <3>1
    <3>5. Len(buf') = Len(buf) - n
      BY <1>3, <3>2, <3>4, DeleteUndoes
    <3>6. Ordered(buf', Len(text)) /\ NoneLost(buf', Len(text))
      BY <1>3, <1>4, <3>2, <3>3, <3>4, DeleteKeeps
    <3> QED
      BY <1>2, <1>4, <3>5, <3>6
  <2> QED
    BY <1>1, <2>1, <2>2
<1>6. Ordered(buf, Len(text))' /\ NoneLost(buf, Len(text))'
  BY <1>2, <1>5, OrderedKept, NoneLostKept
<1>7. Shows(retainbuf, "kept", opt.retain)'
  BY <1>2, <1>4 DEF Shows
<1> QED
  BY <1>2, <1>4, <1>5, <1>6, <1>7 DEF Complete

LEMMA CompleteMark == WrapTyped /\ Complete /\ MarkRange => Complete'
<1> SUFFICES ASSUME WrapTyped, Complete, MarkRange PROVE Complete'
  OBVIOUS
<1> DEFINE st == rng.style
<1>1. /\ pc = "mark" /\ node <= Len(styles) /\ pc' = "mark"
      /\ len' = len + PreLen[st] + PostLen[st] /\ UNCHANGED <<text, retainbuf, opt>>
  BY DEF MarkRange, setup
<1>2. st \in Styles
  BY <1>1, RangeTyped
<1>3. /\ Pre(st) \in Seq(Cells) /\ Post(st) \in Seq(Cells) /\ Quiet(Pre(st)) /\ Quiet(Post(st))
      /\ Len(Pre(st)) = PreLen[st] /\ Len(Post(st)) = PostLen[st]
      /\ PreLen[st] \in Nat /\ PostLen[st] \in Nat
  BY <1>2, MarkTyped, MarksAreCells, MarksQuiet
<1>4. /\ text # <<>> /\ Ordered(buf, Len(text)) /\ NoneLost(buf, Len(text))
      /\ len = Len(buf) /\ 2 * Len(text) < Modulus /\ Shows(retainbuf, "kept", opt.retain)
      /\ buf \in Seq(Cells)
  BY <1>1 DEF Complete, WrapTyped
<1>5. PICK mark \in Seq(Cells) :
        /\ Inserted(mark, buf, Smaller(Unsigned(at_pre), Len(buf)), Pre(st))
        /\ Inserted(buf', mark, Smaller(Unsigned(at_post), Len(mark)), Post(st))
  BY MarkIs
<1>6. Len(mark) = Len(buf) + PreLen[st] /\ Len(buf') = Len(mark) + PostLen[st] /\ Len(buf) \in Nat
  BY <1>3, <1>4, <1>5 DEF Inserted
<1>7. Ordered(mark, Len(text)) /\ NoneLost(mark, Len(text))
  BY <1>3, <1>4, <1>5, InsertOrdered, InsertNoneLost
<1>8. Ordered(buf', Len(text)) /\ NoneLost(buf', Len(text))
  BY <1>3, <1>5, <1>7, InsertOrdered, InsertNoneLost
<1>9. Ordered(buf, Len(text))' /\ NoneLost(buf, Len(text))'
  BY <1>1, <1>8, OrderedKept, NoneLostKept
<1>10. len' = Len(buf')
  <2>1. PICK m \in Nat, k \in Nat : m = PreLen[st] /\ k = PostLen[st]
    BY <1>3
  <2>2. len' = len + m + k /\ Len(mark) = Len(buf) + m /\ Len(buf') = Len(mark) + k
    BY <1>1, <1>6, <2>1
  <2> QED
    BY <1>4, <1>6, <2>1, <2>2
<1>11. Shows(retainbuf, "kept", opt.retain)'
  BY <1>1, <1>4 DEF Shows
<1> QED
  BY <1>1, <1>4, <1>9, <1>10, <1>11 DEF Complete

LEMMA CompleteFinish == WrapTyped /\ Complete /\ FinishLine => Complete'
<1> SUFFICES ASSUME WrapTyped, Complete, FinishLine PROVE Complete'
  OBVIOUS
<1>1. /\ pc = "mark" /\ UNCHANGED <<text, retainbuf, opt>>
      /\ len' = len + (Len(kept_text) + Len(pre_text) + Len(app_text) + 1)
      /\ pc' \in {"cut", "printed"}
  BY DEF FinishLine, setup, kept_text, pre_text, app_text
<1>2. /\ text # <<>> /\ Ordered(buf, Len(text)) /\ NoneLost(buf, Len(text))
      /\ len = Len(buf) /\ 2 * Len(text) < Modulus /\ Shows(retainbuf, "kept", opt.retain)
      /\ buf \in Seq(Cells) /\ len \in Nat
  BY <1>1 DEF Complete, WrapTyped
<1> DEFINE x == app_text \o Newline
           y == kept_text \o pre_text
<1>3. /\ x \in Seq(Cells) /\ Quiet(x) /\ y \in Seq(Cells) /\ Quiet(y)
      /\ Len(app_text) \in Nat /\ Len(x) = Len(app_text) + 1
      /\ Len(kept_text) \in Nat /\ Len(pre_text) \in Nat
      /\ Len(y) = Len(kept_text) + Len(pre_text)
  BY FinishIs
<1>4. PICK first \in Seq(Cells) :
        /\ Inserted(first, buf, Smaller(Unsigned(ep), Len(buf)), x)
        /\ Inserted(buf', first, Smaller(Unsigned(sp), Len(first)), y)
  BY FinishIs
<1> HIDE DEF x, y
<1>5. Ordered(first, Len(text)) /\ NoneLost(first, Len(text))
  BY <1>2, <1>3, <1>4, InsertOrdered, InsertNoneLost
<1>6. Ordered(buf', Len(text)) /\ NoneLost(buf', Len(text))
  BY <1>3, <1>4, <1>5, InsertOrdered, InsertNoneLost
<1>7. Ordered(buf, Len(text))' /\ NoneLost(buf, Len(text))'
  BY <1>1, <1>6, OrderedKept, NoneLostKept
<1>8. len' = Len(buf')
  <2>1. Len(first) = Len(buf) + Len(x) /\ Len(buf') = Len(first) + Len(y)
    BY <1>4 DEF Inserted
  <2> QED
    BY <1>1, <1>2, <1>3, <2>1
<1>9. Shows(retainbuf, "kept", opt.retain)'
  BY <1>1, <1>2 DEF Shows
<1> QED
  BY <1>1, <1>2, <1>7, <1>8, <1>9 DEF Complete

LEMMA RowHolds ==
    ASSUME NEW n \in Nat
    PROVE  LET b == Row("char", n)
           IN  /\ b \in Seq(Cells) /\ Len(b) = n
               /\ \A i \in 1..n : b[i].kind = "char" /\ b[i].of = i
               /\ Ordered(b, n) /\ NoneLost(b, n)
<1> DEFINE b == Row("char", n)
<1>1. Shows(b, "char", n) /\ Len(b) = n
  BY RowShows DEF Letters
<1>2. \A i \in 1..n : b[i].kind = "char" /\ b[i].of = i
  BY DEF Row, Cell
<1> HIDE DEF b
<1>3. b \in Seq(Cells) /\ Ordered(b, n)
  BY <1>1 DEF Shows, Ordered
<1>4. \A i \in 1..n : Holds(b, i)
  BY <1>1, <1>2 DEF Holds
<1>5. NoneLost(b, n)
  BY <1>4, Zenon DEF NoneLost
<1> QED
  BY <1>1, <1>2, <1>3, <1>5 DEF b

LEMMA CompleteStart ==
    ASSUME WrapTyped, opt.retain \in Nat, opt.width \in Nat,
           NEW line \in Seq(Alphabet), NEW ranges \in Seq(StyleRange),
           NEW pre, NEW app, Start(line, ranges, pre, app), Small'
    PROVE  Complete'
<1> DEFINE n == Len(line)
           cells == Row("char", n)
           kept == apply_styles(Row("kept", Smaller(opt.retain, n)), ranges, opt.retain)
           whole == apply_styles(cells, ranges, Unbounded)
<1>1. /\ pc = "idle" /\ text' = line /\ len' = n
      /\ IF n = 0 THEN buf' = whole \o Newline /\ pc' = "printed"
         ELSE buf' = cells /\ pc' = "cut"
      /\ retainbuf' = IF opt.retain = 0 \/ n = 0 THEN <<>> ELSE kept
      /\ UNCHANGED opt
  BY DEF Start
<1>2. n \in Nat /\ Smaller(opt.retain, n) \in Nat /\ Smaller(opt.retain, n) <= opt.retain
      /\ Unbounded \in Int
  BY ModulusFacts DEF Smaller, Unbounded
<1>3. "char" \in Letters /\ "kept" \in Letters
  BY DEF Letters
<1>4. text' = <<>> <=> n = 0
  BY <1>1
<1> HIDE DEF n
<1>5. /\ Shows(cells, "char", n)
      /\ Shows(Row("kept", Smaller(opt.retain, n)), "kept", Smaller(opt.retain, n))
  BY <1>2, <1>3, RowShows
<1>6. Shows(whole, "char", n) /\ Shows(kept, "kept", Smaller(opt.retain, n))
  BY <1>2, <1>3, <1>5, ApplyShows
<1>7. cells \in Seq(Cells) /\ Len(cells) = n /\ Ordered(cells, n)
      /\ \A i \in 1..n : cells[i].kind = "char" /\ cells[i].of = i
  BY <1>2, RowHolds
<1> HIDE DEF cells, whole, kept
<1>8. Shows(retainbuf', "kept", opt.retain)
  <2>1. CASE retainbuf' = <<>>
    BY <2>1 DEF Shows
  <2>2. CASE retainbuf' = kept
    <3>1. \A i : i \in 1..Smaller(opt.retain, n) => i \in 1..opt.retain
      BY <1>2
    <3> QED
      BY <1>6, <2>2, <3>1 DEF Shows
  <2> QED
    BY <1>1, <2>1, <2>2
<1>9. Shows(retainbuf, "kept", opt.retain)'
  BY <1>1, <1>8 DEF Shows
<1>10. CASE n = 0
  <2>1. Ordered(whole, 0) /\ whole \in Seq(Cells)
    BY <1>6, <1>10 DEF Shows, Ordered
  <2>2. Quiet(whole)
    BY <2>1 DEF Ordered, Quiet
  <2>3. buf' = whole \o Newline /\ pc' = "printed"
    BY <1>1, <1>10
  <2>4. Quiet(buf')
    BY <2>1, <2>2, <2>3, NewlineIs, JoinQuiet
  <2>5. Len(text') = 0
    BY <1>1, <1>10 DEF n
  <2>6. Ordered(buf, Len(text))'
    BY <2>4 DEF Quiet, Ordered
  <2>7. NoneLost(buf, Len(text))'
    <3>1. \A i \in 1..Len(text') : FALSE
      BY <2>5
    <3> QED
      BY <3>1, Zenon DEF NoneLost
  <2> QED
    BY <1>4, <1>10, <2>3, <2>6, <2>7 DEF Complete
<1>11. CASE n # 0
  <2>1. buf' = cells /\ pc' = "cut" /\ text' # <<>> /\ Len(text') = n
    BY <1>1, <1>4, <1>11 DEF n
  <2>2. Ordered(buf, Len(text))'
    BY <1>7, <2>1 DEF Ordered
  <2>3. \A i \in 1..Len(text') : Holds(buf, i)'
    BY <1>7, <2>1 DEF Holds
  <2>4. NoneLost(buf, Len(text))'
    BY <2>3, Zenon DEF NoneLost
  <2>5. 2 * n < Modulus
    BY <1>1 DEF Small
  <2> QED
    BY <1>1, <1>7, <1>9, <2>1, <2>2, <2>4, <2>5 DEF Complete
<1> QED
  BY <1>10, <1>11

LEMMA CompleteRests ==
    ASSUME WrapTyped, pc \in {"options", "dead", "idle"}, pc' \in {"options", "dead", "idle"},
           UNCHANGED text
    PROVE  Complete'
  BY DEF WrapTyped, Rested, Complete

LEMMA CompleteEnd == EndOfBuffer => Complete'
  BY DEF EndOfBuffer, Complete

-----------------------------------------------------------------------------
(* Where lines end, when the strings are as long as the options say, or      *)
(* shorter.                                                                  *)
Fits == prelen <= opt.prepend /\ applen <= opt.append

Limits ==
    /\ opt.retain \in Nat /\ opt.prepend \in Nat /\ opt.append \in Nat
    /\ opt.width \in 0..(Modulus - 1)
    /\ opt.retain + opt.append + opt.prepend < opt.width

Sized ==
    /\ pc \in {"cut", "mark"} =>
         /\ sp < len
         /\ sp = 0 => width = opt.width
         /\ sp # 0 => width = opt.width - (opt.retain + prelen)
    /\ pc = "cut" /\ sp # 0 => 2 * width < Modulus
    /\ pc = "mark" =>
         /\ sp < ep /\ ep <= len
         /\ ep < len => 2 * width < Modulus

LEMMA WidthIs ==
    ASSUME WrapTyped, Limits, Fits, Sized, pc \in {"cut", "mark"}
    PROVE  width \in Nat /\ applen \in Nat /\ prelen \in Nat /\ width > applen /\ width < Modulus
<1>1. prelen \in Nat /\ applen \in Nat
  BY LengthsTyped DEF WrapTyped
<1>2. /\ opt.retain \in Nat /\ opt.prepend \in Nat /\ opt.append \in Nat /\ opt.width \in Nat
      /\ opt.width < Modulus
      /\ opt.retain + opt.append + opt.prepend < opt.width
      /\ prelen <= opt.prepend /\ applen <= opt.append
      /\ sp \in Nat
      /\ sp = 0 => width = opt.width
      /\ sp # 0 => width = opt.width - (opt.retain + prelen)
  BY ModulusFacts DEF Limits, Fits, Sized, WrapTyped
<1>3. width = opt.width \/ width = opt.width - (opt.retain + prelen)
  BY <1>2
<1> QED
  BY <1>1, <1>2, <1>3, ModulusFacts

LEMMA Doubled == \A x, y, z \in Int : x <= y /\ 2 * y < z => 2 * x < z
  OBVIOUS

LEMMA FirstEndIs ==
    ASSUME WrapTyped, Limits, Fits, Sized, Small, pc = "cut"
    PROVE  LET e == FirstEnd
           IN  /\ e \in Nat /\ sp < e /\ e <= len /\ e - sp <= width
               /\ e < len => e = sp + width - applen /\ sp + width < len
<1> DEFINE m == Smaller(len, Unsigned(sp + width))
<1>1. /\ width \in Nat /\ applen \in Nat /\ width > applen /\ width < Modulus
  BY WidthIs
<1>2. /\ len \in Nat /\ sp \in Nat /\ sp < len /\ 2 * len < Modulus
      /\ sp # 0 => 2 * width < Modulus
  BY DEF WrapTyped, Sized, Small
<1>3. sp + width \in 0..(Modulus - 1)
  BY <1>1, <1>2, ModulusFacts
<1>4. Unsigned(sp + width) = sp + width
  <2>1. sp + width \in Int
    BY <1>3, ModulusFacts
  <2> QED
    BY <1>3, <2>1, UnsignedIs
<1>5. m = IF len < sp + width THEN len ELSE sp + width
  BY <1>4 DEF Smaller
<1> HIDE DEF m
<1>6. FirstEnd = IF m # len THEN Unsigned(m - applen) ELSE m
  BY DEF FirstEnd, m
<1>7. CASE m = len
  BY <1>1, <1>2, <1>5, <1>6, <1>7
<1>8. CASE m # len
  <2>1. m = sp + width /\ sp + width < len
    BY <1>1, <1>2, <1>5, <1>8
  <2>2. m - applen \in Int /\ m - applen \in 0..(Modulus - 1)
    BY <1>1, <1>2, <2>1, ModulusFacts
  <2>3. Unsigned(m - applen) = m - applen
    BY <2>2, UnsignedIs
  <2>4. FirstEnd = sp + width - applen
    BY <1>1, <1>2, <1>6, <1>8, <2>1, <2>3
  <2> QED
    BY <1>1, <1>2, <2>1, <2>4
<1> QED
  BY <1>7, <1>8

LEMMA WordEndIs ==
    ASSUME sp \in Nat, NEW e \in Nat, sp < e
    PROVE  WordEnd(e) \in Nat /\ sp < WordEnd(e) /\ WordEnd(e) <= e
<1> DEFINE t == BlankBefore(e)
<1>1. t \in sp..Larger(sp, e - 1)
  BY BlankBeforeIs
<1>2. Larger(sp, e - 1) = e - 1
  BY DEF Larger
<1> HIDE DEF t
<1>3. t \in Int /\ sp <= t /\ t <= e - 1
  BY <1>1, <1>2
<1>4. WordEnd(e) = e \/ (t > sp /\ WordEnd(e) = t + 1)
  BY DEF WordEnd, t
<1> QED
  BY <1>3, <1>4

LEMMA CutBounds ==
    ASSUME WrapTyped, Complete, Small, Sized, Limits, Fits, pc = "cut",
           NEW e \in Nat, NEW n \in Nat, n = 0 \/ e + n < len,
           e = FirstEnd \/ (n = 0 /\ e = WordEnd(FirstEnd) /\ FirstEnd < len)
    PROVE  /\ sp < e /\ e <= len - n /\ e + n <= len
           /\ e < len - n => 2 * width < Modulus
           /\ e - sp <= width - (IF e < len - n THEN applen ELSE 0)
<1> DEFINE f == FirstEnd
<1>1. /\ f \in Nat /\ sp < f /\ f <= len /\ f - sp <= width
      /\ f < len => f = sp + width - applen /\ sp + width < len
  BY FirstEndIs
<1>2. /\ len \in Nat /\ sp \in Nat /\ width \in Nat /\ applen \in Nat
      /\ 2 * len < Modulus
  BY WidthIs DEF WrapTyped, Small
<1>3. WordEnd(f) \in Nat /\ sp < WordEnd(f) /\ WordEnd(f) <= f
  BY <1>1, <1>2, WordEndIs
<1> HIDE DEF f
<1>4. f < len => 2 * width < Modulus
  <2>1. f < len => width \in Int /\ len \in Int /\ Modulus \in Int /\ width <= len
    BY <1>1, <1>2, ModulusFacts
  <2> QED
    BY <1>2, <2>1, Doubled
<1>5. CASE e = f
  BY <1>1, <1>2, <1>4, <1>5
<1>6. CASE n = 0 /\ e = WordEnd(f) /\ f < len
  BY <1>1, <1>2, <1>3, <1>4, <1>6
<1> QED
  BY <1>5, <1>6 DEF f

LEMMA SizedCut ==
    WrapTyped /\ Complete /\ Small /\ Sized /\ Limits /\ Fits /\ CutLine => Sized'
<1> SUFFICES ASSUME WrapTyped, Complete, Small, Sized, Limits, Fits, CutLine PROVE Sized'
  OBVIOUS
<1>1. PICK e \in Nat, n \in Nat :
        /\ Cut(e, n) /\ (n = 0 \/ e + n < len)
        /\ e = FirstEnd \/ (n = 0 /\ e = WordEnd(FirstEnd) /\ FirstEnd < len)
  BY CutIs
<1>2. /\ pc = "cut" /\ pc' = "mark" /\ ep' = e /\ len' = len - n
      /\ UNCHANGED <<sp, width, opt, prepend_mb, append_mb>>
  BY <1>1 DEF CutLine, Cut, setup
<1>3. /\ sp < e /\ e <= len - n
      /\ e < len - n => 2 * width < Modulus
  BY <1>1, <1>2, CutBounds
<1>4. /\ sp = 0 => width = opt.width
      /\ sp # 0 => width = opt.width - (opt.retain + prelen)
  BY <1>2 DEF Sized
<1>5. len \in Nat /\ sp \in Nat
  BY DEF WrapTyped
<1>6. sp' < len'
  BY <1>2, <1>3, <1>5
<1>7. applen' = applen /\ prelen' = prelen
  BY <1>2 DEF applen, prelen
<1> QED
  BY <1>2, <1>3, <1>4, <1>6, <1>7 DEF Sized

LEMMA SizedMark ==
    WrapTyped /\ Sized /\ MarkRange => Sized'
<1> SUFFICES ASSUME WrapTyped, Sized, MarkRange PROVE Sized'
  OBVIOUS
<1> DEFINE st == rng.style
<1>1. /\ pc = "mark" /\ pc' = "mark" /\ node <= Len(styles)
      /\ len' = len + PreLen[st] + PostLen[st] /\ ep' = ep + PreLen[st] + PostLen[st]
      /\ UNCHANGED <<sp, width, opt, prepend_mb, append_mb>>
  BY DEF MarkRange, setup
<1>2. PICK m \in Nat : PreLen[st] + PostLen[st] = m /\ PreLen[st] \in Nat /\ PostLen[st] \in Nat
  BY <1>1, RangeTyped, MarkTyped
<1>3. /\ len \in Nat /\ sp \in Nat /\ ep \in Nat /\ width \in Int /\ applen \in Nat
      /\ sp < len /\ sp < ep /\ ep <= len /\ (ep < len => 2 * width < Modulus)
      /\ sp = 0 => width = opt.width
      /\ sp # 0 => width = opt.width - (opt.retain + prelen)
  BY <1>1, LengthsTyped DEF WrapTyped, Sized
<1>4. len' = len + m /\ ep' = ep + m
  <2>1. PICK i \in Nat, j \in Nat : i = PreLen[st] /\ j = PostLen[st]
    BY <1>2
  <2>2. len' = len + i + j /\ ep' = ep + i + j /\ i + j = m
    BY <1>1, <1>2, <2>1
  <2> QED
    BY <1>3, <2>1, <2>2
<1>5. applen' = applen /\ prelen' = prelen
  BY <1>1 DEF applen, prelen
<1>6. sp < len + m /\ sp < ep + m /\ ep + m <= len + m
      /\ (ep + m < len + m => 2 * width < Modulus)
  BY <1>2, <1>3
<1> QED
  BY <1>1, <1>3, <1>4, <1>5, <1>6 DEF Sized

LEMMA SizedFinish ==
    WrapTyped /\ Complete /\ Sized /\ Limits /\ Fits /\ FinishLine => Sized'
<1> SUFFICES ASSUME WrapTyped, Complete, Sized, Limits, Fits, FinishLine PROVE Sized'
  OBVIOUS
<1>1. PICK more \in Nat :
        /\ more > 0 /\ len' = len + more /\ sp' = ep + more
        /\ pc' = IF ep + more < len + more THEN "cut" ELSE "printed"
  <2> DEFINE more == Len(kept_text) + Len(pre_text) + Len(app_text) + 1
  <2>1. /\ len' = len + more /\ sp' = ep + more
        /\ pc' = IF ep + more < len + more THEN "cut" ELSE "printed"
    BY DEF FinishLine, kept_text, pre_text, app_text
  <2>2. more \in Nat /\ more > 0
    BY FinishIs
  <2> HIDE DEF more
  <2> QED
    BY <2>1, <2>2
<1>2. /\ pc = "mark" /\ UNCHANGED <<opt, prepend_mb, append_mb>>
      /\ width' = IF sp = 0 THEN width - (opt.retain + prelen) ELSE width
  BY DEF FinishLine, setup
<1>3. /\ len \in Nat /\ sp \in Nat /\ ep \in Nat /\ width \in Nat /\ prelen \in Nat
      /\ opt.retain \in Nat
      /\ (ep < len => 2 * width < Modulus)
      /\ sp = 0 => width = opt.width
      /\ sp # 0 => width = opt.width - (opt.retain + prelen)
  BY <1>2, WidthIs DEF WrapTyped, Sized, Limits
<1>4. prelen' = prelen
  BY <1>2 DEF prelen
<1>5. sp' \in Nat /\ sp' # 0 /\ pc' \in {"cut", "printed"} /\ (pc' = "cut" => sp' < len' /\ ep < len)
  BY <1>1, <1>3
<1>6. width' = opt.width - (opt.retain + prelen)
  BY <1>2, <1>3
<1>7. ep < len => 2 * width' < Modulus
  <2> SUFFICES ASSUME ep < len PROVE 2 * width' < Modulus
    OBVIOUS
  <2>1. 2 * width < Modulus /\ width' \in Int /\ width \in Int /\ width' <= width
    BY <1>2, <1>3
  <2>2. Modulus \in Int
    BY ModulusFacts
  <2> QED
    BY <2>1, <2>2, Doubled, Zenon
<1> QED
  BY <1>2, <1>4, <1>5, <1>6, <1>7 DEF Sized

LEMMA SizedStart ==
    ASSUME WrapTyped, NEW line \in Seq(Alphabet), NEW ranges, NEW pre, NEW app,
           Start(line, ranges, pre, app)
    PROVE  Sized'
<1>1. /\ pc' = IF Len(line) = 0 THEN "printed" ELSE "cut"
      /\ len' = Len(line) /\ width' = opt.width /\ UNCHANGED <<opt, sp>>
  BY DEF Start
<1>2. sp = 0
  BY DEF Start, WrapTyped, Rested
<1>3. Len(line) \in Nat
  OBVIOUS
<1> QED
  BY <1>1, <1>2, <1>3 DEF Sized

LEMMA SizedRests == pc' \in {"options", "dead", "idle"} => Sized'
  BY DEF Sized

(* The types the lengths have, as the runs check them.                       *)
LEMMA SizedIsType ==
    ASSUME WrapTyped, Complete, Limits \/ pc \notin {"cut", "mark"}, Sized, opt.wrapper \in Wrappers,
           {opt.width, opt.retain} \subseteq 0..(Modulus - 1)
    PROVE  WrapTypeOK
<1>1. text # <<>> => len = Len(buf)
  BY DEF Complete
<1>2. pc \in {"mark", "cut"} => sp < len /\ sp <= Len(buf)
  BY <1>1 DEF Complete, Sized, WrapTyped
<1>3. pc = "mark" => sp < ep /\ ep <= len
  BY DEF Sized
<1>4. node \in 1..(Len(styles) + 1) /\ back \in 0..Len(styles)
      /\ pc \in {"options", "dead", "idle", "cut", "mark", "printed"}
  BY DEF WrapTyped
<1> QED
  BY <1>1, <1>2, <1>3, <1>4 DEF WrapTypeOK

-----------------------------------------------------------------------------
(* Lines for which the markup has room, and where it can be placed: the      *)
(* strings are as long as the options say, or shorter; and when there are    *)
(* ranges, then these strings are empty, the ranges are in order and do not  *)
(* overlap, and wrap_line can mark them up.                                  *)
NoMargins == prestr = <<>> /\ applen = 0

Apart ==
    /\ \A i \in 1..Len(styles) : styles[i].so <= styles[i].eo /\ styles[i].eo <= Len(text)
    /\ \A i, j \in 1..Len(styles) :
         i < j => styles[i].eo <= styles[j].so \/ SameRange(styles[i], styles[j])

Room == Fits /\ (styles = <<>> \/ (NoMargins /\ Apart /\ Markable))

LEMMA StringsKept ==
    ASSUME UNCHANGED <<prepend_mb, append_mb>>
    PROVE  /\ prestr' = prestr /\ appstr' = appstr /\ prelen' = prelen /\ applen' = applen
           /\ prepend_mb'.length = prepend_mb.length
  BY DEF prestr, appstr, prelen, applen

LEMMA MarkableKept ==
    ASSUME UNCHANGED <<styles, text>>
    PROVE  Markable' <=> Markable
<1>1. Blanks' = Blanks
  BY Zenon DEF Blanks
<1>2. \A r : InWords(r)' <=> InWords(r)
  BY Zenon DEF InWords
<1>3. \A r : Close(r)' <=> Close(r)
  BY <1>1, Zenon DEF Close
<1>4. \A i, j : Short(i, j)' <=> Short(i, j)
  BY Zenon DEF Short
<1>5. styles' = styles
  OBVIOUS
<1> QED
  BY <1>1, <1>2, <1>3, <1>4, <1>5, Zenon DEF Markable

LEMMA RoomKept ==
    ASSUME UNCHANGED <<opt, prepend_mb, append_mb, styles, text>>
    PROVE  Room' <=> Room
<1>1. /\ prestr' = prestr /\ appstr' = appstr /\ prelen' = prelen /\ applen' = applen
      /\ prepend_mb'.length = prepend_mb.length
  BY StringsKept
<1>2. NoMargins' <=> NoMargins
  BY <1>1 DEF NoMargins
<1>3. Fits' <=> Fits
  BY <1>1 DEF Fits
<1>4. Apart' <=> Apart
  BY DEF Apart
<1>5. Markable' <=> Markable
  BY MarkableKept
<1>6. styles' = styles
  OBVIOUS
<1> QED
  BY <1>2, <1>3, <1>4, <1>5, <1>6 DEF Room

LEMMA MarkableIs ==
    ASSUME Markable, NEW i \in 1..Len(styles),
           NEW g \in 1..Len(text), Gap(g)
    PROVE  /\ styles[i].so < Len(text) /\ ~Gap(styles[i].so + 1)
           /\ styles[i].eo > 0 => ~Gap(styles[i].eo)
           /\ \A a, b \in (styles[i].so + 1)..(styles[i].eo) :
                (\A c \in a..b : c \in 1..Len(text) /\ Gap(c)) => b - a <= Markup(styles[i])
<1>1. g \in Blanks
  BY Zenon DEF Blanks, Gap
<1>2. InWords(styles[i]) /\ Close(styles[i])
  BY <1>1 DEF Markable
<1>3. \A t : text[t] = "x" => ~Gap(t)
  BY Zenon DEF Gap
<1>4. styles[i].so < Len(text) /\ ~Gap(styles[i].so + 1) /\ (styles[i].eo > 0 => ~Gap(styles[i].eo))
  BY <1>2, <1>3, Zenon DEF InWords
<1>5. ASSUME NEW a \in (styles[i].so + 1)..(styles[i].eo), NEW b \in (styles[i].so + 1)..(styles[i].eo),
             \A c \in a..b : c \in 1..Len(text) /\ Gap(c)
      PROVE  b - a <= Markup(styles[i])
  <2>1. a..b \subseteq Blanks
    BY <1>5, Zenon DEF Blanks, Gap
  <2> QED
    BY <1>2, <2>1, Zenon DEF Close
<1> QED
  BY <1>4, <1>5, Zenon

LEMMA ShortIs ==
    ASSUME Markable, NEW i \in 1..Len(styles), NEW j \in 1..Len(styles), i # j,
           SameRange(styles[i], styles[j])
    PROVE  styles[i].eo - styles[i].so <= Markup(styles[i])
  BY Zenon DEF Markable, Short

-----------------------------------------------------------------------------
(* What has been printed so far, and the line.                               *)
LineStarts(b, c) == c = 0 \/ b[c].kind = "newline"

OnLine(b, c, d, j, k) ==
    /\ \A p \in (c + 1)..d :
         /\ b[p].kind \in {"char", "pre", "post"}
         /\ b[p].kind = "char" => b[p].of \in (j + 1)..k
    /\ \E p \in (c + 1)..d : b[p].kind = "char"

Printed(c, m) ==
    /\ Rest(buf, c, m, Len(text)) /\ Pieces(buf, c) /\ LineStarts(buf, c)
    /\ prelen = prepend_mb.length => Columns(buf, c, opt.width)

OpenLine(j, k) ==
    /\ j \in Nat /\ k \in Nat /\ j < k
    /\ Rest(buf, ep, k + deleted, Len(text)) /\ \A i \in (k + 1)..(k + deleted) : Gap(i)
    /\ Pieces(buf, ep) /\ LineStarts(buf, sp)
    /\ prelen = prepend_mb.length => Columns(buf, sp, opt.width)
    /\ OnLine(buf, sp, ep, j, k)
    /\ k - j <= width - (IF ep < len THEN applen ELSE 0)

(* A line from c to d shows the characters from j to k, and nothing else.    *)
Spans(c, d, j, k) == k - j = d - c

LEMMA PiecesGrow ==
    ASSUME NEW b, NEW c \in Nat, NEW d \in Nat, NEW j \in Nat, c <= d, Pieces(b, c), LineStarts(b, c),
           \A p \in (c + 1)..d : b[p].kind = "char" /\ b[p].of = j + (p - c)
    PROVE  Pieces(b, d)
<1> SUFFICES ASSUME NEW p \in 1..d, NEW q \in 1..d, p < q, b[p].kind = "char", b[q].kind = "char"
             PROVE  \/ \E r \in p..q : b[r].kind = "newline"
                    \/ \A i \in (b[p].of)..(b[q].of) :
                         \E r \in p..q : b[r].kind = "char" /\ b[r].of = i
  BY DEF Pieces
<1>1. CASE q <= c
  <2>1. p \in 1..c /\ q \in 1..c
    BY <1>1
  <2> QED
    BY <2>1 DEF Pieces
<1>2. CASE p <= c /\ c < q
  <2>1. c \in p..q /\ c # 0
    BY <1>2
  <2> QED
    BY <2>1 DEF LineStarts
<1>3. CASE c < p
  <2>1. p \in (c + 1)..d /\ q \in (c + 1)..d
    BY <1>3
  <2>2. b[p].of = j + (p - c) /\ b[q].of = j + (q - c)
    BY <2>1
  <2>3. ASSUME NEW i \in (j + (p - c))..(j + (q - c))
        PROVE  \E r \in p..q : b[r].kind = "char" /\ b[r].of = i
    <3> DEFINE r == c + (i - j)
    <3>1. r \in p..q /\ r \in (c + 1)..d /\ j + (r - c) = i
      BY <2>1
    <3> HIDE DEF r
    <3> QED
      BY <3>1
  <2> QED
    BY <2>2, <2>3
<1> QED
  BY <1>1, <1>2, <1>3

LEMMA SamePieces ==
    ASSUME NEW b, NEW after, NEW c \in Nat, Pieces(b, c), \A p \in 1..c : after[p] = b[p]
    PROVE  Pieces(after, c)
<1> SUFFICES ASSUME NEW p \in 1..c, NEW q \in 1..c, p < q,
                    after[p].kind = "char", after[q].kind = "char"
             PROVE  \/ \E r \in p..q : after[r].kind = "newline"
                    \/ \A i \in (after[p].of)..(after[q].of) :
                         \E r \in p..q : after[r].kind = "char" /\ after[r].of = i
  BY DEF Pieces
<1>1. after[p] = b[p] /\ after[q] = b[q] /\ \A r \in p..q : after[r] = b[r]
  <2>1. \A r \in p..q : r \in 1..c
    OBVIOUS
  <2> QED
    BY <2>1
<1>2. \/ \E r \in p..q : b[r].kind = "newline"
      \/ \A i \in (b[p].of)..(b[q].of) :
           \E r \in p..q : b[r].kind = "char" /\ b[r].of = i
  BY <1>1 DEF Pieces
<1> QED
  BY <1>1, <1>2

LEMMA LinedCut ==
    ASSUME WrapTyped, Complete, Small, Sized, Limits, Fits, CutLine,
           NEW j, Printed(sp, j)
    PROVE  \E k : OpenLine(j, k)' /\ Spans(sp, ep', j, k)
<1>1. PICK e \in Nat, n \in Nat :
        /\ Cut(e, n)
        /\ \/ n = 0 /\ buf' = buf
           \/ e + n < len /\ \A u \in e..(e + n - 1) : Blank(u)
        /\ e = FirstEnd \/ (n = 0 /\ e = WordEnd(FirstEnd) /\ FirstEnd < len)
  BY CutIs
<1>2. /\ pc = "cut" /\ ep' = e /\ len' = len - n /\ deleted' = n
      /\ buf' = strbuf_delete(buf, e, e + n)
      /\ UNCHANGED <<opt, prepend_mb, append_mb, text, sp, width>>
  BY <1>1 DEF CutLine, Cut, setup
<1>3. /\ sp < e /\ e <= len - n /\ e + n <= len
      /\ e - sp <= width - (IF e < len - n THEN applen ELSE 0)
  BY <1>1, <1>2, CutBounds
<1>4. /\ len \in Nat /\ sp \in Nat /\ buf \in Seq(Cells) /\ len = Len(buf) /\ Len(buf) < Modulus
      /\ Len(text) \in Nat
  BY <1>2, ModulusFacts DEF WrapTyped, Complete, Small
<1>5. /\ j \in 0..Len(text) /\ sp \in 0..Len(buf) /\ Len(buf) - sp = Len(text) - j
      /\ \A p \in (sp + 1)..Len(buf) : buf[p].kind = "char" /\ buf[p].of = j + (p - sp)
      /\ Pieces(buf, sp) /\ LineStarts(buf, sp)
  BY DEF Printed, Rest
<1>0. j + (e - sp) \in Nat
  BY <1>3, <1>4, <1>5
<1>21. PICK k \in Nat : k = j + (e - sp)
  BY <1>0
<1>6. k \in Nat /\ j \in Nat /\ j < k /\ k + n \in 0..Len(text) /\ k - j = e - sp
  BY <1>3, <1>4, <1>5, <1>21
<1>7. /\ Len(buf') = Len(buf) - n
      /\ \A p \in 1..e : buf'[p] = buf[p]
      /\ \A p \in (e + 1)..Len(buf') : p + n \in (sp + 1)..Len(buf) /\ buf'[p] = buf[p + n]
  <2>1. CASE n = 0 /\ buf' = buf
    BY <1>3, <1>4, <2>1
  <2>2. CASE e + n < len
    <3>1. PICK q \in Nat : q = e + n
      OBVIOUS
    <3>2. e <= q /\ q <= Len(buf) /\ q - e = n
      BY <1>4, <2>2, <3>1
    <3>3. buf' = strbuf_delete(buf, e, q)
      BY <1>2, <3>1
    <3>4. /\ Len(buf') = Len(buf) - (q - e)
          /\ \A i \in 1..e : buf'[i] = buf[i]
          /\ \A i \in (q + 1)..Len(buf) : buf'[i - (q - e)] = buf[i]
      <4>1. LET after == strbuf_delete(buf, e, q)
            IN  /\ after \in Seq(Cells) /\ Len(after) = Len(buf) - (q - e)
                /\ \A i \in 1..e : after[i] = buf[i]
                /\ \A i \in (q + 1)..Len(buf) : after[i - (q - e)] = buf[i]
        <5>1. PICK b \in Seq(Cells) : b = buf
          BY <1>4
        <5>2. e <= q /\ q <= Len(b) /\ Len(b) < Modulus
          BY <1>4, <3>2, <5>1
        <5> DEFINE a == strbuf_delete(b, e, q)
        <5>3. /\ a \in Seq(Cells) /\ Len(a) = Len(b) - (q - e)
              /\ \A i \in 1..e : a[i] = b[i]
              /\ \A i \in (q + 1)..Len(b) : a[i - (q - e)] = b[i]
          BY <5>2, DeleteUndoes
        <5> QED
          BY <5>1, <5>3
      <4> QED
        BY <3>3, <4>1
    <3>5. ASSUME NEW p \in (e + 1)..Len(buf')
          PROVE  p + n \in (sp + 1)..Len(buf) /\ buf'[p] = buf[p + n]
      <4>1. /\ p + n \in (q + 1)..Len(buf) /\ p + n \in (sp + 1)..Len(buf)
            /\ (p + n) - (q - e) = p
        <5>1. Len(buf') = Len(buf) - n
          BY <3>2, <3>4
        <5>2. p \in (e + 1)..(Len(buf) - n) /\ Len(buf) \in Nat /\ q - e = n
          BY <1>4, <3>2, <5>1
        <5> QED
          BY <1>3, <1>4, <3>1, <5>2
      <4> QED
        BY <3>4, <4>1
    <3> QED
      BY <3>2, <3>4, <3>5
  <2> QED
    BY <1>1, <2>1, <2>2
<1>8. Rest(buf', e, k + n, Len(text))
  <2>1. ASSUME NEW p \in (e + 1)..Len(buf')
        PROVE  buf'[p].kind = "char" /\ buf'[p].of = (k + n) + (p - e)
    <3>1. p + n \in (sp + 1)..Len(buf) /\ buf'[p] = buf[p + n]
      BY <1>7
    <3>2. j + ((p + n) - sp) = (k + n) + (p - e)
      BY <1>3, <1>4, <1>5, <1>21
    <3> QED
      BY <1>5, <3>1, <3>2
  <2>2. e \in 0..Len(buf') /\ Len(buf') - e = Len(text) - (k + n)
    BY <1>3, <1>4, <1>5, <1>7, <1>21
  <2> QED
    BY <1>6, <2>1, <2>2 DEF Rest
<1>9. ASSUME NEW i \in (k + 1)..(k + n) PROVE Gap(i)
  <2> DEFINE u == e + (i - k) - 1
  <2>1. n # 0
    BY <1>6
  <2>2. \A v \in e..(e + n - 1) : Blank(v)
    BY <1>1, <2>1
  <2>3. u \in e..(e + n - 1) /\ u + 1 \in (sp + 1)..Len(buf) /\ j + ((u + 1) - sp) = i
    BY <1>3, <1>4, <1>5, <1>21
  <2> HIDE DEF u
  <2>4. Gap(buf[u + 1].of)
    BY <2>2, <2>3, BlankIs, Zenon
  <2>5. buf[u + 1].of = i
    BY <1>5, <2>3
  <2> QED
    BY <2>4, <2>5
<1>10. \A p \in (sp + 1)..e : buf'[p].kind = "char" /\ buf'[p].of = j + (p - sp)
  <2>1. \A p \in (sp + 1)..e : p \in 1..e /\ p \in (sp + 1)..Len(buf)
    BY <1>3, <1>4
  <2> QED
    BY <1>5, <1>7, <2>1
<1>11. \A p \in 1..sp : buf'[p] = buf[p]
  <2>1. \A p \in 1..sp : p \in 1..e
    BY <1>3, <1>4
  <2> QED
    BY <1>7, <2>1
<1>12. Pieces(buf', sp)
  BY <1>4, <1>5, <1>11, SamePieces
<1>13. LineStarts(buf', sp)
  <2>1. sp = 0 \/ sp \in 1..sp
    BY <1>4
  <2> QED
    BY <1>5, <1>11, <2>1 DEF LineStarts
<1>14. Pieces(buf', e)
  <2>1. sp <= e /\ j \in Nat
    BY <1>3, <1>4, <1>5
  <2> QED
    BY <1>4, <1>10, <1>12, <1>13, <2>1, PiecesGrow, Zenon
<1>15. OnLine(buf', sp, e, j, k)
  <2>1. \A p \in (sp + 1)..e : j + (p - sp) \in (j + 1)..k
    BY <1>3, <1>4, <1>5, <1>21
  <2>2. sp + 1 \in (sp + 1)..e
    BY <1>3, <1>4
  <2> QED
    BY <1>10, <2>1, <2>2 DEF OnLine
<1>16. prelen = prepend_mb.length => Columns(buf', sp, opt.width)
  BY <1>4, <1>11, SameColumns DEF Printed
<1>17. /\ \A i : Gap(i)' <=> Gap(i)
       /\ prelen' = prelen /\ applen' = applen /\ prepend_mb'.length = prepend_mb.length
  BY <1>2, GapKept, StringsKept
<1>18. k - j <= width - (IF e < len - n THEN applen ELSE 0)
  BY <1>3, <1>6
<1>19. OpenLine(j, k)'
  <2>1. Rest(buf, ep, k + deleted, Len(text))'
    BY <1>2, <1>8 DEF Rest
  <2>2. (\A i \in (k + 1)..(k + deleted) : Gap(i))'
    BY <1>2, <1>9, <1>17
  <2>3. Pieces(buf, ep)'
    BY <1>2, <1>14 DEF Pieces
  <2>4. LineStarts(buf, sp)'
    BY <1>2, <1>13 DEF LineStarts
  <2>5. (prelen = prepend_mb.length => Columns(buf, sp, opt.width))'
    BY <1>2, <1>16, <1>17 DEF Columns, ColumnsAre
  <2>6. OnLine(buf, sp, ep, j, k)'
    BY <1>2, <1>15 DEF OnLine
  <2>7. (k - j <= width - (IF ep < len THEN applen ELSE 0))'
    BY <1>2, <1>17, <1>18
  <2> QED
    BY <1>6, <2>1, <2>2, <2>3, <2>4, <2>5, <2>6, <2>7 DEF OpenLine
<1> QED
  BY <1>2, <1>6, <1>19 DEF Spans

LEMMA InsertBehind ==
    ASSUME NEW C, NEW b \in Seq(C), NEW new \in Seq(C), NEW q, NEW after,
           Inserted(after, b, q, new), NEW c \in Nat, c <= q
    PROVE  \A p \in 1..c : after[p] = b[p]
<1>1. q \in 0..Len(b) /\ Len(b) \in Nat
  BY InsertMoves
<1>2. \A p \in 1..c : p \in 1..q
  BY <1>1
<1> QED
  BY <1>2 DEF Inserted

LEMMA SameStart ==
    ASSUME NEW b, NEW after, NEW c \in Nat, LineStarts(b, c), \A p \in 1..c : after[p] = b[p]
    PROVE  LineStarts(after, c)
<1>1. c = 0 \/ c \in 1..c
  OBVIOUS
<1> QED
  BY <1>1 DEF LineStarts

Marking(new) == \A r \in 1..Len(new) : new[r].kind \in {"pre", "post"}

LEMMA InsertLine ==
    ASSUME NEW C, NEW b \in Seq(C), NEW new \in Seq(C), NEW q, NEW after,
           Inserted(after, b, q, new), Marking(new), NEW c \in Nat, NEW d \in 0..Len(b), c <= q, q <= d,
           NEW j, NEW k, OnLine(b, c, d, j, k)
    PROVE  OnLine(after, c, d + Len(new), j, k)
<1> DEFINE g(p) == Moved(p, q, Len(new))
<1>1. /\ Len(b) \in Nat /\ Len(new) \in Nat /\ q \in Int /\ Len(after) = Len(b) + Len(new)
      /\ d \in Int
      /\ \A p \in 1..Len(b) : g(p) \in 1..Len(after) /\ after[g(p)] = b[p]
      /\ \A i \in 1..Len(after) :
           \/ \E p \in 1..Len(b) : i = g(p)
           \/ \E r \in 1..Len(new) : after[i] = new[r]
  <2>1. /\ Len(b) \in Nat /\ Len(new) \in Nat /\ Len(after) = Len(b) + Len(new) /\ q \in 0..Len(b)
        /\ \A p \in 1..Len(b) : /\ Moved(p, q, Len(new)) \in 1..Len(after)
                              /\ after[Moved(p, q, Len(new))] = b[p]
        /\ \A i \in 1..Len(after) :
             \/ \E p \in 1..Len(b) : i = Moved(p, q, Len(new))
             \/ \E r \in 1..Len(new) : after[i] = new[r]
    <3>1. Len(b) \in Nat /\ Len(new) \in Nat /\ Len(after) = Len(b) + Len(new) /\ q \in 0..Len(b)
      BY InsertMoves
    <3>2. \A p \in 1..Len(b) : /\ Moved(p, q, Len(new)) \in 1..Len(after)
                              /\ after[Moved(p, q, Len(new))] = b[p]
      BY InsertMoves
    <3>3. \A i \in 1..Len(after) :
             \/ \E p \in 1..Len(b) : i = Moved(p, q, Len(new))
             \/ \E r \in 1..Len(new) : after[i] = new[r]
      BY InsertMoves
    <3> QED
      BY <3>1, <3>2, <3>3
  <2>2. q \in Int /\ d \in Int
    BY <2>1
  <2> QED
    BY <2>1, <2>2
<1>2. \A p \in Int : /\ g(p) \in Int /\ g(p) >= p /\ g(p) <= p + Len(new)
                     /\ p <= c => g(p) = p
                     /\ p > d => g(p) > d + Len(new)
  BY <1>1 DEF Moved
<1> HIDE DEF g
<1>3. ASSUME NEW i \in (c + 1)..(d + Len(new))
      PROVE  /\ after[i].kind \in {"char", "pre", "post"}
             /\ after[i].kind = "char" => after[i].of \in (j + 1)..k
  <2>1. i \in 1..Len(after)
    BY <1>1
  <2>2. CASE \E r \in 1..Len(new) : after[i] = new[r]
    <3>1. PICK r \in 1..Len(new) : after[i] = new[r]
      BY <2>2
    <3> QED
      BY <3>1 DEF Marking
  <2>3. CASE \E p \in 1..Len(b) : i = g(p)
    <3>1. PICK p \in 1..Len(b) : i = g(p)
      BY <2>3
    <3>2. p \in (c + 1)..d
      <4>1. p \in Int /\ i \in Int /\ c < i /\ i <= d + Len(new)
        BY <1>1, <3>1
      <4>2. /\ p <= c => i = p
            /\ p > d => i > d + Len(new)
        BY <1>2, <3>1, <4>1
      <4> QED
        BY <1>1, <4>1, <4>2
    <3>3. after[i] = b[p]
      BY <1>1, <3>1
    <3> QED
      BY <3>2, <3>3 DEF OnLine
  <2> QED
    BY <1>1, <2>1, <2>2, <2>3
<1>4. \E i \in (c + 1)..(d + Len(new)) : after[i].kind = "char"
  <2>1. PICK p \in (c + 1)..d : b[p].kind = "char"
    BY DEF OnLine
  <2>2. p \in Int /\ p \in 1..Len(b)
    BY <1>1
  <2>3. g(p) \in (c + 1)..(d + Len(new)) /\ after[g(p)] = b[p]
    <3>1. g(p) \in Int /\ g(p) >= p /\ g(p) <= p + Len(new)
      BY <1>2, <2>2
    <3>2. g(p) \in (c + 1)..(d + Len(new))
      BY <1>1, <2>1, <2>2, <3>1
    <3> QED
      BY <1>1, <2>2, <3>2
  <2> QED
    BY <2>1, <2>3
<1> QED
  BY <1>3, <1>4 DEF OnLine

LEMMA LinedMark ==
    ASSUME WrapTyped, Complete, Sized, MarkRange, NEW j, NEW k, OpenLine(j, k),
           Smaller(Unsigned(at_pre), Len(buf)) \in sp..ep,
           Smaller(Unsigned(at_post), Len(buf) + PreLen[rng.style]) \in sp..(ep + PreLen[rng.style])
    PROVE  OpenLine(j, k)'
<1> DEFINE st == rng.style
           q1 == Smaller(Unsigned(at_pre), Len(buf))
           q2 == Smaller(Unsigned(at_post), Len(buf) + PreLen[rng.style])
<1>1. /\ pc = "mark" /\ node <= Len(styles)
      /\ len' = len + PreLen[st] + PostLen[st] /\ ep' = ep + PreLen[st] + PostLen[st]
      /\ UNCHANGED <<text, opt, prepend_mb, append_mb, width, sp, deleted>>
  BY DEF MarkRange, setup
<1>2. st \in Styles
  BY <1>1, RangeTyped
<1>3. /\ Pre(st) \in Seq(Marks) /\ Post(st) \in Seq(Marks)
      /\ Pre(st) \in Seq(Cells) /\ Post(st) \in Seq(Cells) /\ Quiet(Pre(st)) /\ Quiet(Post(st))
      /\ Len(Pre(st)) = PreLen[st] /\ Len(Post(st)) = PostLen[st]
      /\ PreLen[st] \in Nat /\ PostLen[st] \in Nat
  BY <1>2, MarkTyped, MarksAreCells, MarksQuiet
<1>23. Marking(Pre(st)) /\ Marking(Post(st))
  <2>1. /\ Pre(st) \in Seq(Marks) /\ \A r \in 1..Len(Pre(st)) : Pre(st)[r] \in Marks
        /\ Post(st) \in Seq(Marks) /\ \A r \in 1..Len(Post(st)) : Post(st)[r] \in Marks
    BY <1>3
  <2> QED
    BY <2>1 DEF Marking, Marks
<1>4. /\ buf \in Seq(Cells) /\ len \in Nat /\ sp \in Nat /\ ep \in Nat /\ Len(text) \in Nat
      /\ len = Len(buf) /\ sp < ep /\ ep <= len
  BY <1>1 DEF WrapTyped, Complete, Sized
<1>5. PICK mark \in Seq(Cells) :
        /\ Inserted(mark, buf, q1, Pre(st))
        /\ Inserted(buf', mark, Smaller(Unsigned(at_post), Len(mark)), Post(st))
  BY MarkIs
<1>6. Len(mark) = Len(buf) + PreLen[st] /\ Inserted(buf', mark, q2, Post(st))
  <2>1. Len(mark) = Len(buf) + PreLen[st]
    BY <1>3, <1>5 DEF Inserted
  <2> QED
    BY <1>5, <2>1
<1>7. q1 \in sp..ep /\ q2 \in sp..(ep + PreLen[st])
  OBVIOUS
<1> HIDE DEF q1, q2, st
<1>8. PICK m \in Nat, n \in Nat : m = PreLen[st] /\ n = PostLen[st]
  BY <1>3
<1>9. /\ sp <= q1 /\ q1 <= ep /\ sp <= q2 /\ q2 <= ep + m
      /\ ep \in 0..Len(buf) /\ ep + m \in 0..Len(mark) /\ ep' = (ep + m) + n /\ len' = (len + m) + n
  <2>1. len' = (len + m) + n /\ ep' = (ep + m) + n
    BY <1>1, <1>8
  <2>2. q1 \in sp..ep /\ q2 \in sp..(ep + m)
    <3>1. q1 \in sp..ep /\ q2 \in sp..(ep + PreLen[st])
      BY <1>7
    <3> QED
      BY <1>8, <3>1
  <2>3. Len(mark) = Len(buf) + m
    BY <1>6, <1>8
  <2> HIDE DEF q1, q2
  <2> QED
    BY <1>4, <2>1, <2>2, <2>3
<1>10. /\ j \in Nat /\ k \in Nat /\ j < k
       /\ Rest(buf, ep, k + deleted, Len(text)) /\ \A i \in (k + 1)..(k + deleted) : Gap(i)
       /\ Pieces(buf, ep) /\ LineStarts(buf, sp)
       /\ prelen = prepend_mb.length => Columns(buf, sp, opt.width)
       /\ OnLine(buf, sp, ep, j, k)
       /\ k - j <= width - (IF ep < len THEN applen ELSE 0)
  BY DEF OpenLine
<1>11. /\ Rest(mark, ep + m, k + deleted, Len(text)) /\ Pieces(mark, ep + m)
       /\ OnLine(mark, sp, ep + m, j, k) /\ \A p \in 1..sp : mark[p] = buf[p]
  <2>1. Rest(mark, ep + m, k + deleted, Len(text))
    BY <1>3, <1>4, <1>5, <1>8, <1>9, <1>10, InsertRest
  <2>2. Pieces(mark, ep + m)
    BY <1>3, <1>4, <1>5, <1>8, <1>9, <1>10, InsertPieces
  <2>3. OnLine(mark, sp, ep + m, j, k)
    BY <1>3, <1>4, <1>5, <1>8, <1>9, <1>10, <1>23, InsertLine
  <2>4. \A p \in 1..sp : mark[p] = buf[p]
    <3>1. /\ buf \in Seq(Cells) /\ Pre(st) \in Seq(Cells)
          /\ Inserted(mark, buf, q1, Pre(st)) /\ sp \in Nat /\ sp <= q1
      BY <1>3, <1>4, <1>5, <1>9
    <3> QED
      BY <3>1, InsertBehind
  <2> QED
    BY <2>1, <2>2, <2>3, <2>4
<1>12. /\ Rest(buf', ep', k + deleted, Len(text)) /\ Pieces(buf', ep')
       /\ OnLine(buf', sp, ep', j, k) /\ \A p \in 1..sp : buf'[p] = mark[p]
  <2>1. Rest(buf', (ep + m) + n, k + deleted, Len(text))
    BY <1>3, <1>4, <1>6, <1>8, <1>9, <1>11, InsertRest
  <2>2. Pieces(buf', (ep + m) + n)
    BY <1>3, <1>4, <1>6, <1>8, <1>9, <1>11, InsertPieces
  <2>3. OnLine(buf', sp, (ep + m) + n, j, k)
    BY <1>3, <1>4, <1>6, <1>8, <1>9, <1>11, <1>23, InsertLine
  <2>4. \A p \in 1..sp : buf'[p] = mark[p]
    <3>1. /\ mark \in Seq(Cells) /\ Post(st) \in Seq(Cells)
          /\ Inserted(buf', mark, q2, Post(st)) /\ sp \in Nat /\ sp <= q2
      BY <1>3, <1>4, <1>6, <1>9
    <3> QED
      BY <3>1, InsertBehind
  <2>5. ep' = (ep + m) + n
    BY <1>9
  <2> QED
    BY <2>1, <2>2, <2>3, <2>4, <2>5
<1>13. \A p \in 1..sp : buf'[p] = buf[p]
  BY <1>11, <1>12
<1>14. LineStarts(buf', sp) /\ (prelen = prepend_mb.length => Columns(buf', sp, opt.width))
  BY <1>4, <1>10, <1>13, SameStart, SameColumns
<1>15. /\ \A i : Gap(i)' <=> Gap(i)
       /\ prelen' = prelen /\ applen' = applen /\ prepend_mb'.length = prepend_mb.length
  BY <1>1, GapKept, StringsKept
<1>16. (k - j <= width - (IF ep < len THEN applen ELSE 0))'
  <2>1. ep' < len' <=> ep < len
    BY <1>4, <1>9
  <2> QED
    BY <1>1, <1>10, <1>15, <2>1
<1>17. Rest(buf, ep, k + deleted, Len(text))'
  BY <1>1, <1>12 DEF Rest
<1>18. (\A i \in (k + 1)..(k + deleted) : Gap(i))'
  BY <1>1, <1>10, <1>15
<1>19. Pieces(buf, ep)'
  BY <1>12 DEF Pieces
<1>20. LineStarts(buf, sp)'
  BY <1>1, <1>14 DEF LineStarts
<1>21. (prelen = prepend_mb.length => Columns(buf, sp, opt.width))'
  BY <1>1, <1>14, <1>15 DEF Columns, ColumnsAre
<1>22. OnLine(buf, sp, ep, j, k)'
  BY <1>1, <1>12 DEF OnLine
<1> QED
  BY <1>10, <1>16, <1>17, <1>18, <1>19, <1>20, <1>21, <1>22 DEF OpenLine

-----------------------------------------------------------------------------
(* A line is finished: what repeats, its text and the newline are a line of  *)
(* the width at most.                                                        *)
(* What may show between c and d, and where it came from.                    *)
LineShows(b, c, d, R, P, A, j, k) ==
    /\ \A p \in (c + 1)..d :
         \/ b[p].kind \notin Visible
         \/ b[p].kind = "kept" /\ b[p].of \in 1..R
         \/ b[p].kind = "prepend" /\ b[p].of \in 1..P
         \/ b[p].kind = "char" /\ b[p].of \in (j + 1)..k
         \/ b[p].kind = "append" /\ b[p].of \in 1..A
    /\ \A p, q \in (c + 1)..d :
         p < q /\ b[p].kind \in Visible /\ b[p].kind = b[q].kind => b[p].of < b[q].of

Parts(after, b, s, e, kp, pr, ap, d) ==
    /\ d = Len(kp) + Len(pr) + e + Len(ap) + 1
    /\ \A i \in 1..Len(kp) : after[s + i] = kp[i]
    /\ \A i \in 1..Len(pr) : after[(s + Len(kp)) + i] = pr[i]
    /\ \A i \in (s + 1)..e : after[(Len(kp) + Len(pr)) + i] = b[i]
    /\ \A i \in 1..Len(ap) : after[(Len(kp) + Len(pr) + e) + i] = ap[i]
    /\ after[d].kind = "newline"
    /\ \A p, q \in (s + 1)..d :
         p < q /\ after[p].kind = "char" /\ after[q].kind = "char" => after[p].of < after[q].of

LEMMA ColumnsGrow ==
    ASSUME NEW b, NEW c \in Nat, NEW d \in Nat, c <= d, NEW w, Columns(b, c, w), LineStarts(b, c),
           NEW g, \A p \in (c + 1)..d : b[p].kind \in Visible => g[p] \in 1..w,
           \A p, q \in (c + 1)..d :
             p < q /\ b[p].kind \in Visible /\ b[q].kind \in Visible => g[p] # g[q]
    PROVE  Columns(b, d, w)
<1>1. PICK f \in [1..c -> Int] : ColumnsAre(f, b, c, w)
  BY DEF Columns
<1> DEFINE h == [p \in 1..d |-> IF p <= c THEN f[p] ELSE IF b[p].kind \in Visible THEN g[p] ELSE 0]
<1>2. \A p \in 1..d : p \in 1..c \/ p \in (c + 1)..d
  OBVIOUS
<1>3. /\ \A p \in 1..c : p \in 1..d /\ h[p] = f[p]
      /\ \A p \in (c + 1)..d : p \in 1..d /\ (b[p].kind \in Visible => h[p] = g[p])
  OBVIOUS
<1>4. h \in [1..d -> Int]
  BY <1>2
<1> HIDE DEF h
<1>5. ASSUME NEW p \in 1..d, b[p].kind \in Visible
      PROVE  h[p] \in 1..w
  BY <1>1, <1>2, <1>3, <1>5 DEF ColumnsAre
<1>6. ASSUME NEW p \in 1..d, b[p].kind \in Visible,
             NEW q \in 1..d, p < q, b[q].kind \in Visible, h[p] = h[q]
      PROVE  \E r \in p..q : b[r].kind = "newline"
  <2>1. CASE q \in 1..c
    <3>1. p \in 1..c
      BY <1>6, <2>1
    <3> QED
      BY <1>1, <1>3, <1>6, <2>1, <3>1 DEF ColumnsAre
  <2>2. CASE p \in (c + 1)..d
    <3>1. q \in (c + 1)..d
      BY <1>6, <2>2
    <3> QED
      BY <1>3, <1>6, <2>2, <3>1
  <2>3. CASE p \in 1..c /\ q \in (c + 1)..d
    <3>1. c \in p..q /\ c # 0
      BY <2>3
    <3> QED
      BY <3>1 DEF LineStarts
  <2> QED
    BY <1>2, <2>1, <2>2, <2>3
<1> QED
  BY <1>4, <1>5, <1>6 DEF Columns, ColumnsAre

LEMMA LineColumns ==
    ASSUME NEW b, NEW c \in Nat, NEW d \in Nat, c <= d, NEW w \in Int, Columns(b, c, w), LineStarts(b, c),
           NEW R \in Nat, NEW P \in Nat, NEW A \in Nat, NEW j \in Nat, NEW k \in Nat, j <= k,
           LineShows(b, c, d, R, P, A, j, k), R + P + (k - j) + A <= w
    PROVE  Columns(b, d, w)
<1> DEFINE g == [p \in (c + 1)..d |->
                   IF b[p].kind = "kept" THEN b[p].of
                   ELSE IF b[p].kind = "prepend" THEN R + b[p].of
                   ELSE IF b[p].kind = "char" THEN R + P + (b[p].of - j)
                   ELSE R + P + (k - j) + b[p].of]
<1>1. /\ \A p \in (c + 1)..d : b[p].kind = "kept" => g[p] = b[p].of
      /\ \A p \in (c + 1)..d : b[p].kind = "prepend" => g[p] = R + b[p].of
      /\ \A p \in (c + 1)..d : b[p].kind = "char" => g[p] = R + P + (b[p].of - j)
      /\ \A p \in (c + 1)..d : b[p].kind = "append" => g[p] = R + P + (k - j) + b[p].of
  OBVIOUS
<1> HIDE DEF g
<1>2. ASSUME NEW p \in (c + 1)..d, b[p].kind \in Visible
      PROVE  \/ b[p].kind = "kept" /\ b[p].of \in Int /\ 1 <= g[p] /\ g[p] <= R /\ g[p] = b[p].of
             \/ /\ b[p].kind = "prepend" /\ b[p].of \in Int /\ R + 1 <= g[p] /\ g[p] <= R + P
                /\ g[p] = R + b[p].of
             \/ /\ b[p].kind = "char" /\ b[p].of \in Int
                /\ R + P + 1 <= g[p] /\ g[p] <= R + P + (k - j) /\ g[p] = R + P + (b[p].of - j)
             \/ /\ b[p].kind = "append" /\ b[p].of \in Int
                /\ R + P + (k - j) + 1 <= g[p] /\ g[p] <= R + P + (k - j) + A
                /\ g[p] = R + P + (k - j) + b[p].of
  <2>1. \/ b[p].kind = "kept" /\ b[p].of \in 1..R
        \/ b[p].kind = "prepend" /\ b[p].of \in 1..P
        \/ b[p].kind = "char" /\ b[p].of \in (j + 1)..k
        \/ b[p].kind = "append" /\ b[p].of \in 1..A
    BY <1>2 DEF LineShows
  <2> QED
    BY <1>1, <2>1
<1>3. ASSUME NEW p \in (c + 1)..d, b[p].kind \in Visible
      PROVE  g[p] \in 1..w
  <2>1. g[p] \in Int
    BY <1>2, <1>3
  <2> QED
    BY <1>2, <1>3, <2>1
<1>4. ASSUME NEW p \in (c + 1)..d, NEW q \in (c + 1)..d, p < q,
             b[p].kind \in Visible, b[q].kind \in Visible
      PROVE  g[p] # g[q]
  <2>1. CASE b[p].kind = b[q].kind
    <3>1. b[p].of < b[q].of
      BY <1>4, <2>1 DEF LineShows
    <3> QED
      BY <1>2, <1>4, <2>1, <3>1
  <2>2. CASE b[p].kind # b[q].kind
    BY <1>2, <1>4, <2>2
  <2> QED
    BY <2>1, <2>2
<1> QED
  BY <1>3, <1>4, ColumnsGrow

Woven(after, b, s, e, x, y) ==
    /\ \A p \in 1..s : after[p] = b[p]
    /\ \A i \in 1..Len(y) : after[s + i] = y[i]
    /\ \A i \in (s + 1)..e : after[Len(y) + i] = b[i]
    /\ \A i \in 1..Len(x) : after[(Len(y) + e) + i] = x[i]

LEMMA Assembled ==
    ASSUME NEW C, NEW b \in Seq(C), NEW x \in Seq(C), NEW y \in Seq(C), NEW first \in Seq(C), NEW after,
           NEW s \in Nat, NEW e \in Nat, s <= e, e <= Len(b),
           Inserted(first, b, e, x), Inserted(after, first, s, y)
    PROVE  Woven(after, b, s, e, x, y)
<1>1. Len(b) \in Nat /\ Len(x) \in Nat /\ Len(y) \in Nat /\ Len(first) = Len(b) + Len(x)
  BY DEF Inserted
<1>2. ASSUME NEW p \in 1..s PROVE after[p] = b[p]
  <2>1. p \in 1..e
    OBVIOUS
  <2> QED
    BY <2>1 DEF Inserted
<1>3. \A i \in 1..Len(y) : after[s + i] = y[i]
  BY DEF Inserted
<1>4. ASSUME NEW i \in (s + 1)..e PROVE after[Len(y) + i] = b[i]
  <2>1. i \in 1..e /\ i \in (s + 1)..Len(first)
    BY <1>1
  <2> QED
    BY <2>1 DEF Inserted
<1>5. ASSUME NEW i \in 1..Len(x) PROVE after[(Len(y) + e) + i] = x[i]
  <2>1. e + i \in (s + 1)..Len(first) /\ (Len(y) + e) + i = Len(y) + (e + i)
    BY <1>1
  <2>2. first[e + i] = x[i]
    BY DEF Inserted
  <2>3. after[Len(y) + (e + i)] = first[e + i]
    BY <2>1 DEF Inserted
  <2> QED
    BY <2>1, <2>2, <2>3
<1> QED
  BY <1>2, <1>3, <1>4, <1>5 DEF Woven

LEMMA LineLaid ==
    ASSUME NEW b, NEW after, NEW s \in Nat, NEW e \in Nat, s <= e, NEW j \in Nat, NEW k \in Nat,
           OnLine(b, s, e, j, k),
           NEW R \in Nat, NEW P \in Nat, NEW A \in Nat,
           NEW kp, NEW pr, NEW ap,
           Shows(kp, "kept", R), Shows(pr, "prepend", P), Shows(ap, "append", A),
           NEW d \in Nat, Parts(after, b, s, e, kp, pr, ap, d)
    PROVE  LineShows(after, s, d, R, P, A, j, k)
<1>0. PICK K \in Nat, M \in Nat, N \in Nat :
        K = Len(kp) /\ M = Len(pr) /\ N = Len(ap)
  BY DEF Shows
<1>8. /\ d = K + M + e + N + 1
      /\ \A i \in 1..K : after[s + i] = kp[i]
      /\ \A i \in 1..M : after[(s + K) + i] = pr[i]
      /\ \A i \in (s + 1)..e : after[(K + M) + i] = b[i]
      /\ \A i \in 1..N : after[(K + M + e) + i] = ap[i]
      /\ after[d].kind = "newline"
      /\ \A p, q \in (s + 1)..d :
           p < q /\ after[p].kind = "char" /\ after[q].kind = "char" => after[p].of < after[q].of
  BY <1>0 DEF Parts
<1>1. /\ \A p \in 1..K : /\ kp[p].kind \in {"pre", "post", "kept"}
                         /\ kp[p].kind = "kept" => kp[p].of \in 1..R
      /\ \A p, q \in 1..K : p < q /\ kp[p].kind = "kept" /\ kp[q].kind = "kept" => kp[p].of < kp[q].of
  BY <1>0 DEF Shows
<1>2. /\ \A p \in 1..M : /\ pr[p].kind \in {"pre", "post", "prepend"}
                         /\ pr[p].kind = "prepend" => pr[p].of \in 1..P
      /\ \A p, q \in 1..M :
           p < q /\ pr[p].kind = "prepend" /\ pr[q].kind = "prepend" => pr[p].of < pr[q].of
  BY <1>0 DEF Shows
<1>3. /\ \A p \in 1..N : /\ ap[p].kind \in {"pre", "post", "append"}
                         /\ ap[p].kind = "append" => ap[p].of \in 1..A
      /\ \A p, q \in 1..N :
           p < q /\ ap[p].kind = "append" /\ ap[q].kind = "append" => ap[p].of < ap[q].of
  BY <1>0 DEF Shows
<1>4. \A p \in (s + 1)..e : /\ b[p].kind \in {"char", "pre", "post"}
                            /\ b[p].kind = "char" => b[p].of \in (j + 1)..k
  BY DEF OnLine
<1>5. ASSUME NEW p \in (s + 1)..d
      PROVE  \/ p - s \in 1..K /\ after[p] = kp[p - s]
             \/ p - (s + K) \in 1..M /\ after[p] = pr[p - (s + K)]
             \/ p - (K + M) \in (s + 1)..e /\ after[p] = b[p - (K + M)]
             \/ p - (K + M + e) \in 1..N /\ after[p] = ap[p - (K + M + e)]
             \/ p = d
  <2>1. p \in Int /\ s < p /\ p <= K + M + e + N + 1
    BY <1>8
  <2>2. CASE p <= s + K
    <3>2. p - s \in Int /\ 1 <= p - s /\ p - s <= K /\ s + (p - s) = p
      BY <2>1, <2>2
    <3>1. p - s \in 1..K /\ s + (p - s) = p
      BY <3>2
    <3> QED
      BY <1>8, <3>1
  <2>3. CASE s + K < p /\ p <= s + K + M
    <3>1. p - (s + K) \in 1..M /\ (s + K) + (p - (s + K)) = p
      BY <2>1, <2>3
    <3> QED
      BY <1>8, <3>1
  <2>4. CASE s + K + M < p /\ p <= K + M + e
    <3>1. p - (K + M) \in (s + 1)..e /\ (K + M) + (p - (K + M)) = p
      BY <2>1, <2>4
    <3> QED
      BY <1>8, <3>1
  <2>5. CASE K + M + e < p /\ p <= K + M + e + N
    <3>1. p - (K + M + e) \in 1..N /\ (K + M + e) + (p - (K + M + e)) = p
      BY <2>1, <2>5
    <3> QED
      BY <1>8, <3>1
  <2>6. p <= K + M + e + N \/ p = d
    BY <1>8, <2>1
  <2> QED
    BY <2>1, <2>2, <2>3, <2>4, <2>5, <2>6
<1>6. ASSUME NEW p \in (s + 1)..d
      PROVE  \/ after[p].kind \notin Visible
             \/ /\ after[p].kind = "kept" /\ after[p].of \in 1..R
                /\ p - s \in 1..K /\ after[p] = kp[p - s]
             \/ /\ after[p].kind = "prepend" /\ after[p].of \in 1..P
                /\ p - (s + K) \in 1..M /\ after[p] = pr[p - (s + K)]
             \/ after[p].kind = "char" /\ after[p].of \in (j + 1)..k
             \/ /\ after[p].kind = "append" /\ after[p].of \in 1..A
                /\ p - (K + M + e) \in 1..N /\ after[p] = ap[p - (K + M + e)]
  <2>1. CASE p - s \in 1..K /\ after[p] = kp[p - s]
    BY <1>1, <2>1 DEF Visible
  <2>2. CASE p - (s + K) \in 1..M /\ after[p] = pr[p - (s + K)]
    BY <1>2, <2>2 DEF Visible
  <2>3. CASE p - (K + M) \in (s + 1)..e /\ after[p] = b[p - (K + M)]
    BY <1>4, <2>3 DEF Visible
  <2>4. CASE p - (K + M + e) \in 1..N /\ after[p] = ap[p - (K + M + e)]
    BY <1>3, <2>4 DEF Visible
  <2>5. CASE p = d
    BY <1>8, <2>5 DEF Visible
  <2> QED
    BY <1>5, <2>1, <2>2, <2>3, <2>4, <2>5
<1>7. ASSUME NEW p \in (s + 1)..d, NEW q \in (s + 1)..d, p < q,
             after[p].kind \in Visible, after[p].kind = after[q].kind
      PROVE  after[p].of < after[q].of
  <2>0. p \in Int /\ q \in Int
    OBVIOUS
  <2>1. CASE after[p].kind = "kept"
    <3>1. /\ p - s \in 1..K /\ after[p] = kp[p - s]
          /\ q - s \in 1..K /\ after[q] = kp[q - s]
      BY <1>6, <1>7, <2>1
    <3>2. p - s < q - s
      BY <1>7, <2>0
    <3>3. PICK u \in 1..K, v \in 1..K : u < v /\ after[p] = kp[u] /\ after[q] = kp[v]
      BY <3>1, <3>2
    <3>4. kp[u].kind = "kept" /\ kp[v].kind = "kept"
      BY <1>7, <2>1, <3>3
    <3>5. kp[u].of < kp[v].of
      BY <1>1, <3>3, <3>4
    <3> QED
      BY <3>3, <3>5
  <2>2. CASE after[p].kind = "prepend"
    <3>1. /\ p - (s + K) \in 1..M /\ after[p] = pr[p - (s + K)]
          /\ q - (s + K) \in 1..M /\ after[q] = pr[q - (s + K)]
      BY <1>6, <1>7, <2>2
    <3>2. p - (s + K) < q - (s + K)
      BY <1>7, <2>0
    <3>3. PICK u \in 1..M, v \in 1..M : u < v /\ after[p] = pr[u] /\ after[q] = pr[v]
      BY <3>1, <3>2
    <3>4. pr[u].kind = "prepend" /\ pr[v].kind = "prepend"
      BY <1>7, <2>2, <3>3
    <3>5. pr[u].of < pr[v].of
      BY <1>2, <3>3, <3>4
    <3> QED
      BY <3>3, <3>5
  <2>3. CASE after[p].kind = "char"
    BY <1>7, <1>8, <2>3
  <2>4. CASE after[p].kind = "append"
    <3>1. /\ p - (K + M + e) \in 1..N /\ after[p] = ap[p - (K + M + e)]
          /\ q - (K + M + e) \in 1..N /\ after[q] = ap[q - (K + M + e)]
      BY <1>6, <1>7, <2>4
    <3>2. p - (K + M + e) < q - (K + M + e)
      BY <1>7, <2>0
    <3>3. PICK u \in 1..N, v \in 1..N : u < v /\ after[p] = ap[u] /\ after[q] = ap[v]
      BY <3>1, <3>2
    <3>4. ap[u].kind = "append" /\ ap[v].kind = "append"
      BY <1>7, <2>4, <3>3
    <3>5. ap[u].of < ap[v].of
      BY <1>3, <3>3, <3>4
    <3> QED
      BY <3>3, <3>5
  <2> QED
    BY <1>7, <2>1, <2>2, <2>3, <2>4 DEF Visible
<1> QED
  BY <1>6, <1>7 DEF LineShows

LEMMA PlaceIs == ASSUME NEW p \in Nat, NEW n \in Nat, p <= n, n < Modulus PROVE Smaller(Unsigned(p), n) = p
<1>1. Modulus \in Int
  BY ModulusFacts
<1>2. Unsigned(p) = p
  <2>1. p \in 0..(Modulus - 1)
    BY <1>1
  <2> QED
    BY <2>1, UnsignedIs
<1> QED
  BY <1>2 DEF Smaller

LEMMA StringsOfLine ==
    ASSUME WrapTyped, Complete, Sized, Limits, Fits, pc = "mark", NEW j \in Nat, NEW k \in Nat,
           prelen = prepend_mb.length, k - j <= width - (IF ep < len THEN applen ELSE 0)
    PROVE  \E R, P, A \in Nat :
             /\ Shows(kept_text, "kept", R) /\ Shows(pre_text, "prepend", P)
             /\ Shows(app_text, "append", A)
             /\ R + P + (k - j) + A <= opt.width
<1>1. Shows(retainbuf, "kept", opt.retain)
  BY DEF Complete
<1>2. Shows(prestr, "prepend", prepend_mb.length) /\ Shows(appstr, "append", append_mb.length)
  BY StringsShow DEF WrapTyped
<1>3. \A kind : Shows(<<>>, kind, 0)
  BY DEF Shows
<1>4. /\ prelen \in Nat /\ applen \in Nat /\ opt.retain \in Nat /\ opt.width \in Nat
      /\ width = IF sp = 0 THEN opt.width ELSE opt.width - (opt.retain + prelen)
  BY WidthIs DEF Sized, Limits
<1>5. applen > 0 => append_mb.length = applen
  BY DEF WrapTyped, StringTyped, applen
<1> DEFINE R == IF sp = 0 THEN 0 ELSE opt.retain
           P == IF sp = 0 THEN 0 ELSE prelen
           A == IF ep < len /\ applen > 0 THEN applen ELSE 0
<1>6. R \in Nat /\ P \in Nat /\ A \in Nat
  BY <1>4
<1>7. Shows(kept_text, "kept", R)
  BY <1>1, <1>3 DEF kept_text
<1>8. Shows(pre_text, "prepend", P)
  BY <1>2, <1>3 DEF pre_text
<1>9. Shows(app_text, "append", A)
  BY <1>2, <1>3, <1>5 DEF app_text
<1>10. R + P + (k - j) + A <= opt.width
  BY <1>4
<1> QED
  BY <1>6, <1>7, <1>8, <1>9, <1>10

LEMMA LinedFinish ==
    ASSUME WrapTyped, Complete, Complete', Small, Sized, Limits, Fits, FinishLine,
           NEW j, NEW k, OpenLine(j, k)
    PROVE  Printed(sp, k + deleted)'
<1>1. /\ pc = "mark" /\ pc' \in {"cut", "printed"}
      /\ UNCHANGED <<text, opt, prepend_mb, append_mb, deleted>>
      /\ sp' = ep + (Len(kept_text) + Len(pre_text) + Len(app_text) + 1)
  BY DEF FinishLine, setup, kept_text, pre_text, app_text
<1>2. /\ buf \in Seq(Cells) /\ len \in Nat /\ sp \in Nat /\ ep \in Nat /\ Len(text) \in Nat
      /\ Len(buf) \in Nat /\ len = Len(buf) /\ sp < ep /\ ep <= len /\ len < Modulus
  <2>1. /\ buf \in Seq(Cells) /\ len \in Nat /\ sp \in Nat /\ ep \in Nat /\ Len(text) \in Nat
        /\ len = Len(buf) /\ sp < ep /\ ep <= len
    BY <1>1 DEF WrapTyped, Complete, Sized
  <2>2. len < Modulus
    <3>1. Modulus \in Int
      BY ModulusFacts
    <3> QED
      BY <2>1, <3>1, Doubled DEF Small
  <2> QED
    BY <2>1, <2>2
<1>3. PICK x, y : x = app_text \o Newline /\ y = kept_text \o pre_text
  OBVIOUS
<1>4. PICK K \in Nat, M \in Nat, N \in Nat :
        /\ K = Len(kept_text) /\ M = Len(pre_text) /\ N = Len(app_text)
        /\ x \in Seq(Cells) /\ Quiet(x) /\ Len(x) = N + 1
        /\ y \in Seq(Cells) /\ Quiet(y) /\ Len(y) = K + M
  BY <1>3, FinishIs
<1>5. PICK first \in Seq(Cells) :
        /\ Inserted(first, buf, Smaller(Unsigned(ep), Len(buf)), x)
        /\ Inserted(buf', first, Smaller(Unsigned(sp), Len(first)), y)
  BY <1>3, FinishIs
<1>6. Smaller(Unsigned(ep), Len(buf)) = ep
  BY <1>2, PlaceIs
<1>7. Inserted(first, buf, ep, x) /\ Len(first) \in Nat /\ Len(first) = Len(buf) + N + 1
  <2>1. Inserted(first, buf, ep, x)
    BY <1>5, <1>6
  <2> QED
    BY <1>4, <2>1 DEF Inserted
<1>8. Inserted(buf', first, sp, y)
  <2>1. Unsigned(sp) = sp
    <3>1. Modulus \in Int
      BY ModulusFacts
    <3>2. sp \in 0..(Modulus - 1)
      BY <1>2, <3>1
    <3> QED
      BY <3>2, UnsignedIs
  <2>2. Smaller(sp, Len(first)) = sp
    BY <1>2, <1>7 DEF Smaller
  <2> QED
    BY <1>5, <2>1, <2>2
<1>9. sp' = (ep + (N + 1)) + (K + M)
  BY <1>1, <1>2, <1>4
<1>10. /\ j \in Nat /\ k \in Nat /\ j < k
       /\ Rest(buf, ep, k + deleted, Len(text))
       /\ Pieces(buf, ep) /\ LineStarts(buf, sp)
       /\ prelen = prepend_mb.length => Columns(buf, sp, opt.width)
       /\ OnLine(buf, sp, ep, j, k)
       /\ k - j <= width - (IF ep < len THEN applen ELSE 0)
  BY DEF OpenLine
<1>11. Rest(buf', (ep + (N + 1)) + (K + M), k + deleted, Len(text))
  <2>1. Rest(first, ep + (N + 1), k + deleted, Len(text))
    <3>2. ep <= ep
      BY <1>2
    <3>1. Rest(first, ep + Len(x), k + deleted, Len(text))
      BY <1>2, <1>4, <1>7, <1>10, <3>2, InsertRest
    <3> QED
      BY <1>4, <3>1
  <2>2. sp <= ep + (N + 1)
    BY <1>2
  <2>3. Rest(buf', (ep + (N + 1)) + Len(y), k + deleted, Len(text))
    BY <1>2, <1>4, <1>8, <2>1, <2>2, InsertRest
  <2> QED
    BY <1>4, <2>3
<1>12. Pieces(buf', (ep + (N + 1)) + (K + M))
  <2>1. Pieces(first, ep + (N + 1))
    <3>1. ep \in 0..Len(buf) /\ ep <= ep
      BY <1>2
    <3>2. Pieces(first, ep + Len(x))
      BY <1>2, <1>4, <1>7, <1>10, <3>1, InsertPieces
    <3> QED
      BY <1>4, <3>2
  <2>2. ep + (N + 1) \in 0..Len(first) /\ sp <= ep + (N + 1)
    BY <1>2, <1>7
  <2>3. Pieces(buf', (ep + (N + 1)) + Len(y))
    BY <1>4, <1>8, <2>1, <2>2, InsertPieces
  <2> QED
    BY <1>4, <2>3
<1>13. /\ \A p \in 1..sp : buf'[p] = buf[p]
       /\ \A i \in 1..(K + M) : buf'[sp + i] = y[i]
       /\ \A i \in (sp + 1)..ep : buf'[(K + M) + i] = buf[i]
       /\ \A i \in 1..(N + 1) : buf'[((K + M) + ep) + i] = x[i]
  <2>1. sp <= ep /\ ep <= Len(buf)
    BY <1>2
  <2>2. Woven(buf', buf, sp, ep, x, y)
    BY <1>2, <1>4, <1>7, <1>8, <2>1, Assembled
  <2> QED
    BY <1>4, <2>2 DEF Woven
<1>14. /\ \A i \in 1..K : y[i] = kept_text[i]
       /\ \A i \in 1..M : y[K + i] = pre_text[i]
       /\ \A i \in 1..N : x[i] = app_text[i]
       /\ x[N + 1].kind = "newline"
  <2>1. kept_text \in Seq(Cells) /\ pre_text \in Seq(Cells) /\ app_text \in Seq(Cells)
    BY <1>1, StringsQuiet
  <2>2. Newline \in Seq(Cells) /\ Len(Newline) = 1 /\ Newline[1].kind = "newline"
    BY NewlineIs
  <2>3. /\ \A i \in 1..K : y[i] = kept_text[i]
        /\ \A i \in 1..M : y[K + i] = pre_text[i]
    BY <1>3, <1>4, <2>1, JoinIs
  <2>4. /\ \A i \in 1..N : x[i] = app_text[i]
        /\ \A i \in 1..1 : x[N + i] = Newline[i]
    BY <1>3, <1>4, <2>1, <2>2, JoinIs
  <2> QED
    BY <2>2, <2>3, <2>4
<1>15. PICK d \in Nat : d = K + M + ep + N + 1
  BY <1>2, <1>4
<1>16. sp' = d /\ sp <= d
  BY <1>2, <1>9, <1>15
<1>17. buf'[d].kind = "newline"
  <2>1. N + 1 \in 1..(N + 1) /\ d = ((K + M) + ep) + (N + 1)
    BY <1>2, <1>15
  <2> QED
    BY <1>13, <1>14, <2>1
<1>18. LineStarts(buf', d)
  BY <1>17 DEF LineStarts
<1>19. ASSUME prelen = prepend_mb.length PROVE Columns(buf', d, opt.width)
  <2>1. PICK R \in Nat, P \in Nat, A \in Nat :
          /\ Shows(kept_text, "kept", R) /\ Shows(pre_text, "prepend", P)
          /\ Shows(app_text, "append", A)
          /\ R + P + (k - j) + A <= opt.width
    BY <1>1, <1>10, <1>19, StringsOfLine
  <2>2. LineStarts(buf', sp) /\ Columns(buf', sp, opt.width)
    BY <1>2, <1>10, <1>13, <1>19, SameStart, SameColumns
  <2>3. \A p, q \in (sp + 1)..d :
          p < q /\ buf'[p].kind = "char" /\ buf'[q].kind = "char" => buf'[p].of < buf'[q].of
    <3>1. Ordered(buf', Len(text'))
      BY <1>1 DEF Complete, Ordered
    <3>2. d <= Len(buf') /\ Len(buf') \in Int
      BY <1>9, <1>11, <1>16 DEF Rest
    <3>3. \A p \in (sp + 1)..d : p \in 1..Len(buf')
      BY <1>2, <3>2
    <3> QED
      BY <3>1, <3>3 DEF Ordered
  <2>4. /\ \A i \in 1..K : buf'[sp + i] = kept_text[i]
        /\ \A i \in 1..M : buf'[(sp + K) + i] = pre_text[i]
        /\ \A i \in (sp + 1)..ep : buf'[(K + M) + i] = buf[i]
        /\ \A i \in 1..N : buf'[(K + M + ep) + i] = app_text[i]
    <3>1. ASSUME NEW i \in 1..K PROVE buf'[sp + i] = kept_text[i]
      <4>1. i \in 1..(K + M)
        OBVIOUS
      <4> QED
        BY <1>13, <1>14, <4>1
    <3>2. ASSUME NEW i \in 1..M PROVE buf'[(sp + K) + i] = pre_text[i]
      <4>1. K + i \in 1..(K + M) /\ (sp + K) + i = sp + (K + i)
        BY <1>2
      <4>2. buf'[sp + (K + i)] = y[K + i]
        BY <1>13, <4>1
      <4> QED
        BY <1>14, <4>1, <4>2
    <3>3. ASSUME NEW i \in 1..N PROVE buf'[(K + M + ep) + i] = app_text[i]
      <4>1. i \in 1..(N + 1)
        OBVIOUS
      <4> QED
        BY <1>13, <1>14, <4>1
    <3> QED
      BY <1>13, <3>1, <3>2, <3>3
  <2>5. LineShows(buf', sp, d, R, P, A, j, k)
    <3>1. sp <= ep
      BY <1>2
    <3>2. Parts(buf', buf, sp, ep, kept_text, pre_text, app_text, d)
      BY <1>4, <1>15, <1>17, <2>3, <2>4 DEF Parts
    <3> QED
      BY <1>2, <1>10, <2>1, <3>1, <3>2, LineLaid
  <2>6. opt.width \in Int /\ j <= k
    BY <1>10 DEF Limits
  <2> QED
    BY <1>2, <1>10, <1>16, <2>1, <2>2, <2>5, <2>6, LineColumns
<1>20. prelen' = prelen /\ prepend_mb'.length = prepend_mb.length
  BY <1>1, StringsKept
<1>21. Rest(buf, sp, k + deleted, Len(text))'
  BY <1>1, <1>9, <1>11 DEF Rest
<1>22. Pieces(buf, sp)'
  BY <1>9, <1>12 DEF Pieces
<1>23. LineStarts(buf, sp)'
  BY <1>16, <1>18 DEF LineStarts
<1>24. (prelen = prepend_mb.length => Columns(buf, sp, opt.width))'
  BY <1>1, <1>16, <1>19, <1>20 DEF Columns, ColumnsAre
<1> QED
  BY <1>21, <1>22, <1>23, <1>24 DEF Printed

-----------------------------------------------------------------------------
(* Where the markup goes: the ranges still to come end behind the start of   *)
(* the line and begin, counted in the buffer, behind its start; those that   *)
(* go on past the end of the line have been marked up on it; and those that  *)
(* are the same as the last one are nested in it.                            *)
Extra(j, k) == (ep - sp) - (k - j)

Coming(j) ==
    \A i \in node..Len(styles) : styles[i].eo >= j /\ styles[i].so + sp >= j

Waiting(j) == style_mod = sp - j /\ Coming(j)

GoingOn(j, k) ==
    \A i \in (node - back)..(node - 1) :
        styles[i].eo > k /\ styles[i].so + sp >= j /\ Extra(j, k) >= Markup(styles[i])

Nested(j, k, pres) ==
    /\ node > 1 /\ last = styles[node - 1]
    /\ post_last >= 0 /\ last.eo >= j
    /\ Extra(j, k) >= Markup(last) /\ Extra(j, k) >= pres + post_last
    /\ \/ keep = 0 /\ last.so + style_mod - (pres + post_last) >= sp
       \/ keep = j - last.so /\ keep > 0 /\ Extra(j, k) = pres + post_last

Marked(j, k) ==
    /\ style_mod = ep - k /\ Extra(j, k) >= 0
    /\ Coming(j) /\ GoingOn(j, k)
    /\ \/ last = NoRange /\ Extra(j, k) = 0
       \/ \E pres \in Nat : Nested(j, k, pres)

LEMMA SignedIs ==
    ASSUME NEW x \in Int, 2 * (x + 1) < Modulus, 2 * (0 - x) < Modulus
    PROVE  Signed(Unsigned(x)) = x
<1>1. PICK M \in Nat : M = Modulus /\ M > 0
  BY ModulusFacts
<1>2. 2 * (x + 1) < M /\ 2 * (0 - x) < M
  BY <1>1
<1>3. PICK h \in Int : h = M \div 2
  BY <1>1
<1>4. 2 * h <= M /\ M <= 2 * h + 1
  BY <1>1, <1>3
<1>5. CASE x >= 0
  <2>1. x % M = x
    BY <1>1, <1>2, <1>5
  <2>2. x < h
    BY <1>2, <1>4
  <2> QED
    BY <1>1, <1>3, <2>1, <2>2 DEF Signed, Unsigned
<1>6. CASE x < 0
  <2>1. x % M = x + M
    BY <1>1, <1>2, <1>6
  <2>2. ~(x + M < h)
    BY <1>2, <1>4
  <2> QED
    BY <1>1, <1>3, <2>1, <2>2 DEF Signed, Unsigned
<1> QED
  BY <1>5, <1>6

Places(s, e, j, k, so, eo, ex, f, t, pres, post, kp, n) ==
    /\ s \in Int /\ e \in Int /\ j \in Int /\ k \in Int /\ s < e /\ j < k
    /\ so \in Int /\ eo \in Int /\ so <= eo /\ eo >= j /\ so + s >= j
    /\ ex \in Int /\ ex = (e - s) - (k - j) /\ ex >= 0
    /\ f \in Int /\ f = so + (e - k) /\ t \in Int /\ t = eo + (e - k) /\ f <= e
    /\ pres \in Nat /\ post \in Nat /\ kp \in Int /\ n \in Nat /\ ex >= pres + post
    /\ \/ post = 0 /\ kp = 0
       \/ kp = 0 /\ f - (pres + post) >= s
       \/ kp = j - so /\ kp > 0 /\ ex = pres + post /\ eo - so <= ex

LEMMA MarkPlaces ==
    ASSUME NEW s, NEW e, NEW j, NEW k, NEW so, NEW eo, NEW ex, NEW f, NEW t,
           NEW pres, NEW post, NEW kp, NEW n,
           Places(s, e, j, k, so, eo, ex, f, t, pres, post, kp, n)
    PROVE  /\ Larger(s, f) - post + kp \in s..e
           /\ Smaller(e, t) + n - post \in s..(e + n)
<1>1. CASE post = 0 /\ kp = 0
  BY <1>1 DEF Larger, Smaller, Places
<1>2. CASE kp = 0 /\ f - (pres + post) >= s
  BY <1>2 DEF Larger, Smaller, Places
<1>3. CASE kp = j - so /\ kp > 0 /\ ex = pres + post /\ eo - so <= ex
  BY <1>3 DEF Larger, Smaller, Places
<1> QED
  BY <1>1, <1>2, <1>3 DEF Places

(* The line is the last one: no range goes on.                               *)
LEMMA RangesEnd ==
    ASSUME WrapTyped, Complete, Apart, Markable, NEW j, NEW k, OpenLine(j, k), ep = len, pc = "mark",
           NEW i \in 1..Len(styles)
    PROVE  styles[i].so <= k /\ styles[i].eo <= k
<1>1. /\ k \in Nat /\ deleted \in Nat /\ k + deleted = Len(text) /\ Len(text) \in Nat
      /\ \A g \in (k + 1)..(k + deleted) : Gap(g)
  <2>1. /\ Rest(buf, ep, k + deleted, Len(text)) /\ k \in Nat
        /\ \A g \in (k + 1)..(k + deleted) : Gap(g)
    BY DEF OpenLine
  <2>2. deleted \in Nat /\ ep \in Nat /\ Len(buf) \in Nat /\ Len(text) \in Nat /\ len = Len(buf)
    BY DEF WrapTyped, Complete
  <2>3. Len(buf) - ep = Len(text) - (k + deleted)
    BY <2>1 DEF Rest
  <2> QED
    BY <2>1, <2>2, <2>3
<1>2. /\ styles[i].so \in Nat /\ styles[i].eo \in Nat
      /\ styles[i].so <= styles[i].eo /\ styles[i].eo <= Len(text)
  <2>1. styles[i] \in StyleRange
    BY DEF WrapTyped
  <2> QED
    BY <2>1 DEF Apart, StyleRange
<1>3. ~(styles[i].eo > k)
  <2> SUFFICES ASSUME styles[i].eo > k PROVE FALSE
    OBVIOUS
  <2>1. styles[i].eo \in (k + 1)..(k + deleted) /\ styles[i].eo > 0 /\ styles[i].eo \in 1..Len(text)
    BY <1>1, <1>2
  <2>2. Gap(styles[i].eo)
    BY <1>1, <2>1
  <2> QED
    BY <2>1, <2>2, MarkableIs
<1> QED
  BY <1>1, <1>2, <1>3

LEMMA RangeIs ==
    ASSUME WrapTyped, Apart, NEW i \in 1..Len(styles)
    PROVE  /\ styles[i] \in StyleRange
           /\ styles[i].so \in Nat /\ styles[i].eo \in Nat /\ styles[i].style \in Styles
           /\ styles[i].so <= styles[i].eo /\ styles[i].eo <= Len(text)
           /\ Markup(styles[i]) \in Nat
<1>1. styles[i] \in StyleRange
  BY DEF WrapTyped
<1>2. styles[i].so \in Nat /\ styles[i].eo \in Nat /\ styles[i].style \in Styles
  BY <1>1 DEF StyleRange
<1>3. Markup(styles[i]) \in Nat
  BY <1>2, MarkupAssumption DEF Markup
<1> QED
  BY <1>1, <1>2, <1>3 DEF Apart

LEMMA LineNumbers ==
    ASSUME WrapTyped, Complete, Small, Sized, pc = "mark", NEW j, NEW k, OpenLine(j, k)
    PROVE  /\ j \in Nat /\ k \in Nat /\ j < k /\ k <= Len(text) /\ Len(text) \in Nat
           /\ sp \in Nat /\ ep \in Nat /\ len \in Nat /\ sp < ep /\ ep <= len /\ len = Len(buf)
           /\ 2 * Len(text) < Modulus /\ 2 * len < Modulus /\ Modulus \in Nat
           /\ Extra(j, k) \in Int
<1>1. /\ sp \in Nat /\ ep \in Nat /\ len \in Nat /\ Len(text) \in Nat /\ deleted \in Nat
  BY DEF WrapTyped
<1>2. /\ sp < ep /\ ep <= len /\ len = Len(buf)
      /\ 2 * Len(text) < Modulus /\ 2 * len < Modulus
  BY DEF Sized, Complete, Small
<1>3. j \in Nat /\ k \in Nat /\ j < k /\ k + deleted \in 0..Len(text)
  BY DEF OpenLine, Rest
<1>4. k <= Len(text) /\ Extra(j, k) \in Int
  BY <1>1, <1>3 DEF Extra
<1> QED
  BY <1>1, <1>2, <1>3, <1>4, ModulusFacts

LEMMA MarkNumbers ==
    ASSUME WrapTyped, Complete, Small, Sized, Apart, Markable, MarkRange,
           NEW j, NEW k, OpenLine(j, k), Marked(j, k)
    PROVE  /\ rng.eo >= j /\ rng.so + sp >= j
           /\ from = rng.so + (ep - k) /\ to = rng.eo + (ep - k) /\ from <= ep
           /\ from \in Nat /\ to \in Nat
           /\ Larger(Signed(Unsigned(sp - from)), 0) = Larger(sp - from, 0)
<1>1. /\ pc = "mark" /\ node \in 1..Len(styles) /\ ~AfterLine /\ rng = styles[node]
  BY RangeTyped DEF MarkRange, rng
<1>2. PICK so \in Nat, eo \in Nat, n \in Nat, M \in Nat :
        /\ so = rng.so /\ eo = rng.eo /\ n = Len(text) /\ M = Modulus /\ so <= eo /\ eo <= n
  BY <1>1, RangeIs, LineNumbers
<1>3. /\ j \in Nat /\ k \in Nat /\ j < k /\ k <= n
      /\ sp \in Nat /\ ep \in Nat /\ len \in Nat /\ sp < ep /\ ep <= len
      /\ 2 * n < M /\ 2 * len < M
  BY <1>1, <1>2, LineNumbers
<1>4. /\ style_mod = ep - k /\ eo >= j /\ so + sp >= j
      /\ (ep - sp) - (k - j) >= 0
  <2>1. node \in node..Len(styles)
    BY <1>1
  <2> QED
    BY <1>1, <1>2, <2>1 DEF Marked, Coming, Extra
<1>5. PICK f \in Int, t \in Int : f = so + (ep - k) /\ t = eo + (ep - k)
  BY <1>2, <1>3
<1>6. f \in 0..(M - 1) /\ t \in 0..(M - 1)
  <2>1. f >= 0
    BY <1>3, <1>4, <1>5
  <2>2. f <= t /\ t <= n + len
    BY <1>2, <1>3, <1>5
  <2>3. n + len < M
    BY <1>3
  <2> QED
    BY <1>3, <2>1, <2>2, <2>3
<1>7. from = f /\ to = t
  <2>1. from = Unsigned(f) /\ to = Unsigned(t)
    BY <1>2, <1>4, <1>5 DEF from, to
  <2> QED
    BY <1>2, <1>6, <2>1, UnsignedIs
<1>8. f <= ep
  <2>1. CASE ep = len
    <3>1. so <= k
      BY <1>1, <1>2, <2>1, RangesEnd
    <3> QED
      BY <1>3, <1>5, <3>1
  <2>2. CASE ep # len
    BY <1>1, <1>3, <1>6, <1>7, <2>2 DEF AfterLine
  <2> QED
    BY <2>1, <2>2
<1>9. Signed(Unsigned(sp - f)) = sp - f
  <2>1. sp - f \in Int /\ sp - f <= sp /\ sp - f >= 0 - ep
    BY <1>3, <1>6, <1>8
  <2>2. 2 * ((sp - f) + 1) < M /\ 2 * (0 - (sp - f)) < M
    <3>1. (sp - f) + 1 <= len
      BY <1>3, <2>1
    <3>2. 0 - (sp - f) <= len
      BY <1>3, <1>5, <1>8
    <3> QED
      BY <1>3, <2>1, <3>1, <3>2
  <2> QED
    BY <1>2, <2>1, <2>2, SignedIs
<1> QED
  BY <1>1, <1>2, <1>4, <1>5, <1>6, <1>7, <1>8, <1>9

LEMMA MarkCases ==
    ASSUME WrapTyped, Complete, Small, Sized, Apart, Markable, MarkRange,
           NEW j, NEW k, OpenLine(j, k), Marked(j, k),
           NEW post, post = (IF SameRange(last, rng) THEN post_last ELSE 0),
           NEW kp, kp = (IF SameRange(last, rng) THEN keep ELSE 0)
    PROVE  /\ post \in Nat /\ kp \in Int
           /\ \E pres \in Nat :
                /\ Extra(j, k) >= pres + post
                /\ \/ post = 0 /\ kp = 0 /\ pres = 0 /\ ~SameRange(last, rng)
                   \/ kp = 0 /\ from - (pres + post) >= sp
                   \/ /\ kp = j - rng.so /\ kp > 0 /\ Extra(j, k) = pres + post
                      /\ rng.eo - rng.so <= Extra(j, k)
<1>1. /\ pc = "mark" /\ node \in 1..Len(styles) /\ rng = styles[node]
  BY RangeTyped DEF MarkRange, rng
<1>2. Extra(j, k) \in Int /\ Extra(j, k) >= 0
  BY <1>1, LineNumbers DEF Marked
<1>3. CASE ~SameRange(last, rng)
  <2>1. post = 0 /\ kp = 0
    BY <1>3
  <2>2. Extra(j, k) >= 0 + 0
    BY <1>2
  <2> QED
    BY <1>3, <2>1, <2>2
<1>4. CASE SameRange(last, rng)
  <2>1. last # NoRange /\ last.so = rng.so /\ last.eo = rng.eo /\ post = post_last /\ kp = keep
    BY <1>4 DEF SameRange
  <2>2. PICK pres \in Nat : Nested(j, k, pres)
    BY <2>1 DEF Marked
  <2>3. post \in Nat /\ kp \in Int
    <3>1. post_last \in Int /\ keep \in Int
      BY DEF WrapTyped
    <3> QED
      BY <2>1, <2>2, <3>1 DEF Nested
  <2>4. rng.eo - rng.so <= Extra(j, k)
    <3>1. node - 1 \in 1..Len(styles) /\ node - 1 # node /\ last = styles[node - 1]
      BY <1>1, <2>2 DEF Nested
    <3>2. styles[node - 1].eo - styles[node - 1].so <= Markup(styles[node - 1])
      BY <1>1, <1>4, <3>1, ShortIs
    <3>3. Markup(styles[node - 1]) \in Nat /\ styles[node - 1].eo \in Nat /\ styles[node - 1].so \in Nat
      BY <3>1, RangeIs
    <3>4. PICK mk \in Nat, eo \in Nat, so \in Nat :
            mk = Markup(styles[node - 1]) /\ eo = styles[node - 1].eo /\ so = styles[node - 1].so
      BY <3>3
    <3>5. Extra(j, k) >= mk /\ eo - so <= mk /\ eo = rng.eo /\ so = rng.so
      BY <2>1, <2>2, <3>1, <3>2, <3>4 DEF Nested
    <3> QED
      BY <1>2, <3>4, <3>5
  <2>5. Extra(j, k) >= pres + post
    BY <2>1, <2>2 DEF Nested
  <2>6. keep = 0 => from - (pres + post) >= sp
    <3>1. from = rng.so + (ep - k) /\ style_mod = ep - k
      BY MarkNumbers DEF Marked
    <3>2. j \in Nat /\ k \in Nat /\ ep \in Nat
      BY <1>1, LineNumbers
    <3> SUFFICES ASSUME keep = 0 PROVE from - (pres + post) >= sp
      OBVIOUS
    <3>3. last.so + style_mod - (pres + post_last) >= sp
      <4>1. ~(keep > 0)
        OBVIOUS
      <4> QED
        BY <2>2, <4>1 DEF Nested
    <3>4. PICK so \in Nat : so = rng.so
      BY <1>1, RangeIs
    <3> QED
      BY <2>1, <2>3, <3>1, <3>2, <3>3, <3>4
  <2>7. keep # 0 => kp = j - rng.so /\ kp > 0 /\ Extra(j, k) = pres + post
    BY <2>1, <2>2 DEF Nested
  <2> QED
    BY <2>1, <2>3, <2>4, <2>5, <2>6, <2>7
<1> QED
  BY <1>3, <1>4

LEMMA MarkPlaced ==
    ASSUME WrapTyped, Complete, Small, Small', Sized, Apart, Markable, MarkRange,
           NEW j, NEW k, OpenLine(j, k), Marked(j, k)
    PROVE  /\ Smaller(Unsigned(at_pre), Len(buf)) \in sp..ep
           /\ Smaller(Unsigned(at_post), Len(buf) + PreLen[rng.style]) \in sp..(ep + PreLen[rng.style])
<1>1. /\ pc = "mark" /\ node \in 1..Len(styles) /\ rng = styles[node]
      /\ len' = len + PreLen[rng.style] + PostLen[rng.style]
  BY RangeTyped DEF MarkRange, rng
<1>2. PICK so \in Nat, eo \in Nat, n \in Nat, M \in Nat, after \in Nat :
        /\ so = rng.so /\ eo = rng.eo /\ so <= eo /\ n = PreLen[rng.style] /\ M = Modulus
        /\ len' = len + n + after /\ 2 * len' < M
  <2>1. rng.style \in Styles /\ rng.so \in Nat /\ rng.eo \in Nat /\ rng.so <= rng.eo
    BY <1>1, RangeIs
  <2>2. PreLen[rng.style] \in Nat /\ PostLen[rng.style] \in Nat
    BY <2>1, MarkupAssumption
  <2> QED
    BY <1>1, <2>1, <2>2, ModulusFacts DEF Small
<1>3. /\ j \in Nat /\ k \in Nat /\ j < k
      /\ sp \in Nat /\ ep \in Nat /\ len \in Nat /\ sp < ep /\ ep <= len /\ len = Len(buf)
  BY <1>1, LineNumbers
<1>4. PICK ex \in Int : ex = Extra(j, k) /\ ex = (ep - sp) - (k - j) /\ ex >= 0
  BY <1>1, LineNumbers DEF Marked, Extra
<1>5. PICK f \in Int, t \in Int :
        /\ f = from /\ t = to /\ f = so + (ep - k) /\ t = eo + (ep - k) /\ f <= ep
        /\ eo >= j /\ so + sp >= j
  <2>1. /\ rng.eo >= j /\ rng.so + sp >= j
        /\ from = rng.so + (ep - k) /\ to = rng.eo + (ep - k) /\ from <= ep
        /\ from \in Nat /\ to \in Nat
    BY MarkNumbers
  <2> QED
    BY <1>2, <2>1
<1>6. PICK post, kp : /\ post = (IF SameRange(last, rng) THEN post_last ELSE 0)
                      /\ kp = (IF SameRange(last, rng) THEN keep ELSE 0)
  OBVIOUS
<1>7. /\ post \in Nat /\ kp \in Int
      /\ \E pres \in Nat :
           /\ ex >= pres + post
           /\ \/ post = 0 /\ kp = 0
              \/ kp = 0 /\ f - (pres + post) >= sp
              \/ kp = j - so /\ kp > 0 /\ ex = pres + post /\ eo - so <= ex
  <2>1. /\ post \in Nat /\ kp \in Int
        /\ \E pres \in Nat :
             /\ Extra(j, k) >= pres + post
             /\ \/ post = 0 /\ kp = 0 /\ pres = 0 /\ ~SameRange(last, rng)
                \/ kp = 0 /\ from - (pres + post) >= sp
                \/ /\ kp = j - rng.so /\ kp > 0 /\ Extra(j, k) = pres + post
                   /\ rng.eo - rng.so <= Extra(j, k)
    BY <1>6, MarkCases
  <2> QED
    BY <1>2, <1>4, <1>5, <2>1
<1>8. at_pre = Larger(sp, f) - post + kp /\ at_post = Smaller(ep, t) + n - post
  BY <1>2, <1>5, <1>6 DEF at_pre, at_post
<1>9. Larger(sp, f) - post + kp \in sp..ep /\ Smaller(ep, t) + n - post \in sp..(ep + n)
  <2>1. PICK pres \in Nat :
          /\ ex >= pres + post
          /\ \/ post = 0 /\ kp = 0
             \/ kp = 0 /\ f - (pres + post) >= sp
             \/ kp = j - so /\ kp > 0 /\ ex = pres + post /\ eo - so <= ex
    BY <1>7
  <2>2. post \in Nat /\ kp \in Int
    BY <1>7
  <2>3. sp \in Int /\ ep \in Int /\ j \in Int /\ k \in Int /\ sp < ep /\ j < k
    BY <1>3
  <2>4. so <= eo
    BY <1>2
  <2>5. ex \in Int /\ ex = (ep - sp) - (k - j) /\ ex >= 0
    BY <1>4
  <2>6. /\ eo >= j /\ so + sp >= j
        /\ f \in Int /\ f = so + (ep - k) /\ t \in Int /\ t = eo + (ep - k) /\ f <= ep
    BY <1>5
  <2>7. so \in Int /\ eo \in Int /\ n \in Nat
    OBVIOUS
  <2>8. Places(sp, ep, j, k, so, eo, ex, f, t, pres, post, kp, n)
    BY <2>1, <2>2, <2>3, <2>4, <2>5, <2>6, <2>7 DEF Places
  <2> QED
    BY <2>8, MarkPlaces
<1>10. PICK p \in Int, q \in Int : p = at_pre /\ q = at_post /\ p \in sp..ep /\ q \in sp..(ep + n)
  BY <1>8, <1>9
<1>11. /\ p \in 0..(M - 1) /\ q \in 0..(M - 1)
       /\ Smaller(p, len) = p /\ Smaller(q, len + n) = q
  <2>1. PICK l \in Nat : l = len /\ sp < ep /\ ep <= l /\ sp \in Nat /\ ep \in Nat
    BY <1>3
  <2>2. n \in Nat /\ after \in Nat /\ M \in Nat /\ 2 * (l + n + after) < M
    BY <1>2, <2>1
  <2>3. p \in sp..ep /\ q \in sp..(ep + n)
    BY <1>10
  <2>4. /\ p \in 0..(M - 1) /\ q \in 0..(M - 1)
        /\ Smaller(p, l) = p /\ Smaller(q, l + n) = q
    <3>1. PICK s \in Nat, e \in Nat : s = sp /\ e = ep
      BY <2>1
    <3>2. s < e /\ e <= l /\ p \in s..e /\ q \in s..(e + n)
      BY <2>1, <2>3, <3>1
    <3>3. l + n < M
      BY <2>2
    <3> QED
      BY <3>2, <3>3 DEF Smaller
  <2> QED
    BY <2>1, <2>4
<1>12. Unsigned(p) = p /\ Unsigned(q) = q
  BY <1>2, <1>11, UnsignedIs
<1> QED
  BY <1>2, <1>3, <1>10, <1>11, <1>12

-----------------------------------------------------------------------------
(* The placement of the markup holds from step to step.                      *)
LEMMA StartWaits ==
    ASSUME WrapTyped, NEW line, NEW ranges \in Seq(StyleRange),
           NEW pre, NEW app, Start(line, ranges, pre, app)
    PROVE  Waiting(0)'
<1>1. /\ pc = "idle" /\ styles' = ranges
      /\ sp' = sp /\ style_mod' = style_mod /\ node' = node
  BY DEF Start, local
<1>2. sp = 0 /\ style_mod = 0 /\ node = 1
  BY <1>1 DEF WrapTyped, Rested
<1>3. \A i \in 1..Len(ranges) : ranges[i].so \in Nat /\ ranges[i].eo \in Nat
  <2>1. \A i \in 1..Len(ranges) : ranges[i] \in StyleRange
    OBVIOUS
  <2> QED
    BY <2>1 DEF StyleRange
<1>4. \A i \in node'..Len(styles') : styles'[i].eo >= 0 /\ styles'[i].so + sp' >= 0
  BY <1>1, <1>2, <1>3
<1> QED
  BY <1>1, <1>2, <1>4 DEF Waiting, Coming

LEMMA Shifts ==
    ASSUME NEW e \in Int, NEW s \in Int, NEW j \in Int, NEW k \in Int, Spans(s, e, j, k)
    PROVE  (e - s) - (k - j) = 0 /\ s - j = e - k
  BY DEF Spans

LEMMA CutMarked ==
    ASSUME WrapTyped, CutLine, NEW j \in Nat, NEW k \in Nat, Waiting(j), Spans(sp, ep', j, k), ep' \in Nat
    PROVE  Marked(j, k)'
<1>1. /\ back' = 0 /\ last' = NoRange
      /\ styles' = styles /\ sp' = sp /\ style_mod' = style_mod /\ node' = node
  BY DEF CutLine, Cut
<1>2. sp \in Nat /\ node \in Nat
  BY DEF WrapTyped
<1>3. style_mod = sp - j /\ Coming(j)
  BY DEF Waiting
<1>4. Coming(j)'
  BY <1>1, <1>3 DEF Coming
<1>5. Extra(j, k)' = 0 /\ style_mod' = ep' - k
  <2>1. PICK e \in Nat, s \in Nat : e = ep' /\ s = sp /\ Spans(s, e, j, k)
    BY <1>2
  <2>2. (e - s) - (k - j) = 0 /\ s - j = e - k
    <3>1. e \in Int /\ s \in Int /\ j \in Int /\ k \in Int /\ Spans(s, e, j, k)
      BY <2>1
    <3> QED
      BY <3>1, Shifts
  <2> QED
    BY <1>1, <1>3, <2>1, <2>2 DEF Extra
<1>6. GoingOn(j, k)'
  <2>1. (node' - back')..(node' - 1) = {}
    BY <1>1, <1>2
  <2> QED
    BY <2>1 DEF GoingOn
<1> QED
  BY <1>1, <1>4, <1>5, <1>6 DEF Marked

Turns(s, e, j, k, so, eo, ex, f, pres, post, kp) ==
    /\ s \in Int /\ e \in Int /\ j \in Int /\ k \in Int
    /\ so \in Int /\ eo \in Int /\ eo >= j
    /\ ex \in Int /\ ex = (e - s) - (k - j) /\ ex >= 0
    /\ f \in Int /\ f = so + (e - k)
    /\ pres \in Nat /\ post \in Nat /\ kp \in Int /\ ex >= pres + post
    /\ \/ post = 0 /\ kp = 0 /\ pres = 0 /\ (f < s => ex = 0)
       \/ kp = 0 /\ f - (pres + post) >= s
       \/ kp = j - so /\ kp > 0 /\ ex = pres + post /\ eo - so <= ex

Turned(s, e, j, k, so, ex, pres, post, kk, n, a) ==
    /\ post + a >= 0 /\ ex + (n + a) >= n + a
    /\ ex + (n + a) >= (pres + n) + (post + a)
    /\ \/ kk = 0 /\ so + ((e + (n + a)) - k) - ((pres + n) + (post + a)) >= s
       \/ kk = j - so /\ kk > 0 /\ ex + (n + a) = (pres + n) + (post + a)

LEMMA TurnsOn ==
    ASSUME NEW s, NEW e, NEW j, NEW k, NEW so, NEW eo, NEW ex, NEW f,
           NEW pres, NEW post, NEW kp, NEW n \in Nat, NEW a \in Nat,
           Turns(s, e, j, k, so, eo, ex, f, pres, post, kp)
    PROVE  Turned(s, e, j, k, so, ex, pres, post, kp + Larger(s - f, 0), n, a)
<1>1. CASE post = 0 /\ kp = 0 /\ pres = 0 /\ (f < s => ex = 0)
  BY <1>1 DEF Larger, Turns, Turned
<1>2. CASE kp = 0 /\ f - (pres + post) >= s
  BY <1>2 DEF Larger, Turns, Turned
<1>3. CASE kp = j - so /\ kp > 0 /\ ex = pres + post /\ eo - so <= ex
  BY <1>3 DEF Larger, Turns, Turned
<1> QED
  BY <1>1, <1>2, <1>3 DEF Turns

(* A range that is not nested in the one before, and begins before the line,  *)
(* is the first that is marked up on it.                                     *)
LEMMA FirstOfLine ==
    ASSUME WrapTyped, Complete, Small, Sized, Apart, Markable, MarkRange,
           NEW j, NEW k, OpenLine(j, k), Marked(j, k), ~SameRange(last, rng), from < sp
    PROVE  Extra(j, k) = 0
<1>1. /\ pc = "mark" /\ node \in 1..Len(styles) /\ rng = styles[node]
  BY RangeTyped DEF MarkRange, rng
<1>2. Extra(j, k) = 0 \/ \E pres \in Nat : Nested(j, k, pres)
  BY DEF Marked
<1>3. CASE \E pres \in Nat : Nested(j, k, pres)
  <2>1. PICK pres : Nested(j, k, pres)
    BY <1>3
  <2>2. PICK i \in 1..Len(styles) : i = node - 1 /\ i < node /\ last = styles[i]
    BY <1>1, <2>1 DEF Nested
  <2>3. styles[i].eo <= rng.so
    BY <1>1, <2>2 DEF Apart
  <2>4. styles[i].eo >= j
    BY <2>1, <2>2 DEF Nested
  <2>5. PICK so \in Nat, eo \in Nat : so = rng.so /\ eo = styles[i].eo
    BY <1>1, RangeIs
  <2>6. so >= j /\ j \in Nat /\ k \in Nat /\ sp \in Nat /\ ep \in Nat
    BY <1>1, <2>3, <2>4, <2>5, LineNumbers
  <2>7. from = so + (ep - k) /\ Extra(j, k) >= 0
    BY <2>5, MarkNumbers DEF Marked
  <2>8. (ep - sp) - (k - j) >= 0
    BY <2>7 DEF Extra
  <2> QED
    BY <2>6, <2>7, <2>8
<1> QED
  BY <1>2, <1>3

LEMMA ExtraGrows ==
    ASSUME WrapTyped, Complete, Small, Sized, Apart, MarkRange, NEW j, NEW k, OpenLine(j, k)
    PROVE  /\ Markup(rng) \in Nat /\ Markup(rng) = PreLen[rng.style] + PostLen[rng.style]
           /\ Extra(j, k)' = Extra(j, k) + Markup(rng)
           /\ ep' = ep + Markup(rng) /\ style_mod' = style_mod + Markup(rng)
<1>1. /\ pc = "mark" /\ node \in 1..Len(styles) /\ rng = styles[node] /\ sp' = sp
      /\ ep' = ep + PreLen[rng.style] + PostLen[rng.style]
      /\ style_mod' = style_mod + PreLen[rng.style] + PostLen[rng.style]
  BY RangeTyped DEF MarkRange, rng
<1>2. j \in Nat /\ k \in Nat /\ sp \in Nat /\ ep \in Nat /\ style_mod \in Int
  BY <1>1, LineNumbers DEF WrapTyped
<1>3. PICK n \in Nat, a \in Nat : n = PreLen[rng.style] /\ a = PostLen[rng.style]
  BY <1>1, RangeIs, MarkupAssumption
<1>4. Markup(rng) = n + a /\ Markup(rng) \in Nat
  BY <1>3 DEF Markup
<1>5. ep' = ep + (n + a) /\ style_mod' = style_mod + (n + a)
  <2>1. ep' = ep + n + a /\ style_mod' = style_mod + n + a
    BY <1>1, <1>3
  <2> QED
    BY <1>2, <2>1
<1>6. Extra(j, k)' = Extra(j, k) + (n + a)
  <2>1. PICK e \in Int, s \in Int : e = ep' /\ s = sp' /\ e = ep + (n + a) /\ s = sp
    BY <1>1, <1>2, <1>5
  <2>2. (e - s) - (k - j) = ((ep - sp) - (k - j)) + (n + a)
    BY <1>2, <2>1
  <2> QED
    BY <2>1, <2>2 DEF Extra
<1> QED
  BY <1>3, <1>4, <1>5, <1>6

(* A range that goes on is the last one of the line.                          *)
LEMMA GoesOn ==
    ASSUME WrapTyped, Complete, Small, Sized, Apart, Markable, MarkRange,
           NEW j, NEW k, OpenLine(j, k), Marked(j, k)
    PROVE  GoingOn(j, k)'
<1>1. /\ pc = "mark" /\ node \in 1..Len(styles) /\ rng = styles[node]
      /\ styles' = styles /\ sp' = sp /\ node' = node + 1
      /\ back' = back + IF to > ep THEN 1 ELSE 0
  BY RangeTyped DEF MarkRange, rng
<1>2. /\ j \in Nat /\ k \in Nat /\ sp \in Nat /\ ep \in Nat /\ back \in Nat /\ Len(styles) \in Nat
      /\ Extra(j, k) \in Int /\ Extra(j, k) >= 0
  BY <1>1, LineNumbers DEF WrapTyped, Marked
<1>3. Extra(j, k)' = Extra(j, k) + Markup(rng) /\ Markup(rng) \in Nat
  BY ExtraGrows
<1>4. /\ rng.eo >= j /\ rng.so + sp >= j
      /\ from = rng.so + (ep - k) /\ to = rng.eo + (ep - k) /\ from <= ep
  BY MarkNumbers
<1>5. PICK so \in Nat, eo \in Nat : so = rng.so /\ eo = rng.eo
  BY <1>1, RangeIs
<1>6. ASSUME NEW i \in (node - back)..(node - 1)
      PROVE  /\ styles[i].eo > k /\ styles[i].so + sp >= j
             /\ Extra(j, k)' >= Markup(styles[i])
  <2>1. styles[i].eo > k /\ styles[i].so + sp >= j /\ Extra(j, k) >= Markup(styles[i])
    BY DEF Marked, GoingOn
  <2>2. i \in 1..Len(styles)
    BY <1>1, <1>2 DEF WrapTyped
  <2>3. Markup(styles[i]) \in Nat
    BY <2>2, RangeIs
  <2> QED
    BY <1>2, <1>3, <2>1, <2>3
<1>7. CASE to > ep
  <2>1. eo > k
    BY <1>2, <1>4, <1>5, <1>7
  <2>2. Extra(j, k)' >= Markup(rng)
    BY <1>2, <1>3
  <2>3. \A i \in (node' - back')..(node' - 1) : i = node \/ i \in (node - back)..(node - 1)
    BY <1>1, <1>2, <1>7
  <2>4. \A i \in (node' - back')..(node' - 1) :
          styles'[i].eo > k /\ styles'[i].so + sp' >= j /\ Extra(j, k)' >= Markup(styles'[i])
    BY <1>1, <1>4, <1>5, <1>6, <2>1, <2>2, <2>3
  <2>5. \A r : Markup(r)' = Markup(r)
    BY DEF Markup
  <2> QED
    BY <2>4, <2>5 DEF GoingOn
<1>8. CASE ~(to > ep)
  <2>1. back = 0
    <3> SUFFICES ASSUME back # 0 PROVE FALSE
      OBVIOUS
    <3>1. back > 0 /\ back < node
      BY <1>1, <1>2 DEF WrapTyped
    <3>2. PICK i \in 1..Len(styles) : i = node - 1 /\ i < node /\ i \in (node - back)..(node - 1)
      BY <1>1, <1>2, <3>1
    <3>3. styles[i].eo > k
      BY <1>6, <3>2
    <3>4. styles[i].eo <= rng.so \/ styles[i].eo = rng.eo
      BY <1>1, <3>2 DEF Apart, SameRange
    <3>5. so > k \/ eo > k
      BY <1>2, <1>5, <3>2, <3>3, <3>4, RangeIs
    <3> QED
      BY <1>2, <1>4, <1>5, <1>8, <3>5
  <2>2. (node' - back')..(node' - 1) = {}
    BY <1>1, <1>8, <2>1
  <2> QED
    BY <2>2 DEF GoingOn
<1> QED
  BY <1>7, <1>8

LEMMA MarkNests ==
    ASSUME WrapTyped, Complete, Small, Sized, Apart, Markable, MarkRange,
           NEW j, NEW k, OpenLine(j, k), Marked(j, k)
    PROVE  \E pres \in Nat : Nested(j, k, pres)'
<1>1. /\ pc = "mark" /\ node \in 1..Len(styles) /\ rng = styles[node]
      /\ styles' = styles /\ sp' = sp /\ node' = node + 1 /\ last' = rng
  BY RangeTyped DEF MarkRange, rng
<1>2. PICK post, kp : /\ post = (IF SameRange(last, rng) THEN post_last ELSE 0)
                      /\ kp = (IF SameRange(last, rng) THEN keep ELSE 0)
  OBVIOUS
<1>3. PICK n \in Nat, a \in Nat : n = PreLen[rng.style] /\ a = PostLen[rng.style]
  BY <1>1, RangeIs, MarkupAssumption
<1>4. post_last' = post + a
  BY <1>2, <1>3 DEF MarkRange
<1>5. keep' = kp + Larger(sp - from, 0)
  <2>1. keep' = kp + Larger(Signed(Unsigned(sp - from)), 0)
    BY <1>2 DEF MarkRange
  <2> QED
    BY <2>1, MarkNumbers
<1>6. PICK so \in Nat, eo \in Nat, ex \in Int :
        so = rng.so /\ eo = rng.eo /\ ex = Extra(j, k) /\ ex >= 0 /\ ex = (ep - sp) - (k - j)
  <2>1. Extra(j, k) >= 0 /\ Extra(j, k) \in Int /\ Extra(j, k) = (ep - sp) - (k - j)
    BY <1>1, LineNumbers DEF Marked, Extra
  <2> QED
    BY <1>1, <2>1, RangeIs
<1>7. j \in Int /\ k \in Int /\ sp \in Int /\ ep \in Int
  BY <1>1, LineNumbers
<1>8. eo >= j /\ from \in Int /\ from = so + (ep - k)
  <2>1. rng.eo >= j /\ from \in Nat /\ from = rng.so + (ep - k)
    BY MarkNumbers
  <2> QED
    BY <1>6, <2>1
<1>9. /\ post \in Nat /\ kp \in Int
      /\ \E pres \in Nat :
           /\ ex >= pres + post
           /\ \/ post = 0 /\ kp = 0 /\ pres = 0 /\ ~SameRange(last, rng)
              \/ kp = 0 /\ from - (pres + post) >= sp
              \/ kp = j - so /\ kp > 0 /\ ex = pres + post /\ eo - so <= ex
  <2>1. /\ post \in Nat /\ kp \in Int
        /\ \E pres \in Nat :
             /\ Extra(j, k) >= pres + post
             /\ \/ post = 0 /\ kp = 0 /\ pres = 0 /\ ~SameRange(last, rng)
                \/ kp = 0 /\ from - (pres + post) >= sp
                \/ /\ kp = j - rng.so /\ kp > 0 /\ Extra(j, k) = pres + post
                   /\ rng.eo - rng.so <= Extra(j, k)
    BY <1>2, MarkCases
  <2> QED
    BY <1>6, <2>1
<1>10. ~SameRange(last, rng) /\ from < sp => ex = 0
  BY <1>6, FirstOfLine
<1>11. PICK pres \in Nat :
         /\ ex >= pres + post
         /\ \/ post = 0 /\ kp = 0 /\ pres = 0 /\ (from < sp => ex = 0)
            \/ kp = 0 /\ from - (pres + post) >= sp
            \/ kp = j - so /\ kp > 0 /\ ex = pres + post /\ eo - so <= ex
  BY <1>9, <1>10
<1>12. post \in Nat /\ kp \in Int
  BY <1>9
<1>13. Turns(sp, ep, j, k, so, eo, ex, from, pres, post, kp)
  <2>1. so \in Int /\ eo \in Int /\ ex \in Int /\ pres \in Nat
    OBVIOUS
  <2>2. ex = (ep - sp) - (k - j) /\ ex >= 0
    BY <1>6
  <2> QED
    BY <1>7, <1>8, <1>11, <1>12, <2>1, <2>2 DEF Turns
<1>14. PICK kk : kk = keep' /\ kk = kp + Larger(sp - from, 0)
  BY <1>5
<1>15. /\ post + a >= 0 /\ ex + (n + a) >= n + a
       /\ ex + (n + a) >= (pres + n) + (post + a)
       /\ \/ kk = 0 /\ so + ((ep + (n + a)) - k) - ((pres + n) + (post + a)) >= sp
          \/ kk = j - so /\ kk > 0 /\ ex + (n + a) = (pres + n) + (post + a)
  <2>1. Turned(sp, ep, j, k, so, ex, pres, post, kp + Larger(sp - from, 0), n, a)
    BY <1>13, TurnsOn
  <2>2. Turned(sp, ep, j, k, so, ex, pres, post, kk, n, a)
    BY <1>14, <2>1
  <2> QED
    BY <2>2 DEF Turned
<1>16. Extra(j, k)' = ex + (n + a) /\ Markup(rng) = n + a /\ style_mod' = (ep + (n + a)) - k
  <2>1. /\ Markup(rng) = PreLen[rng.style] + PostLen[rng.style]
        /\ Extra(j, k)' = Extra(j, k) + Markup(rng)
        /\ style_mod' = style_mod + Markup(rng)
    BY ExtraGrows
  <2>2. style_mod' = (ep - k) + (n + a) /\ Markup(rng) = n + a
    BY <1>3, <2>1 DEF Marked
  <2>3. (ep - k) + (n + a) = (ep + (n + a)) - k
    BY <1>7
  <2> QED
    BY <1>6, <2>1, <2>2, <2>3
<1>17. PICK p2 \in Nat : p2 = pres + n
  OBVIOUS
<1>18. Nested(j, k, p2)'
  <2>1. node' > 1 /\ last' = styles'[node' - 1]
    BY <1>1
  <2>2. post_last' >= 0 /\ last'.eo >= j
    BY <1>1, <1>4, <1>6, <1>8, <1>15
  <2>3. Markup(last)' = n + a
    <3>1. last' = rng
      BY <1>1
    <3>2. Markup(last)' = PreLen[last'.style] + PostLen[last'.style]
      BY DEF Markup
    <3> QED
      BY <1>3, <3>1, <3>2
  <2>4. /\ Extra(j, k)' >= Markup(last)'
        /\ Extra(j, k)' >= p2 + post_last'
    BY <1>4, <1>15, <1>16, <1>17, <2>3
  <2>5. \/ keep' = 0 /\ last'.so + style_mod' - (p2 + post_last') >= sp'
        \/ keep' = j - last'.so /\ keep' > 0 /\ Extra(j, k)' = p2 + post_last'
    BY <1>1, <1>4, <1>6, <1>14, <1>15, <1>16, <1>17
  <2> QED
    BY <2>1, <2>2, <2>4, <2>5 DEF Nested
<1> QED
  BY <1>18

LEMMA MarkMarked ==
    ASSUME WrapTyped, Complete, Small, Sized, Apart, Markable, MarkRange,
           NEW j, NEW k, OpenLine(j, k), Marked(j, k)
    PROVE  Marked(j, k)'
<1>1. /\ pc = "mark" /\ node \in 1..Len(styles)
      /\ styles' = styles /\ sp' = sp /\ node' = node + 1
  BY RangeTyped DEF MarkRange, rng
<1>2. GoingOn(j, k)' /\ \E pres \in Nat : Nested(j, k, pres)'
  BY GoesOn, MarkNests
<1>3. Coming(j)'
  <2>1. Coming(j)
    BY DEF Marked
  <2>2. \A i \in node'..Len(styles') : i \in node..Len(styles)
    BY <1>1
  <2> QED
    BY <1>1, <2>1, <2>2 DEF Coming
<1>4. style_mod' = ep' - k /\ Extra(j, k)' >= 0
  <2>1. /\ Markup(rng) \in Nat /\ Extra(j, k)' = Extra(j, k) + Markup(rng)
        /\ ep' = ep + Markup(rng) /\ style_mod' = style_mod + Markup(rng)
    BY ExtraGrows
  <2>2. Extra(j, k) \in Int /\ Extra(j, k) >= 0 /\ style_mod = ep - k /\ ep \in Nat /\ k \in Nat
    BY <1>1, LineNumbers DEF Marked
  <2> QED
    BY <2>1, <2>2
<1> QED
  BY <1>2, <1>3, <1>4 DEF Marked

(* What comes after the line comes behind the blanks that are dropped, and   *)
(* what goes on gets over them: its markup is longer.                        *)
LEMMA BehindBlanks ==
    ASSUME WrapTyped, Complete, Small, Sized, Apart, Markable, pc = "mark",
           NEW j, NEW k, OpenLine(j, k), NEW i \in 1..Len(styles)
    PROVE  /\ styles[i].so >= k => styles[i].so >= k + deleted
           /\ styles[i].eo > k =>
                /\ styles[i].eo >= k + deleted
                /\ styles[i].so >= k + deleted \/ deleted <= Markup(styles[i]) + 1
<1>1. /\ j \in Nat /\ k \in Nat /\ j < k
  BY LineNumbers
<1>2. /\ deleted \in Nat /\ Len(text) \in Nat /\ k + deleted <= Len(text)
      /\ \A g \in (k + 1)..(k + deleted) : Gap(g)
  <2>1. deleted \in Nat /\ Len(text) \in Nat
    BY DEF WrapTyped
  <2>2. Rest(buf, ep, k + deleted, Len(text)) /\ \A g \in (k + 1)..(k + deleted) : Gap(g)
    BY DEF OpenLine
  <2>3. k + deleted \in 0..Len(text)
    BY <2>2 DEF Rest
  <2> QED
    BY <1>1, <2>1, <2>2, <2>3
<1>3. PICK d \in Nat, n \in Nat : d = deleted /\ n = Len(text) /\ k + d <= n
  BY <1>2
<1>4. PICK so \in Nat, eo \in Nat, mk \in Nat :
        so = styles[i].so /\ eo = styles[i].eo /\ mk = Markup(styles[i]) /\ so <= eo /\ eo <= n
  BY <1>3, RangeIs
<1>5. \A g \in (k + 1)..(k + d) : g \in 1..n /\ Gap(g)
  BY <1>1, <1>2, <1>3
<1>6. so >= k => so >= k + d
  <2> SUFFICES ASSUME so >= k, so < k + d PROVE FALSE
    BY <1>1
  <2>1. so + 1 \in (k + 1)..(k + d)
    BY <1>1
  <2>2. so + 1 \in 1..Len(text) /\ Gap(so + 1)
    BY <1>3, <1>5, <2>1
  <2>3. ~Gap(so + 1)
    BY <1>4, <2>2, MarkableIs
  <2> QED
    BY <2>2, <2>3
<1>7. ASSUME eo > k PROVE eo >= k + d
  <2> SUFFICES ASSUME eo < k + d PROVE FALSE
    BY <1>1
  <2>1. eo \in (k + 1)..(k + d) /\ eo > 0
    BY <1>1, <1>7
  <2>2. eo \in 1..Len(text) /\ Gap(eo)
    BY <1>3, <1>5, <2>1
  <2>3. ~Gap(eo)
    BY <1>4, <2>1, <2>2, MarkableIs
  <2> QED
    BY <2>2, <2>3
<1>8. ASSUME eo > k PROVE so >= k + d \/ d <= mk + 1
  <2> SUFFICES ASSUME so < k, d > 0 PROVE d <= mk + 1
    BY <1>1, <1>6
  <2>1. eo >= k + d
    BY <1>7, <1>8
  <2>2. PICK a \in Nat, b \in Nat : a = k + 1 /\ b = k + d
    BY <1>1
  <2>3. a \in (so + 1)..eo /\ b \in (so + 1)..eo /\ a \in (k + 1)..(k + d)
    BY <1>1, <2>1, <2>2
  <2>4. \A c \in a..b : c \in 1..Len(text) /\ Gap(c)
    BY <1>3, <1>5, <2>2
  <2>5. \A x, y \in (styles[i].so + 1)..(styles[i].eo) :
          (\A c \in x..y : c \in 1..Len(text) /\ Gap(c)) => y - x <= Markup(styles[i])
    <3>1. a \in 1..Len(text) /\ Gap(a)
      BY <1>3, <1>5, <2>3
    <3> QED
      BY <3>1, MarkableIs
  <2>6. b - a <= Markup(styles[i])
    BY <1>4, <2>3, <2>4, <2>5
  <2> QED
    BY <1>1, <1>4, <2>2, <2>6
<1> QED
  BY <1>3, <1>4, <1>6, <1>7, <1>8

(* The iterator has stopped at a range that begins behind the line.           *)
LEMMA StopsBehind ==
    ASSUME WrapTyped, Complete, Small, Sized, Apart, Markable, pc = "mark",
           NEW j, NEW k, OpenLine(j, k), Marked(j, k), node <= Len(styles), AfterLine
    PROVE  rng.so >= k /\ to > ep
<1>1. /\ node \in 1..Len(styles) /\ rng = styles[node]
  BY RangeTyped DEF rng
<1>2. PICK so \in Nat, eo \in Nat, n \in Nat, M \in Nat :
        /\ so = rng.so /\ eo = rng.eo /\ n = Len(text) /\ M = Modulus /\ so <= eo /\ eo <= n
  BY <1>1, RangeIs, LineNumbers
<1>3. /\ j \in Nat /\ k \in Nat /\ j < k /\ k <= n
      /\ sp \in Nat /\ ep \in Nat /\ len \in Nat /\ sp < ep /\ ep <= len
      /\ 2 * n < M /\ 2 * len < M
  BY <1>1, <1>2, LineNumbers
<1>4. /\ style_mod = ep - k /\ eo >= j /\ so + sp >= j
      /\ (ep - sp) - (k - j) >= 0
  <2>1. node \in node..Len(styles)
    BY <1>1
  <2> QED
    BY <1>1, <1>2, <2>1 DEF Marked, Coming, Extra
<1>5. PICK f \in Int, t \in Int : f = so + (ep - k) /\ t = eo + (ep - k)
  BY <1>2, <1>3
<1>6. f \in 0..(M - 1) /\ t \in 0..(M - 1)
  <2>1. f >= 0
    BY <1>3, <1>4, <1>5
  <2>2. f <= t /\ t <= n + len
    BY <1>2, <1>3, <1>5
  <2>3. n + len < M
    BY <1>3
  <2> QED
    BY <1>3, <2>1, <2>2, <2>3
<1>7. from = f /\ to = t
  <2>1. from = Unsigned(f) /\ to = Unsigned(t)
    BY <1>2, <1>4, <1>5 DEF from, to
  <2> QED
    BY <1>2, <1>6, <2>1, UnsignedIs
<1>8. f >= ep /\ (so # eo \/ f > ep)
  BY <1>2, <1>7 DEF AfterLine
<1>9. so >= k /\ t > ep
  <2>1. PICK e \in Nat, kk \in Nat : e = ep /\ kk = k
    BY <1>3
  <2>2. f = so + (e - kk) /\ t = eo + (e - kk) /\ f >= e /\ (so # eo \/ f > e)
    BY <1>5, <1>8, <2>1
  <2>3. so <= eo
    BY <1>2
  <2>4. so >= kk /\ t > e
    BY <2>2, <2>3
  <2> QED
    BY <2>1, <2>4
<1> QED
  BY <1>2, <1>7, <1>9

LEMMA FinishShifts ==
    ASSUME WrapTyped, Complete, NoMargins, FinishLine, pc' = "cut"
    PROVE  /\ ep < len
           /\ \E n \in Nat : sp' = ep + n + 1 /\ style_mod' = style_mod + n + 1 - deleted
<1>1. pre_text = <<>> /\ app_text = <<>>
  BY DEF NoMargins, pre_text, app_text
<1>2. PICK n \in Nat : n = Len(kept_text)
  BY FinishIs
<1>3. /\ sp' = ep + (Len(kept_text) + Len(pre_text) + Len(app_text) + 1)
      /\ style_mod' = style_mod + Len(kept_text) + 1 - deleted
      /\ pc' = IF ep + (Len(kept_text) + Len(pre_text) + Len(app_text) + 1)
                    < len + (Len(kept_text) + Len(pre_text) + Len(app_text) + 1)
                 THEN "cut" ELSE "printed"
  BY DEF FinishLine, kept_text, pre_text, app_text
<1>4. n + Len(<<>>) + Len(<<>>) + 1 = n + 1
  OBVIOUS
<1>5. ep \in Nat /\ len \in Nat
  BY DEF WrapTyped
<1>6. /\ sp' = ep + (n + 1) /\ style_mod' = style_mod + n + 1 - deleted
      /\ pc' = IF ep + (n + 1) < len + (n + 1) THEN "cut" ELSE "printed"
  BY <1>1, <1>2, <1>3, <1>4
<1>7. ep + (n + 1) = ep + n + 1
  BY <1>5
<1>8. ep < len
  <2>1. ep + (n + 1) < len + (n + 1)
    BY <1>6
  <2> QED
    BY <1>5, <2>1
<1> QED
  BY <1>6, <1>7, <1>8

LEMMA FinishWaits ==
    ASSUME WrapTyped, Complete, Small, Sized, NoMargins, Apart, Markable, FinishLine, pc' = "cut",
           NEW j, NEW k, OpenLine(j, k), Marked(j, k), NEW d, d = k + deleted
    PROVE  Waiting(d)'
<1>1. pc = "mark" /\ (node <= Len(styles) => AfterLine) /\ styles' = styles
  BY DEF FinishLine
<1>2. /\ j \in Nat /\ k \in Nat /\ j < k /\ sp \in Nat /\ ep \in Nat
      /\ deleted \in Nat /\ back \in Nat /\ node \in Nat /\ node > back
      /\ Extra(j, k) \in Int /\ Len(styles) \in Nat
  BY <1>1, LineNumbers DEF WrapTyped
<1>3. PICK n \in Nat : sp' = ep + n + 1 /\ style_mod' = style_mod + n + 1 - deleted
  BY FinishShifts
<1>4. /\ style_mod = ep - k /\ Extra(j, k) >= 0 /\ Coming(j) /\ GoingOn(j, k)
      /\ Extra(j, k) = (ep - sp) - (k - j)
  BY DEF Marked, Extra
<1>5. style_mod' = sp' - d
  <2>1. style_mod' = (ep - k) + n + 1 - deleted
    BY <1>3, <1>4
  <2>2. (ep - k) + n + 1 - deleted = (ep + n + 1) - (k + deleted)
    BY <1>2
  <2> QED
    BY <1>3, <2>1, <2>2
<1>6. node' = node - back
  <2>1. CASE node > Len(styles)
    BY <2>1 DEF FinishLine
  <2>2. CASE node <= Len(styles)
    <3>1. to > ep /\ ~(node > Len(styles))
      BY <1>1, <1>2, <2>2, StopsBehind
    <3> QED
      BY <3>1 DEF FinishLine
  <2> QED
    BY <1>2, <2>1, <2>2
<1>7. ASSUME NEW i \in node..Len(styles)
      PROVE  styles[i].so >= k /\ i \in 1..Len(styles)
  <2>1. i \in 1..Len(styles) /\ node \in 1..Len(styles) /\ rng = styles[node]
    BY <1>2 DEF rng
  <2>2. styles[node].so >= k
    BY <1>1, <2>1, StopsBehind
  <2>3. CASE i = node
    BY <2>1, <2>2, <2>3
  <2>4. CASE i # node
    <3>1. node < i
      BY <1>2, <2>1, <2>4
    <3>2. styles[node].eo <= styles[i].so \/ styles[node].so = styles[i].so
      BY <2>1, <3>1 DEF Apart, SameRange
    <3>3. PICK a \in Nat, b \in Nat, c \in Nat :
            a = styles[node].so /\ b = styles[node].eo /\ c = styles[i].so /\ a <= b
      BY <2>1, RangeIs
    <3>4. c >= k
      BY <1>2, <2>2, <3>2, <3>3
    <3> QED
      BY <2>1, <3>3, <3>4
  <2> QED
    BY <2>3, <2>4
<1>8. ASSUME NEW i \in (node - back)..Len(styles)
      PROVE  styles[i].eo >= d /\ styles[i].so + sp' >= d
  <2>1. i \in 1..Len(styles)
    BY <1>2
  <2>2. PICK so \in Nat, eo \in Nat, mk \in Nat :
          so = styles[i].so /\ eo = styles[i].eo /\ mk = Markup(styles[i]) /\ so <= eo
    BY <2>1, RangeIs
  <2>3. /\ so >= k => so >= d
        /\ eo > k => eo >= d /\ (so >= d \/ deleted <= mk + 1)
    <3>1. /\ styles[i].so >= k => styles[i].so >= k + deleted
          /\ styles[i].eo > k =>
               /\ styles[i].eo >= k + deleted
               /\ styles[i].so >= k + deleted \/ deleted <= Markup(styles[i]) + 1
      BY <1>1, <2>1, BehindBlanks
    <3> QED
      BY <2>2, <3>1
  <2>4. CASE so >= d
    <3>1. eo >= d
      BY <1>2, <2>2, <2>4
    <3>2. so + sp' >= d
      BY <1>2, <1>3, <2>4
    <3> QED
      BY <2>2, <3>1, <3>2
  <2>5. CASE i \in (node - back)..(node - 1) /\ ~(so >= d)
    <3>1. styles[i].eo > k /\ styles[i].so + sp >= j /\ Extra(j, k) >= Markup(styles[i])
      BY <1>4, <2>5 DEF GoingOn
    <3>2. eo > k /\ so + sp >= j /\ (ep - sp) - (k - j) >= mk
      BY <1>4, <2>2, <3>1
    <3>3. eo >= d /\ deleted <= mk + 1
      BY <2>3, <2>5, <3>2
    <3>4. so + ep >= k + mk
      BY <1>2, <3>2
    <3>5. so + (ep + n + 1) >= k + deleted
      BY <1>2, <3>3, <3>4
    <3> QED
      BY <1>3, <2>2, <3>3, <3>5
  <2>6. CASE i \in node..Len(styles)
    <3>1. so >= k
      BY <1>7, <2>2, <2>6
    <3> QED
      BY <2>3, <2>4, <3>1
  <2>7. i \in (node - back)..(node - 1) \/ i \in node..Len(styles)
    BY <1>2
  <2> QED
    BY <2>4, <2>5, <2>6, <2>7
<1>9. Coming(d)'
  BY <1>1, <1>6, <1>8 DEF Coming
<1> QED
  BY <1>5, <1>9 DEF Waiting

-----------------------------------------------------------------------------
(* What the printed lines are then.                                          *)
Barren == \A p \in 1..Len(buf) : buf[p].kind \notin Visible

Lined ==
    /\ pc = "cut" => \E j : Printed(sp, j) /\ (styles = <<>> \/ Waiting(j))
    /\ pc = "mark" => \E j, k : OpenLine(j, k) /\ (styles = <<>> \/ Marked(j, k))
    /\ pc = "printed" =>
         \/ text = <<>> /\ Barren
         \/ sp = Len(buf) /\ \E j : Printed(sp, j)

LEMMA LineGrows ==
    ASSUME NEW p \in Nat, NEW q \in Nat, NEW r \in Int, p < r, r < q, r > 0, buf[r].kind = "newline"
    PROVE  LineOf(p) \in Nat /\ LineOf(q) \in Nat /\ LineOf(p) < LineOf(q)
<1> DEFINE S(n) == {i \in 1..(n - 1) : buf[i].kind = "newline"}
<1>1. \A n \in Nat : IsFiniteSet(S(n)) /\ Cardinality(S(n)) \in Nat
  <2> TAKE n \in Nat
  <2>1. IsFiniteSet(1..(n - 1))
    BY FS_Interval
  <2>2. S(n) \in SUBSET (1..(n - 1))
    OBVIOUS
  <2>3. IsFiniteSet(S(n))
    BY <2>1, <2>2, FS_Subset
  <2> QED
    BY <2>3, FS_CardinalityType
<1>2. S(p) \in SUBSET S(q)
  OBVIOUS
<1>3. r \in S(q) /\ r \notin S(p)
  OBVIOUS
<1>4. LineOf(p) = Cardinality(S(p)) /\ LineOf(q) = Cardinality(S(q))
  BY DEF LineOf
<1> HIDE DEF S
<1>5. /\ Cardinality(S(p)) \in Nat /\ Cardinality(S(q)) \in Nat
      /\ Cardinality(S(p)) <= Cardinality(S(q))
      /\ Cardinality(S(q)) = Cardinality(S(p)) => S(q) = S(p)
  BY <1>1, <1>2, FS_Subset
<1>6. Cardinality(S(q)) # Cardinality(S(p))
  BY <1>3, <1>5
<1> QED
  BY <1>4, <1>5, <1>6

LEMMA BlanksLost ==
    ASSUME Ordered(buf, Len(text)), NoneLost(buf, Len(text))
    PROVE  TextComplete
<1>1. ASSUME NEW i \in 1..Len(text), ~Kept(i) PROVE Gap(i)
  <2>1. ~Holds(buf, i)
    BY <1>1 DEF Kept, Shown, Holds
  <2> QED
    BY <2>1 DEF NoneLost
<1>2. \A i \in 1..Len(text) : ~Kept(i) => text[i] = " "
  BY <1>1, Zenon DEF Gap
<1>3. \A p, q \in Shown({"char"}) : p < q => buf[p].of < buf[q].of
  BY DEF Shown, Ordered
<1> QED
  BY <1>2, <1>3, Zenon DEF TextComplete

LEMMA LinesAreWhole ==
    ASSUME buf \in Seq(Cells), Len(text) \in Nat,
           Ordered(buf, Len(text)), Pieces(buf, Len(buf))
    PROVE  LinesWhole
<1> SUFFICES ASSUME NEW i \in {n \in 1..Len(text) : Kept(n)}, NEW j \in {n \in 1..Len(text) : Kept(n)},
                    i + 1 < j, \A n \in (i + 1)..(j - 1) : ~Kept(n)
             PROVE  LineOf(CellOf(i)) < LineOf(CellOf(j))
  BY Zenon DEF LinesWhole
<1>1. PICK p \in Shown({"char"}) : buf[p].of = i /\ p = CellOf(i)
  BY DEF Kept, CellOf
<1>2. PICK q \in Shown({"char"}) : buf[q].of = j /\ q = CellOf(j)
  BY DEF Kept, CellOf
<1>3. /\ p \in 1..Len(buf) /\ buf[p].kind = "char" /\ q \in 1..Len(buf) /\ buf[q].kind = "char"
      /\ i \in Int /\ j \in Int /\ Len(buf) \in Nat
  BY DEF Shown
<1>4. p < q
  <2>1. q < p => j < i
    BY <1>1, <1>2, <1>3 DEF Ordered
  <2>2. p = q => i = j
    BY <1>1, <1>2
  <2> QED
    BY <1>3, <2>1, <2>2
<1>5. i + 1 \in i..j /\ i + 1 \in (i + 1)..(j - 1)
  BY <1>3
<1>6. ~\E r \in p..q : buf[r].kind = "char" /\ buf[r].of = i + 1
  <2>1. \A r \in p..q : r \in 1..Len(buf)
    BY <1>3
  <2>2. ~Kept(i + 1)
    BY <1>5
  <2> QED
    BY <2>1, <2>2 DEF Kept, Shown
<1>7. PICK r \in p..q : buf[r].kind = "newline"
  <2>1. \/ \E r \in p..q : buf[r].kind = "newline"
        \/ \A n \in (buf[p].of)..(buf[q].of) :
             \E r \in p..q : buf[r].kind = "char" /\ buf[r].of = n
    BY <1>3, <1>4 DEF Pieces
  <2>2. \/ \E r \in p..q : buf[r].kind = "newline"
        \/ \A n \in i..j : \E r \in p..q : buf[r].kind = "char" /\ buf[r].of = n
    BY <1>1, <1>2, <2>1
  <2> QED
    BY <1>5, <1>6, <2>2
<1>8. r \in Int /\ p < r /\ r < q /\ r > 0 /\ p \in Nat /\ q \in Nat
  BY <1>3, <1>7
<1>9. LineOf(p) < LineOf(q)
  BY <1>7, <1>8, LineGrows
<1> QED
  BY <1>1, <1>2, <1>9

LEMMA LinesFit ==
    ASSUME buf \in Seq(Cells), opt.width \in Nat, Columns(buf, Len(buf), opt.width)
    PROVE  \A l \in {LineOf(p) : p \in 1..Len(buf)} :
             Cardinality({p \in Shown(Visible) : LineOf(p) = l}) <= opt.width
<1> SUFFICES ASSUME NEW l PROVE Cardinality({p \in Shown(Visible) : LineOf(p) = l}) <= opt.width
  OBVIOUS
<1> DEFINE S == {p \in Shown(Visible) : LineOf(p) = l}
<1>0. Len(buf) \in Nat
  OBVIOUS
<1>1. PICK f : ColumnsAre(f, buf, Len(buf), opt.width)
  BY DEF Columns
<1>2. \A p \in S : p \in 1..Len(buf) /\ buf[p].kind \in Visible /\ LineOf(p) = l
  BY DEF Shown
<1>3. IsFiniteSet(S) /\ Cardinality(S) \in Nat
  <2>1. S \in SUBSET (1..Len(buf))
    BY <1>2
  <2>2. IsFiniteSet(1..Len(buf))
    BY <1>0, FS_Interval
  <2>3. IsFiniteSet(S)
    BY <2>1, <2>2, FS_Subset
  <2> QED
    BY <2>3, FS_CardinalityType
<1> HIDE DEF S
<1>4. IsFiniteSet(1..opt.width) /\ Cardinality(1..opt.width) = opt.width
  BY FS_Interval
<1> DEFINE g == [p \in S |-> f[p]]
<1>5. g \in [S -> 1..opt.width]
  BY <1>1, <1>2 DEF ColumnsAre
<1>6. ASSUME NEW p \in S, NEW q \in S, p < q PROVE g[p] # g[q]
  <2> SUFFICES ASSUME g[p] = g[q] PROVE FALSE
    OBVIOUS
  <2>1. PICK r \in p..q : buf[r].kind = "newline"
    BY <1>1, <1>2, <1>6 DEF ColumnsAre
  <2>2. r # p /\ r # q
    BY <1>2, <2>1 DEF Visible
  <2>3. p \in Nat /\ q \in Nat /\ r \in Int /\ p < r /\ r < q /\ r > 0
    BY <1>0, <1>2, <2>2
  <2>4. LineOf(p) \in Nat /\ LineOf(p) < LineOf(q)
    BY <2>1, <2>3, LineGrows
  <2> QED
    BY <1>2, <2>4
<1>7. ~(opt.width < Cardinality(S))
  <2> SUFFICES ASSUME opt.width < Cardinality(S) PROVE FALSE
    OBVIOUS
  <2>1. PICK p \in S, q \in S : p # q /\ g[p] = g[q]
    <3> HIDE DEF g
    <3> QED
      BY <1>3, <1>4, <1>5, FS_PigeonHole
  <2>2. p \in Int /\ q \in Int
    BY <1>2
  <2>3. p < q \/ q < p
    BY <2>1, <2>2
  <2> QED
    BY <1>6, <2>1, <2>3
<1> QED
  BY <1>3, <1>7 DEF S

LEMMA LinedIsKept ==
    ASSUME WrapTyped, Complete, Lined
    PROVE  TextKept
<1> SUFFICES ASSUME pc = "printed" PROVE TextComplete /\ LinesWhole
  BY DEF TextKept
<1>1. /\ buf \in Seq(Cells) /\ Len(text) \in Nat
      /\ Ordered(buf, Len(text)) /\ NoneLost(buf, Len(text))
  BY DEF WrapTyped, Complete
<1>2. TextComplete
  BY <1>1, BlanksLost
<1>3. CASE text = <<>>
  <2>1. 1..Len(text) = {}
    BY <1>3
  <2> QED
    BY <1>2, <2>1 DEF LinesWhole
<1>4. CASE text # <<>>
  <2>1. Pieces(buf, Len(buf))
    BY <1>4 DEF Lined, Printed
  <2> QED
    BY <1>1, <1>2, <2>1, LinesAreWhole
<1> QED
  BY <1>3, <1>4

LEMMA LinedFits ==
    ASSUME WrapTyped, opt.width \in Nat, Lined
    PROVE  WidthRespected
<1> SUFFICES ASSUME pc = "printed", prelen = prepend_mb.length
             PROVE  \A l \in {LineOf(p) : p \in 1..Len(buf)} :
                      Cardinality({p \in Shown(Visible) : LineOf(p) = l}) <= opt.width
  BY DEF WidthRespected
<1>1. buf \in Seq(Cells)
  BY DEF WrapTyped
<1>2. CASE Barren
  <2>1. Shown(Visible) = {}
    BY <1>2 DEF Barren, Shown
  <2>2. \A l : {p \in Shown(Visible) : LineOf(p) = l} = {}
    BY <2>1
  <2> QED
    BY <2>2, FS_EmptySet
<1>3. CASE ~Barren
  <2>1. Columns(buf, Len(buf), opt.width)
    BY <1>3 DEF Lined, Printed
  <2> QED
    BY <1>1, <2>1, LinesFit
<1> QED
  BY <1>2, <1>3

LEMMA LinedRests ==
    pc' \notin {"cut", "mark", "printed"} => Lined'
  BY DEF Lined

LEMMA LinedStart ==
    ASSUME WrapTyped, opt.retain \in Nat, opt.width \in Nat, WrapTyped',
           NEW line \in Seq(Alphabet), NEW ranges \in Seq(StyleRange),
           NEW pre, NEW app, Start(line, ranges, pre, app)
    PROVE  Lined'
<1> DEFINE n == Len(line)
           cells == Row("char", n)
<1>1. /\ pc = "idle" /\ text' = line /\ sp' = sp
      /\ n = 0 => buf' = apply_styles(cells, ranges, Unbounded) \o Newline /\ pc' = "printed"
      /\ n # 0 => buf' = cells /\ pc' = "cut"
  BY DEF Start
<1>2. sp' = 0 /\ n \in Nat
  <2>1. n \in Nat
    OBVIOUS
  <2>2. pc \in {"options", "dead", "idle"}
    BY <1>1
  <2>3. sp = 0
    BY <2>2 DEF WrapTyped, Rested
  <2> QED
    BY <1>1, <2>1, <2>3
<1>3. CASE n = 0
  <2>1. text' = <<>>
    BY <1>1, <1>3
  <2>2. Shows(apply_styles(cells, ranges, Unbounded), "char", n)
    <3>1. "char" \in Letters /\ Unbounded \in Int
      BY ModulusFacts DEF Letters, Unbounded
    <3>2. Shows(cells, "char", n)
      BY <1>2, <3>1, RowShows
    <3> QED
      BY <1>2, <3>1, <3>2, ApplyShows
  <2>3. PICK x : x = apply_styles(cells, ranges, Unbounded)
    OBVIOUS
  <2>4. /\ x \in Seq(Cells) /\ buf' = x \o Newline
        /\ \A p \in 1..Len(x) : x[p].kind \notin Visible
    <3>1. \A p \in 1..Len(x) : x[p].kind \in {"pre", "post", "char"} /\ x[p].kind # "char"
      BY <1>3, <2>2, <2>3 DEF Shows
    <3> QED
      BY <1>1, <1>3, <2>2, <2>3, <3>1 DEF Shows, Visible
  <2>5. \A p \in 1..Len(Newline) : Newline[p].kind \notin Visible
    BY NewlineIs DEF Visible
  <2>6. \A p \in 1..Len(buf') : buf'[p].kind \notin Visible
    <3>1. Newline \in Seq(Cells)
      BY NewlineIs
    <3>2. /\ Len(buf') = Len(x) + Len(Newline)
          /\ \A i \in 1..Len(x) : buf'[i] = x[i]
          /\ \A i \in 1..Len(Newline) : buf'[Len(x) + i] = Newline[i]
          /\ \A i \in 1..(Len(x) + Len(Newline)) :
               \/ i \in 1..Len(x)
               \/ i - Len(x) \in 1..Len(Newline) /\ i = Len(x) + (i - Len(x))
      <4>1. /\ \A i \in 1..Len(x) : (x \o Newline)[i] = x[i]
            /\ Len(x \o Newline) = Len(x) + Len(Newline)
        BY <2>4, <3>1, JoinIs
      <4>2. \A i \in 1..Len(Newline) : (x \o Newline)[Len(x) + i] = Newline[i]
        BY <2>4, <3>1, JoinIs
      <4>3. \A i \in 1..(Len(x) + Len(Newline)) :
               \/ i \in 1..Len(x)
               \/ i - Len(x) \in 1..Len(Newline) /\ i = Len(x) + (i - Len(x))
        BY <2>4, <3>1, JoinIs
      <4> QED
        BY <2>4, <4>1, <4>2, <4>3
    <3> QED
      BY <2>4, <2>5, <3>2
  <2>7. Barren'
    BY <2>6 DEF Barren
  <2> QED
    BY <1>1, <1>3, <2>1, <2>7 DEF Lined
<1>4. CASE n # 0
  <2>1. /\ buf' = cells /\ Len(cells) = n /\ cells \in Seq(Cells)
        /\ \A i \in 1..n : cells[i].kind = "char" /\ cells[i].of = i
    BY <1>1, <1>2, <1>4, RowHolds
  <2> HIDE DEF cells
  <2>2. Rest(buf', 0, 0, n)
    BY <1>2, <2>1 DEF Rest
  <2>3. Pieces(buf', 0) /\ LineStarts(buf', 0)
    BY DEF Pieces, LineStarts
  <2>4. \A w : Columns(buf', 0, w)
    <3>1. [p \in 1..0 |-> 0] \in [1..0 -> Int]
      OBVIOUS
    <3>2. \A w : ColumnsAre([p \in 1..0 |-> 0], buf', 0, w)
      BY DEF ColumnsAre
    <3> QED
      BY <3>1, <3>2 DEF Columns
  <2>5. Rest(buf, sp, 0, Len(text))'
    BY <1>1, <1>2, <2>2 DEF Rest
  <2>6. Pieces(buf, sp)' /\ LineStarts(buf, sp)'
    BY <1>2, <2>3 DEF Pieces, LineStarts
  <2>7. Columns(buf, sp, opt.width)'
    BY <1>2, <2>4 DEF Columns, ColumnsAre
  <2>8. Printed(sp, 0)' /\ Waiting(0)'
    BY <2>5, <2>6, <2>7, StartWaits DEF Printed
  <2> QED
    BY <1>1, <1>4, <2>8 DEF Lined
<1> QED
  BY <1>3, <1>4

LEMMA LinedCuts ==
    ASSUME WrapTyped, WrapTyped', Complete, Small, Sized, Limits, Fits, Lined, CutLine
    PROVE  Lined'
<1>1. pc = "cut" /\ pc' = "mark" /\ styles' = styles /\ ep' \in Nat
  BY DEF CutLine, Cut, WrapTyped
<1>2. PICK j : Printed(sp, j) /\ (styles = <<>> \/ Waiting(j))
  BY <1>1 DEF Lined
<1>3. PICK k : OpenLine(j, k)' /\ Spans(sp, ep', j, k)
  BY <1>2, LinedCut
<1>4. j \in Nat /\ k \in Nat
  BY <1>3 DEF OpenLine
<1>5. styles' = <<>> \/ Marked(j, k)'
  BY <1>1, <1>2, <1>3, <1>4, CutMarked
<1> QED
  BY <1>1, <1>3, <1>5 DEF Lined

LEMMA LinedMarks ==
    ASSUME WrapTyped, Complete, Small, Small', Sized, Room, Lined, MarkRange
    PROVE  Lined'
<1>1. pc = "mark" /\ pc' = "mark" /\ node \in 1..Len(styles)
  BY RangeTyped DEF MarkRange
<1>2. styles # <<>>
  <2>1. Len(<<>>) = 0 /\ 1..0 = {}
    OBVIOUS
  <2> QED
    BY <1>1, <2>1
<1>3. Apart /\ Markable
  BY <1>2 DEF Room
<1>4. PICK j, k : OpenLine(j, k) /\ Marked(j, k)
  BY <1>1, <1>2 DEF Lined
<1>5. /\ Smaller(Unsigned(at_pre), Len(buf)) \in sp..ep
      /\ Smaller(Unsigned(at_post), Len(buf) + PreLen[rng.style]) \in sp..(ep + PreLen[rng.style])
  BY <1>3, <1>4, MarkPlaced
<1>6. OpenLine(j, k)'
  BY <1>4, <1>5, LinedMark
<1>7. Marked(j, k)'
  BY <1>3, <1>4, MarkMarked
<1> QED
  BY <1>1, <1>6, <1>7 DEF Lined

LEMMA LinedFinishes ==
    ASSUME WrapTyped, WrapTyped', Complete, Complete', Small, Sized, Sized', Limits, Room, Lined, FinishLine
    PROVE  Lined'
<1>1. pc = "mark" /\ pc' \in {"cut", "printed"} /\ styles' = styles /\ deleted' = deleted
  BY DEF FinishLine
<1>2. PICK j, k : OpenLine(j, k) /\ (styles = <<>> \/ Marked(j, k))
  BY <1>1 DEF Lined
<1>3. PICK d : d = k + deleted /\ Printed(sp, d)'
  BY <1>1, <1>2, LinedFinish DEF Room
<1>4. pc' = "cut" => styles' = <<>> \/ Waiting(d)'
  <2> SUFFICES ASSUME pc' = "cut", styles # <<>> PROVE Waiting(d)'
    BY <1>1
  <2>1. NoMargins /\ Apart /\ Markable
    BY DEF Room
  <2> QED
    BY <1>2, <1>3, <2>1, FinishWaits
<1>5. pc' = "printed" => sp' = Len(buf')
  <2> SUFFICES ASSUME pc' = "printed" PROVE sp' = Len(buf')
    OBVIOUS
  <2>1. PICK more \in Nat : sp' = ep + more /\ len' = len + more /\ ~(ep + more < len + more)
    <3> DEFINE more == Len(kept_text) + Len(pre_text) + Len(app_text) + 1
    <3>1. /\ len' = len + more /\ sp' = ep + more
          /\ pc' = IF ep + more < len + more THEN "cut" ELSE "printed"
      BY DEF FinishLine, kept_text, pre_text, app_text
    <3>2. more \in Nat /\ more > 0
      BY FinishIs
    <3> HIDE DEF more
    <3> QED
      BY <3>1, <3>2
  <2>2. /\ ep \in Nat /\ len \in Nat /\ ep <= len
        /\ text # <<>> /\ text' = text
    BY <1>1 DEF WrapTyped, Sized, Complete, FinishLine
  <2>3. len' = Len(buf')
    BY <2>2 DEF Complete
  <2> QED
    BY <2>1, <2>2, <2>3
<1> QED
  BY <1>1, <1>3, <1>4, <1>5 DEF Lined

-----------------------------------------------------------------------------
(* Each line takes some of the text with it.                                 *)
Ahead(b, c) == {p \in {q \in 1..Len(b) : b[q].kind \in {"char"}} : p > c}

LEMMA AheadIsFinite ==
    ASSUME NEW b \in Seq(Cells), NEW c
    PROVE  IsFiniteSet(Ahead(b, c)) /\ Cardinality(Ahead(b, c)) \in Nat
<1>1. Len(b) \in Int
  OBVIOUS
<1>2. IsFiniteSet(1..Len(b))
  BY <1>1, FS_Interval
<1>3. Ahead(b, c) \in SUBSET (1..Len(b))
  BY DEF Ahead
<1>4. IsFiniteSet(Ahead(b, c))
  BY <1>2, <1>3, FS_Subset
<1> QED
  BY <1>4, FS_CardinalityType

LEMMA RestIsAhead ==
    ASSUME NEW b \in Seq(Cells), NEW c \in Nat, NEW m, NEW n \in Nat, Rest(b, c, m, n)
    PROVE  /\ n - m \in Nat
           /\ IsFiniteSet((c + 1)..Len(b)) /\ Cardinality((c + 1)..Len(b)) = n - m
           /\ Ahead(b, c) = (c + 1)..Len(b)
<1>1. m \in 0..n /\ c \in 0..Len(b) /\ Len(b) - c = n - m /\ Len(b) \in Nat
  BY DEF Rest
<1>2. /\ IsFiniteSet((c + 1)..Len(b))
      /\ Cardinality((c + 1)..Len(b)) = IF c + 1 > Len(b) THEN 0 ELSE Len(b) - (c + 1) + 1
  <2>1. PICK x \in Int, y \in Int : x = c + 1 /\ y = Len(b)
    BY <1>1
  <2>2. IsFiniteSet(x..y) /\ Cardinality(x..y) = IF x > y THEN 0 ELSE y - x + 1
    BY FS_Interval
  <2> QED
    BY <2>1, <2>2
<1>3. Cardinality((c + 1)..Len(b)) = n - m
  BY <1>1, <1>2
<1>4. \A p \in (c + 1)..Len(b) : b[p].kind = "char" /\ p \in 1..Len(b) /\ p > c
  BY <1>1 DEF Rest
<1>5. Ahead(b, c) = (c + 1)..Len(b)
  BY <1>1, <1>4 DEF Ahead
<1> QED
  BY <1>1, <1>2, <1>3, <1>5

LEMMA FinishAdvances ==
    ASSUME WrapTyped, WrapTyped', Complete, Complete', Small, Sized, Limits, Fits, Lined, FinishLine
    PROVE  TextAhead' < TextAhead
<1>1. /\ pc = "mark" /\ text' = text
      /\ buf \in Seq(Cells) /\ buf' \in Seq(Cells) /\ sp \in Nat /\ ep \in Nat /\ sp' \in Nat
      /\ sp < ep /\ Len(text) \in Nat
  <2>1. pc = "mark" /\ text' = text
    BY DEF FinishLine
  <2>2. buf \in Seq(Cells) /\ sp \in Nat /\ ep \in Nat /\ Len(text) \in Nat
    BY DEF WrapTyped
  <2>3. buf' \in Seq(Cells) /\ sp' \in Nat
    BY DEF WrapTyped
  <2>4. sp < ep
    BY <2>1 DEF Sized
  <2> QED
    BY <2>1, <2>2, <2>3, <2>4
<1>2. PICK j, k : OpenLine(j, k)
  BY <1>1 DEF Lined
<1>3. PICK m : Rest(buf, ep, m, Len(text)) /\ Rest(buf', sp', m, Len(text))
  <2>1. Printed(sp, k + deleted)'
    BY <1>2, LinedFinish
  <2>2. deleted' = deleted
    BY DEF FinishLine
  <2> QED
    BY <1>1, <1>2, <2>1, <2>2 DEF OpenLine, Printed, Rest
<1>4. TextAhead = Cardinality(Ahead(buf, sp)) /\ TextAhead' = Cardinality(Ahead(buf', sp'))
  BY DEF TextAhead, Ahead, Shown
<1>5. TextAhead' = Len(text) - m /\ Len(text) - m \in Nat
  BY <1>1, <1>3, <1>4, RestIsAhead
<1>6. /\ IsFiniteSet(Ahead(buf, sp)) /\ TextAhead \in Nat
      /\ Ahead(buf, ep) = (ep + 1)..Len(buf)
      /\ Cardinality(Ahead(buf, ep)) = Len(text) - m
  <2>1. IsFiniteSet(Ahead(buf, sp)) /\ TextAhead \in Nat
    BY <1>1, <1>4, AheadIsFinite
  <2> QED
    BY <1>1, <1>3, <2>1, RestIsAhead
<1>7. Ahead(buf, ep) \in SUBSET Ahead(buf, sp)
  BY <1>1 DEF Ahead
<1>8. Ahead(buf, ep) # Ahead(buf, sp)
  <2>1. PICK p \in (sp + 1)..ep : buf[p].kind = "char"
    BY <1>2 DEF OpenLine, OnLine
  <2>2. ep \in 0..Len(buf) /\ Len(buf) \in Nat
    BY <1>1, <1>3 DEF Rest
  <2>3. p \in 1..Len(buf) /\ p > sp /\ ~(p > ep)
    BY <1>1, <2>2
  <2>4. p \in Ahead(buf, sp) /\ p \notin Ahead(buf, ep)
    BY <2>1, <2>3 DEF Ahead
  <2> QED
    BY <2>4
<1>9. /\ Cardinality(Ahead(buf, ep)) <= TextAhead
      /\ TextAhead # Cardinality(Ahead(buf, ep))
  BY <1>4, <1>6, <1>7, <1>8, FS_Subset
<1> QED
  BY <1>5, <1>6, <1>9

-----------------------------------------------------------------------------
(* The program.                                                              *)
EP == INSTANCE Execute_proofs WITH buf <- matched, node <- at_node, pc <- inserting

-----------------------------------------------------------------------------
(* cacheline, and the pipe to it.                                            *)
Chars == {"char", "newline"}

(* What cacheline has read is shown, but for the newline it holds.           *)
OutputInv ==
    /\ pipe \in Seq(Chars) /\ screen \in Seq(Chars) /\ written \in Seq(Chars)
    /\ held \in BOOLEAN /\ closed \in BOOLEAN
    /\ \E read \in Seq(Chars) :
         /\ written = read \o pipe /\ screen \o Held = read
         /\ held <=> read # <<>> /\ Last(read) = "newline"

LEMMA Associative ==
    \A s, t, u \in Seq(Chars) : (s \o t) \o u = s \o (t \o u)
  BY ConcatAssociative

LEMMA HeldIs == ASSUME held \in BOOLEAN PROVE Held \in Seq(Chars)
  BY DEF Held, Chars

LEMMA LastOfConcat ==
    ASSUME NEW s \in Seq(Chars), NEW t \in Seq(Chars), t # <<>>
    PROVE  s \o t # <<>> /\ Last(s \o t) = Last(t)
<1>1. Len(t) \in Nat \ {0} /\ Len(s) \in Nat
  BY EmptySeq
<1>2. /\ Len(s \o t) = Len(s) + Len(t)
      /\ \A i \in 1..(Len(s) + Len(t)) :
            (s \o t)[i] = IF i <= Len(s) THEN s[i] ELSE t[i - Len(s)]
  BY ConcatProperties
<1>3. (s \o t)[Len(s) + Len(t)] = t[Len(t)]
  <2>1. /\ Len(s) + Len(t) \in 1..(Len(s) + Len(t)) /\ ~(Len(s) + Len(t) <= Len(s))
        /\ Len(s) + Len(t) - Len(s) = Len(t)
    BY <1>1
  <2> QED
    BY <1>2, <2>1
<1> QED
  BY <1>1, <1>2, <1>3 DEF Last

LEMMA FrontAndLast ==
    ASSUME NEW s \in Seq(Chars), s # <<>>
    PROVE  Front(s) \in Seq(Chars) /\ Front(s) \o <<Last(s)>> = s
<1>1. Len(s) \in Nat \ {0} /\ Len(s) \in 1..Len(s) /\ Len(s) - 1 \in Nat /\ Len(s) - 1 <= Len(s)
  BY EmptySeq
<1>2. Front(s) = SubSeq(s, 1, Len(s) - 1)
  BY DEF Front
<1>3. Front(s) \in Seq(Chars)
  BY <1>1, <1>2, PieceTyped
<1>4. SubSeq(s, 1, Len(s)) = SubSeq(s, 1, Len(s) - 1) \o <<s[Len(s)]>>
  BY <1>1, SubSeqRecursiveSecond
<1>5. SubSeq(s, 1, Len(s)) = s
  BY SubSeqFull
<1> QED
  BY <1>2, <1>3, <1>4, <1>5 DEF Last

LEMMA LineEndIs ==
    ASSUME pipe \in Seq(Chars), LineReady
    PROVE  LineEnd \in 1..Len(pipe) /\ pipe # <<>>
<1>1. Newlines \subseteq Nat /\ \A i \in Newlines : i \in 1..Len(pipe)
  BY DEF Newlines
<1>2. CASE Newlines = {}
  <2>1. pipe # <<>> /\ Len(pipe) \in Nat \ {0}
    BY <1>2, EmptySeq DEF LineReady
  <2> QED
    BY <1>2, <2>1 DEF LineEnd
<1>3. CASE Newlines # {}
  <2>1. \E i \in Newlines : \A j \in Newlines : i <= j
    BY <1>1, <1>3, LeastNumber
  <2>2. LineEnd \in Newlines
    BY <1>3, <2>1 DEF LineEnd
  <2> QED
    BY <1>1, <2>2
<1> QED
  BY <1>2, <1>3

LEMMA CachelineOutput == OutputInv /\ cacheline /\ UNCHANGED written => OutputInv'
<1> SUFFICES ASSUME OutputInv, cacheline, UNCHANGED written PROVE OutputInv'
  OBVIOUS
<1>1. /\ pipe \in Seq(Chars) /\ screen \in Seq(Chars) /\ written \in Seq(Chars)
      /\ held \in BOOLEAN /\ closed \in BOOLEAN
  BY DEF OutputInv
<1>2. PICK read \in Seq(Chars) : written = read \o pipe /\ screen \o Held = read
  BY DEF OutputInv
<1> DEFINE n == LineEnd
           line == SubSeq(pipe, 1, n)
           rest == SubSeq(pipe, n + 1, Len(pipe))
           now == IF Last(line) = "newline" THEN <<"newline">> ELSE <<>>
<1>3. /\ n \in 1..Len(pipe) /\ held' = (Last(line) = "newline")
      /\ screen' = screen \o Held \o Copied(line) /\ pipe' = rest /\ closed' = closed
  BY <1>1, LineEndIs DEF cacheline
<1> HIDE DEF n
<1>4. line \in Seq(Chars) /\ line # <<>> /\ rest \in Seq(Chars) /\ line \o rest = pipe
  <2>1. n \in Nat \ {0} /\ n <= Len(pipe) /\ Len(pipe) \in Nat /\ n + 1 \in Nat \ {0}
        /\ n \in 0..Len(pipe) /\ Len(pipe) \in n..Len(pipe) /\ 1 \in 1..(Len(pipe) + 1)
        /\ 1 \in Nat \ {0} /\ 1 <= n
    BY <1>1, <1>3
  <2>2. line \in Seq(Chars) /\ Len(line) = n
    <3>1. line \in Seq(Chars) /\ Len(line) = IF 1 <= n THEN n - 1 + 1 ELSE 0
      BY <1>1, <2>1, PieceTyped
    <3> HIDE DEF line
    <3> QED
      BY <2>1, <3>1
  <2>3. rest \in Seq(Chars)
    BY <1>1, <2>1, PieceTyped
  <2>4. line \o rest = SubSeq(pipe, 1, Len(pipe))
    BY <1>1, <2>1, ConcatAdjacentSubSeq
  <2>5. SubSeq(pipe, 1, Len(pipe)) = pipe
    BY <1>1, SubSeqFull
  <2>6. line # <<>>
    <3> HIDE DEF line
    <3> QED
      BY <2>1, <2>2
  <2> QED
    BY <2>2, <2>3, <2>4, <2>5, <2>6
<1> HIDE DEF line, rest
<1>5. now \in Seq(Chars) /\ Copied(line) \in Seq(Chars) /\ Copied(line) \o now = line
  <2>1. CASE Last(line) = "newline"
    BY <1>4, <2>1, FrontAndLast DEF Copied, Chars
  <2>2. CASE Last(line) # "newline"
    BY <1>4, <2>2, ConcatEmptySeq DEF Copied, Chars
  <2> QED
    BY <2>1, <2>2
<1>6. Held' = now
  BY <1>3 DEF Held
<1>7. Held \in Seq(Chars) /\ screen \o Held = read
  BY <1>1, <1>2, HeldIs
<1>8. screen' = read \o Copied(line)
  BY <1>3, <1>7
<1> HIDE DEF now
<1>9. screen' \in Seq(Chars)
  BY <1>5, <1>8, ConcatProperties
<1>10. screen' \o Held' = read \o line
  <2>1. (read \o Copied(line)) \o now = read \o (Copied(line) \o now)
    BY <1>2, <1>5, Associative
  <2> QED
    BY <1>5, <1>6, <1>8, <2>1
<1>11. written' = (read \o line) \o pipe'
  <2>1. (read \o line) \o rest = read \o (line \o rest)
    BY <1>2, <1>4, Associative
  <2> QED
    BY <1>2, <1>3, <1>4, <2>1
<1>12. read \o line \in Seq(Chars)
  BY <1>4, ConcatProperties
<1>13. read \o line # <<>> /\ Last(read \o line) = Last(line)
  BY <1>4, LastOfConcat
<1> QED
  BY <1>1, <1>3, <1>4, <1>9, <1>10, <1>11, <1>12, <1>13 DEF OutputInv

(* A line is written.                                                        *)
LEMMA PrintOutput ==
    ASSUME OutputInv, NEW more \in Seq(Chars), pipe' = pipe \o more,
           written' = written \o more, UNCHANGED <<closed, held, screen>>
    PROVE  OutputInv'
<1>1. /\ pipe \in Seq(Chars) /\ screen \in Seq(Chars) /\ written \in Seq(Chars)
  BY DEF OutputInv
<1>2. PICK read \in Seq(Chars) :
        /\ written = read \o pipe /\ screen \o Held = read
        /\ held <=> read # <<>> /\ Last(read) = "newline"
  BY DEF OutputInv
<1>3. Held' = Held
  BY DEF Held
<1>4. pipe' \in Seq(Chars) /\ written' \in Seq(Chars)
  BY <1>1, ConcatProperties
<1>5. written' = read \o pipe'
  <2>1. (read \o pipe) \o more = read \o (pipe \o more)
    BY <1>1, <1>2, Associative
  <2> QED
    BY <1>2, <2>1
<1> QED
  BY <1>2, <1>3, <1>4, <1>5 DEF OutputInv

LEMMA OutputHeld == OutputInv => NewlineHeld
<1> SUFFICES ASSUME OutputInv PROVE NewlineHeld
  OBVIOUS
<1>1. /\ pipe \in Seq(Chars) /\ screen \in Seq(Chars) /\ written \in Seq(Chars)
      /\ held \in BOOLEAN
  BY DEF OutputInv
<1>2. PICK read \in Seq(Chars) :
        /\ written = read \o pipe /\ screen \o Held = read
        /\ held <=> read # <<>> /\ Last(read) = "newline"
  BY DEF OutputInv
<1>3. SubSeq(written, 1, Len(written) - Len(pipe)) = read
  <2>1. Len(read) \in Nat /\ Len(pipe) \in Nat /\ Len(written) = Len(read) + Len(pipe)
        /\ Len(written) - Len(pipe) = Len(read)
    BY <1>1, <1>2, ConcatProperties
  <2>2. CASE read = <<>>
    <3>1. Len(read) < 1 /\ 1 \in Int /\ Len(read) \in Int
      BY <2>2
    <3>2. SubSeq(written, 1, Len(read)) = <<>>
      BY <3>1, SubSeqEmpty
    <3> QED
      BY <2>1, <2>2, <3>2
  <2>3. CASE read # <<>>
    <3>1. 1 \in 1..Len(read) /\ Len(read) \in 1..Len(read)
      BY <2>1, <2>3, EmptySeq
    <3>2. SubSeq(read \o pipe, 1, Len(read)) = SubSeq(read, 1, Len(read))
      BY <1>1, <3>1, SubSeqOfConcat1
    <3> QED
      BY <1>2, <2>1, <3>2, SubSeqFull
  <2> QED
    BY <2>2, <2>3
<1>4. CASE held
  <2>1. read # <<>> /\ Last(read) = "newline" /\ Held = <<"newline">> /\ Held \in Seq(Chars)
    BY <1>1, <1>2, <1>4, HeldIs DEF Held
  <2>2. Front(read) \o Held = screen \o Held /\ Front(read) \in Seq(Chars)
    BY <1>2, <2>1, FrontAndLast
  <2>3. screen = Front(read)
    BY <1>1, <2>1, <2>2, ConcatSimplifications
  <2> QED
    BY <1>3, <2>1, <2>3 DEF NewlineHeld
<1>5. CASE ~held
  <2>1. screen = read
    BY <1>1, <1>2, <1>5, ConcatEmptySeq DEF Held
  <2> QED
    BY <1>2, <1>3, <1>5, <2>1 DEF NewlineHeld
<1> QED
  BY <1>1, <1>4, <1>5

-----------------------------------------------------------------------------
(* The rule engine: Execute_proofs is about Remark's rules as well.          *)
LEMMA EngineAssumptions == EP!BoundsAssumption /\ EP!InputsAssumption
<1>1. EP!BoundsAssumption
  BY ExecuteAssumption DEF E!BoundsAssumption, EP!BoundsAssumption
<1>2. EP!Matches = E!Matches /\ EP!Parts = E!Parts
  BY DEF EP!Matches, E!Matches, EP!Parts, E!Parts
<1>3. \A names : EP!Rule(names) = E!Rule(names)
  BY <1>2 DEF EP!Rule, E!Rule
<1>4. EP!InputsAssumption
  BY <1>3, ExecuteAssumption DEF E!InputsAssumption, EP!InputsAssumption
<1> QED
  BY <1>1, <1>4

(* The operators of both instances stand for the same formulas: expanded,      *)
(* they are the same text.                                                   *)
LEMMA SameExpansion ==
    ASSUME NEW repl, NEW subv
    PROVE  E!expand_substitution(repl, subv) = EP!expand_substitution(repl, subv)
  BY DEF E!expand_substitution, EP!expand_substitution, E!expand_part, EP!expand_part,
      E!expand_variable, EP!expand_variable, E!Variable, EP!Variable, E!SubmatchSpec,
      EP!SubmatchSpec, E!ctx, EP!ctx, E!ms, EP!ms, E!Last, EP!Last, E!SubstringLength,
      EP!SubstringLength, E!Larger, EP!Larger, E!Smaller, EP!Smaller, E!normalize_str_pos,
      EP!normalize_str_pos, E!Signed, EP!Signed

LEMMA SameSearch ==
    ASSUME NEW r, NEW s, NEW t
    PROVE  E!xregexec_substring(r, s, t) = EP!xregexec_substring(r, s, t)
<1>1. E!SearchEnd(s, t) = EP!SearchEnd(s, t)
  BY DEF E!SearchEnd, EP!SearchEnd, E!Smaller, EP!Smaller
<1>2. E!Found(r, s, t) = EP!Found(r, s, t)
  BY <1>1 DEF E!Found, EP!Found
<1>3. ASSUME NEW found
      PROVE E!Submatches(r, s, found) = EP!Submatches(r, s, found)
  BY DEF E!Submatches, EP!Submatches, E!SubmatchSpec, EP!SubmatchSpec, E!Unsigned, EP!Unsigned
<1>4. ASSUME NEW v, v \in E!xregexec_substring(r, s, t)
      PROVE  v \in EP!xregexec_substring(r, s, t)
  <2>1. PICK found \in E!Found(r, s, t) :
           v \in {<<found>> \o subs : subs \in [1..r.nsub -> E!Submatches(r, s, found)]}
    BY <1>4 DEF E!xregexec_substring
  <2>2. v \in {<<found>> \o subs : subs \in [1..r.nsub -> EP!Submatches(r, s, found)]}
    BY <2>1, <1>3
  <2> QED
    BY <1>2, <2>1, <2>2 DEF EP!xregexec_substring
<1>5. ASSUME NEW v, v \in EP!xregexec_substring(r, s, t)
      PROVE  v \in E!xregexec_substring(r, s, t)
  <2>1. PICK found \in EP!Found(r, s, t) :
           v \in {<<found>> \o subs : subs \in [1..r.nsub -> EP!Submatches(r, s, found)]}
    BY <1>5 DEF EP!xregexec_substring
  <2>2. v \in {<<found>> \o subs : subs \in [1..r.nsub -> E!Submatches(r, s, found)]}
    BY <2>1, <1>3
  <2> QED
    BY <1>2, <2>1, <2>2 DEF E!xregexec_substring
<1> QED
  BY <1>4, <1>5

LEMMA SameUpdate ==
    ASSUME NEW so, NEW diff
    PROVE  E!update_positions(so, diff) => EP!update_positions(so, diff)
  BY DEF E!update_positions, EP!update_positions, E!MoveStyles, EP!MoveStyles, E!MoveSpec,
      EP!MoveSpec, E!Moved, EP!Moved, E!Signed, EP!Signed, E!Larger, EP!Larger, E!MoveContexts,
      EP!MoveContexts, E!new_match_state, EP!new_match_state

LEMMA SameReplace ==
    ASSUME NEW s, NEW p, NEW q, NEW new
    PROVE  E!strbuf_replace(s, p, q, new) = EP!strbuf_replace(s, p, q, new)
  BY DEF E!strbuf_replace, EP!strbuf_replace, E!normalize_strbuf_pos, EP!normalize_strbuf_pos,
      E!Unsigned, EP!Unsigned, E!Smaller, EP!Smaller, E!Larger, EP!Larger

LEMMA SameTop == E!top = EP!top /\ E!rule = EP!rule
  BY DEF E!top, EP!top, E!Last, EP!Last, E!rule, EP!rule, E!Rules, EP!Rules

LEMMA SameLoop == E!Loops("subst") => EP!Loops("subst")
  BY DEF E!Loops, EP!Loops, E!Loop, EP!Loop, E!rule, EP!rule, E!top, EP!top, E!Last, EP!Last,
      E!Rules, EP!Rules, E!Running, EP!Running

LEMMA SameLeaves == \A x : (E!SetTop(x) => EP!SetTop(x)) /\ (E!Leave(x) => EP!Leave(x))
  BY DEF E!SetTop, EP!SetTop, E!Front, EP!Front, E!Leave, EP!Leave, E!Return, EP!Return

LEMMA SameAdvance ==
    \A m, n : E!Advance(m, n) = EP!Advance(m, n) /\ E!NewText(m) = EP!NewText(m)
  BY DEF E!Advance, EP!Advance, E!NewText, EP!NewText

LEMMA SameSubstitute == E!Substitute => EP!Substitute
<1> SUFFICES ASSUME E!Substitute PROVE EP!Substitute
  OBVIOUS
<1>1. PICK subv \in E!xregexec_substring(E!rule, E!top.so, E!top.eo) :
      \E replen \in E!expand_substitution(E!rule.replacement, subv) :
         LET so   == subv[1].so
             len_  == subv[1].eo - subv[1].so
             last_ == E!top.so >= Len(matched)
         IN  /\ Len(matched) + replen - len_ <= MaxLen
             /\ matched' = E!strbuf_replace(matched, so, subv[1].eo, E!NewText(replen))
             /\ E!update_positions(so, replen - len_)
             /\ IF E!rule.global /\ ~last_
                  THEN /\ E!SetTop([E!top EXCEPT !.so = @ + E!Advance(len_, replen)])
                       /\ UNCHANGED todo
                  ELSE E!Leave("CONTINUE")
  BY DEF E!Substitute
<1>2. PICK replen \in E!expand_substitution(E!rule.replacement, subv) :
         LET so   == subv[1].so
             len_  == subv[1].eo - subv[1].so
             last_ == E!top.so >= Len(matched)
         IN  /\ Len(matched) + replen - len_ <= MaxLen
             /\ matched' = E!strbuf_replace(matched, so, subv[1].eo, E!NewText(replen))
             /\ E!update_positions(so, replen - len_)
             /\ IF E!rule.global /\ ~last_
                  THEN /\ E!SetTop([E!top EXCEPT !.so = @ + E!Advance(len_, replen)])
                       /\ UNCHANGED todo
                  ELSE E!Leave("CONTINUE")
  BY <1>1
<1>3. subv \in EP!xregexec_substring(EP!rule, EP!top.so, EP!top.eo)
      /\ replen \in EP!expand_substitution(EP!rule.replacement, subv)
  BY <1>1, <1>2, SameExpansion, SameSearch, SameTop
<1>4. EP!Loops("subst") /\ UNCHANGED <<phase, input, lines, marks, verdict>>
  BY SameLoop DEF E!Substitute, E!given
<1>5. LET so   == subv[1].so
             len_  == subv[1].eo - subv[1].so
             last_ == EP!top.so >= Len(matched)
         IN  /\ Len(matched) + replen - len_ <= MaxLen
             /\ matched' = EP!strbuf_replace(matched, so, subv[1].eo, EP!NewText(replen))
             /\ EP!update_positions(so, replen - len_)
             /\ IF EP!rule.global /\ ~last_
                  THEN /\ EP!SetTop([EP!top EXCEPT !.so = @ + EP!Advance(len_, replen)])
                       /\ UNCHANGED todo
                  ELSE EP!Leave("CONTINUE")
  BY <1>2, SameUpdate, SameTop, SameReplace, SameLeaves, SameAdvance
<1> QED
  BY <1>3, <1>4, <1>5 DEF EP!Substitute, EP!given

LEMMA SameRules == E!RuleStep => EP!RuleStep
<1>1. E!ExecMacro => EP!ExecMacro
  BY DEF E!ExecMacro, EP!ExecMacro, E!Exec, EP!Exec, E!ranges, EP!ranges, E!Starts, EP!Starts,
      E!Rules, EP!Rules, E!Running, EP!Running, E!given, EP!given, E!Starting, EP!Starting
<1>2. E!ExecAction => EP!ExecAction
  BY DEF E!ExecAction, EP!ExecAction, E!ranges, EP!ranges, E!Return, EP!Return, E!Starts,
      EP!Starts, E!Rules, EP!Rules, E!Running, EP!Running, E!given, EP!given, E!Starting,
      EP!Starting
<1>3. E!ExecStyle => EP!ExecStyle
  BY DEF E!ExecStyle, EP!ExecStyle, E!Ranges!Call, EP!Ranges!Call, E!Ranges!new_style_range,
      EP!Ranges!new_style_range, E!ctx, EP!ctx, E!ms, EP!ms, E!Last, EP!Last, E!Return,
      EP!Return, E!Starts, EP!Starts, E!Rules, EP!Rules, E!Running, EP!Running, E!given,
      EP!given, E!Starting, EP!Starting, E!Covered, EP!Covered
<1>4. E!InsertStyle => EP!InsertStyle
  BY DEF E!InsertStyle, EP!InsertStyle, E!Ranges!Step, EP!Ranges!Step, E!Ranges!Case7,
      EP!Ranges!Case7, E!Ranges!AtNode, EP!Ranges!AtNode, E!Ranges!insort_style1,
      EP!Ranges!insort_style1, E!Ranges!lnode_add_after, EP!Ranges!lnode_add_after,
      E!Ranges!InsertAt, EP!Ranges!InsertAt, E!Ranges!s2, EP!Ranges!s2, E!Ranges!g2,
      EP!Ranges!g2, E!Ranges!GroupEnds, EP!Ranges!GroupEnds, E!Ranges!SameRange,
      EP!Ranges!SameRange, E!Ranges!Continue, EP!Ranges!Continue, E!Ranges!Empty,
      EP!Ranges!Empty, E!Ranges!new_style_range, EP!Ranges!new_style_range, E!Ranges!Before,
      EP!Ranges!Before, E!Ranges!Return, EP!Ranges!Return, E!Ranges!NoRange, EP!Ranges!NoRange,
      E!Ranges!lnode_add_before, EP!Ranges!lnode_add_before, E!Ranges!Case2a, EP!Ranges!Case2a,
      E!Ranges!insort_style2, EP!Ranges!insort_style2, E!Ranges!Trim, EP!Ranges!Trim,
      E!Ranges!Overlap, EP!Ranges!Overlap, E!Ranges!AppendRest, EP!Ranges!AppendRest,
      E!Ranges!Case6, EP!Ranges!Case6, E!Ranges!Case2b, EP!Ranges!Case2b, E!Ranges!Case3c,
      EP!Ranges!Case3c, E!Ranges!Fronted, EP!Ranges!Fronted, E!Ranges!Past, EP!Ranges!Past,
      E!Ranges!Case5, EP!Ranges!Case5, E!Ranges!Case4b, EP!Ranges!Case4b, E!Ranges!Case3a,
      EP!Ranges!Case3a, E!Ranges!Case4a, EP!Ranges!Case4a, E!Ranges!Case1, EP!Ranges!Case1,
      E!Ranges!Case3b, EP!Ranges!Case3b, E!Ranges!Case2c, EP!Ranges!Case2c,
      E!Ranges!insort_style3, EP!Ranges!insort_style3, E!given, EP!given
<1>5. E!ExecMulti => EP!ExecMulti
  BY DEF E!ExecMulti, EP!ExecMulti, E!Frame, EP!Frame, E!rule, EP!rule, E!top, EP!top, E!Last,
      EP!Last, E!Rules, EP!Rules, E!ranges, EP!ranges, E!Return, EP!Return, E!Starts,
      EP!Starts, E!Running, EP!Running, E!given, EP!given
<1>6. E!MultiNext => EP!MultiNext
  BY DEF E!MultiNext, EP!MultiNext, E!Exec, EP!Exec, E!ranges, EP!ranges, E!SetTop, EP!SetTop,
      E!Front, EP!Front, E!given, EP!given, E!top, EP!top, E!Last, EP!Last, E!Returned,
      EP!Returned, E!rule, EP!rule, E!Rules, EP!Rules, E!Running, EP!Running
<1>7. E!MultiEnd => EP!MultiEnd
  BY DEF E!MultiEnd, EP!MultiEnd, E!ranges, EP!ranges, E!given, EP!given, E!top, EP!top,
      E!Last, EP!Last, E!Returned, EP!Returned, E!rule, EP!rule, E!Rules, EP!Rules, E!Running,
      EP!Running, E!Leave, EP!Leave, E!Front, EP!Front, E!Return, EP!Return
<1>8. E!ExecMatch => EP!ExecMatch
  BY DEF E!ExecMatch, EP!ExecMatch, E!Frame, EP!Frame, E!rule, EP!rule, E!top, EP!top, E!Last,
      EP!Last, E!Rules, EP!Rules, E!Loop, EP!Loop, E!ranges, EP!ranges, E!ctx, EP!ctx, E!ms,
      EP!ms, E!Starts, EP!Starts, E!Running, EP!Running, E!given, EP!given
<1>9. E!TryRegex => EP!TryRegex
  BY SameSearch DEF
      E!TryRegex, EP!TryRegex, E!Unsigned, EP!Unsigned, E!RunBody, EP!RunBody, E!ranges,
      EP!ranges, E!new_match_state, EP!new_match_state, E!top, EP!top, E!Last, EP!Last, E!rule,
      EP!rule, E!Rules, EP!Rules, E!SetTop, EP!SetTop, E!Front, EP!Front, E!given, EP!given,
      E!Exec, EP!Exec, E!match, EP!match, E!Matching, EP!Matching, E!Loops, EP!Loops, E!Loop,
      EP!Loop, E!Running, EP!Running, E!ctx, EP!ctx, E!ms, EP!ms
<1>10. E!TrySubex => EP!TrySubex
  BY DEF E!TrySubex, EP!TrySubex, E!Unsigned, EP!Unsigned, E!RunBody, EP!RunBody, E!ranges,
      EP!ranges, E!new_match_state, EP!new_match_state, E!top, EP!top, E!Last, EP!Last, E!rule,
      EP!rule, E!Rules, EP!Rules, E!SetTop, EP!SetTop, E!Front, EP!Front, E!given, EP!given,
      E!Exec, EP!Exec, E!match, EP!match, E!Matching, EP!Matching, E!Loops, EP!Loops, E!Loop,
      EP!Loop, E!Running, EP!Running, E!ms, EP!ms
<1>11. E!TryNothing => EP!TryNothing
  BY DEF E!TryNothing, EP!TryNothing, E!ranges, EP!ranges, E!top, EP!top, E!Last, EP!Last,
      E!ctx, EP!ctx, E!ms, EP!ms, E!rule, EP!rule, E!Rules, EP!Rules, E!Loops, EP!Loops,
      E!Loop, EP!Loop, E!Running, EP!Running, E!Unsigned, EP!Unsigned, E!match, EP!match,
      E!SetTop, EP!SetTop, E!Front, EP!Front, E!given, EP!given
<1>12. E!Die => EP!Die
  BY DEF E!Die, EP!Die, E!ranges, EP!ranges, E!match, EP!match, E!rule, EP!rule, E!top, EP!top,
      E!Last, EP!Last, E!Rules, EP!Rules, E!Matching, EP!Matching, E!Loops, EP!Loops, E!Loop,
      EP!Loop, E!Running, EP!Running, E!ms, EP!ms, E!given, EP!given
<1>13. E!BodyReturns => EP!BodyReturns
  BY DEF E!BodyReturns, EP!BodyReturns, E!ranges, EP!ranges, E!top, EP!top, E!Last, EP!Last,
      E!ctx, EP!ctx, E!ms, EP!ms, E!Loop, EP!Loop, E!Returned, EP!Returned, E!rule, EP!rule,
      E!Rules, EP!Rules, E!Running, EP!Running, E!Front, EP!Front, E!SetTop, EP!SetTop,
      E!given, EP!given
<1>14. E!BodySkips => EP!BodySkips
  BY DEF E!BodySkips, EP!BodySkips, E!ranges, EP!ranges, E!Front, EP!Front, E!Returned,
      EP!Returned, E!rule, EP!rule, E!top, EP!top, E!Last, EP!Last, E!Rules, EP!Rules,
      E!Running, EP!Running, E!given, EP!given, E!Leave, EP!Leave, E!Return, EP!Return
<1>15. E!MatchEnd => EP!MatchEnd
  BY DEF E!MatchEnd, EP!MatchEnd, E!Loops, EP!Loops, E!Loop, EP!Loop, E!rule, EP!rule, E!top,
      EP!top, E!Last, EP!Last, E!Rules, EP!Rules, E!Running, EP!Running, E!ranges, EP!ranges,
      E!given, EP!given, E!Leave, EP!Leave, E!Front, EP!Front, E!Return, EP!Return
<1>16. E!ExecSubst => EP!ExecSubst
  BY DEF E!ExecSubst, EP!ExecSubst, E!Frame, EP!Frame, E!rule, EP!rule, E!top, EP!top, E!Last,
      EP!Last, E!Rules, EP!Rules, E!Loop, EP!Loop, E!ranges, EP!ranges, E!ctx, EP!ctx, E!ms,
      EP!ms, E!Starts, EP!Starts, E!Running, EP!Running, E!given, EP!given
<1>17. E!SubstNothing => EP!SubstNothing
  BY DEF E!SubstNothing, EP!SubstNothing, E!Loops, EP!Loops, E!Loop, EP!Loop, E!rule, EP!rule,
      E!top, EP!top, E!Last, EP!Last, E!Rules, EP!Rules, E!Running, EP!Running, E!ranges,
      EP!ranges, E!given, EP!given, E!Leave, EP!Leave, E!Front, EP!Front, E!Return, EP!Return
<1>18. E!ExecSet => EP!ExecSet
  BY SameExpansion DEF E!ExecSet, EP!ExecSet, E!ctx, EP!ctx, E!ms, EP!ms, E!Last, EP!Last,
      E!strbuf_replace, EP!strbuf_replace, E!normalize_strbuf_pos, EP!normalize_strbuf_pos,
      E!Unsigned, EP!Unsigned, E!Smaller, EP!Smaller, E!Larger, EP!Larger, E!Return, EP!Return,
      E!update_positions, EP!update_positions, E!MoveStyles, EP!MoveStyles, E!MoveSpec,
      EP!MoveSpec, E!Moved, EP!Moved, E!Signed, EP!Signed, E!MoveContexts, EP!MoveContexts,
      E!new_match_state, EP!new_match_state, E!NewText, EP!NewText, E!Starts, EP!Starts,
      E!Rules, EP!Rules, E!Running, EP!Running, E!given, EP!given, E!Starting, EP!Starting
<1> QED
  BY <1>1, <1>2, <1>3, <1>4, <1>5, <1>6, <1>7, <1>8, <1>9, <1>10, <1>11, <1>12, <1>13, <1>14,
      <1>15, <1>16, <1>17, <1>18, SameSubstitute DEF E!RuleStep, EP!RuleStep

LEMMA EngineInit == E!Init => EP!IInv
<1>1. E!Init => EP!Init
  BY DEF E!Init, EP!Init, E!Ranges!Init, EP!Ranges!Init, E!Ranges!NoRange, EP!Ranges!NoRange,
      E!Loop, EP!Loop
<1> QED
  BY <1>1, EngineAssumptions, ModulusAssumption, EP!InitInv

LEMMA EngineSteps ==
    ASSUME EP!IInv, E!RuleStep \/ E!FinishLine \/ E!PrintLine
    PROVE  EP!IInv'
<1>1. E!FinishLine => EP!FinishLine
  BY DEF E!FinishLine, EP!FinishLine, E!Loop, EP!Loop, E!ranges, EP!ranges, E!given, EP!given,
      E!Running, EP!Running
<1>2. E!PrintLine => EP!PrintLine
  BY DEF E!PrintLine, EP!PrintLine, E!Ranges!Clear, EP!Ranges!Clear, E!Ranges!locals,
      EP!Ranges!locals, E!given, EP!given
<1>3. EP!Step
  BY <1>1, <1>2, SameRules DEF EP!Step
<1>4. [EP!Next]_(EP!vars)
  BY <1>3 DEF EP!Next
<1> QED
  BY <1>4, EngineAssumptions, ModulusAssumption, EP!NextInv

LEMMA EngineEnters ==
    ASSUME EP!IInv, NEW root \in DOMAIN input.rules, NEW n \in 0..MaxLen, E!Enter(root, n),
           styles' \in Seq(StyleRange), UNCHANGED <<input, s1, old_so, at_node, inserting, lines>>
    PROVE  EP!IInv'
<1>1. EP!Enter(root, n)
  BY DEF E!Enter, EP!Enter, E!Exec, EP!Exec, E!SubmatchSpec, EP!SubmatchSpec,
      E!new_match_state, EP!new_match_state
<1>2. lines' \in 0..input.lines
  BY DEF EP!IInv, EP!Typed
<1>3. EP!RangesTyped'
  BY DEF EP!IInv, EP!Typed, EP!RangesTyped, EP!Ranges!TypeOK, EP!Ranges!StyleRange, StyleRange
<1> QED
  BY <1>1, <1>2, <1>3, EngineAssumptions, ModulusAssumption, EP!EnterInv

LEMMA EngineRests ==
    ASSUME EP!IInv, styles' \in Seq(StyleRange), lines' \in 0..input.lines,
           UNCHANGED <<input, matched, s1, old_so, at_node, inserting, mss, ctl, todo, phase>>
    PROVE  EP!IInv'
<1>1. EP!RangesTyped'
  BY DEF EP!IInv, EP!Typed, EP!RangesTyped, EP!Ranges!TypeOK, EP!Ranges!StyleRange, StyleRange
<1> QED
  BY <1>1, EngineAssumptions, ModulusAssumption, EP!CallerInv

-----------------------------------------------------------------------------
(* What holds whatever is printed: the buffers of remark, its options, and   *)
(* what the wrapping has of them.                                            *)
OptionsTyped ==
    /\ opt \in [width : 0..(Modulus - 1), wrapper : Wrappers,
                retain : Given(job.args, "retain") \cap 0..(Modulus - 1),
                prepend : Given(job.args, "prepend"), append : Given(job.args, "append")]
    /\ args \in Seq(Range(job.args))
    /\ pc \notin {"options", "dead"} => opt.retain + opt.append + opt.prepend < opt.width

BufferTyped(mb) ==
    /\ mb.cells \in Seq(0..MaxLen) /\ Len(mb.cells) <= MaxLen
    /\ mb.bufferlen \in {0, Len(mb.cells)} /\ mb.styles \in Seq(StyleRange)

BuffersTyped == DOMAIN mbs = Kinds /\ \A k \in Kinds : BufferTyped(mbs[k])

Control ==
    /\ job \in Jobs /\ input = job.input /\ at \in Kinds \cup {"read", "wrap"}
    /\ pc \in {"cut", "mark", "printed"} => at = "wrap"
    /\ at \in Kinds => pc = "idle"
    /\ at \notin Kinds => phase = "idle"

Typing == Control /\ OptionsTyped /\ BuffersTyped /\ WrapTyped /\ EP!IInv

(* The options.                                                              *)
LEMMA JobIs ==
    ASSUME job \in Jobs
    PROVE  /\ job.args \in Seq(Range(job.args)) /\ job.input \in Inputs
           /\ job.alphabet \subseteq Alphabet
           /\ Given(job.args, "prepend") \subseteq 0..MaxLen
           /\ Given(job.args, "append") \subseteq 0..MaxLen
           /\ \A o \in {"retain", "prepend", "append"} : 0 \in Given(job.args, o)
           /\ \A n \in Given(job.args, "retain"), p \in Given(job.args, "prepend"),
                 a \in Given(job.args, "append") :
                parse_uint32(n) => n + p + a < Modulus
<1>1. \A o : 0 \in Given(job.args, o)
  BY DEF Given
<1>2. job.alphabet \subseteq Alphabet
  BY JobsAssumption, Zenon DEF Alphabet
<1>4. /\ job.args \in Seq(Range(job.args)) /\ job.input \in Inputs
      /\ Given(job.args, "prepend") \cup Given(job.args, "append") \subseteq 0..MaxLen
  BY JobsAssumption, Zenon
<1>3. \A n \in Given(job.args, "retain"), p \in Given(job.args, "prepend"),
         a \in Given(job.args, "append") :
        parse_uint32(n) => n + p + a < Modulus
  BY JobsAssumption, Zenon
<1> QED
  BY <1>1, <1>2, <1>3, <1>4

LEMMA EngineBounds ==
    MaxLen \in Nat /\ Modulus > MaxLen
<1>1. EP!BoundsAssumption
  BY EngineAssumptions
<1> QED
  BY <1>1, ModulusFacts DEF EP!BoundsAssumption

LEMMA OptionsInit == Init => OptionsTyped
<1> SUFFICES ASSUME Init PROVE OptionsTyped
  OBVIOUS
<1>1. job \in Jobs /\ args = job.args /\ opt = Defaults /\ pc = "options"
  BY DEF Init, WrapInit
<1>2. Defaults.width \in 0..(Modulus - 1)
  BY ModulusFacts DEF Defaults, Unlimited
<1>3. 0 \in 0..(Modulus - 1)
  BY ModulusFacts
<1>4. opt \in [width : 0..(Modulus - 1), wrapper : Wrappers,
               retain : Given(job.args, "retain") \cap 0..(Modulus - 1),
               prepend : Given(job.args, "prepend"), append : Given(job.args, "append")]
  <2>1. /\ 0 \in Given(job.args, "retain") /\ 0 \in Given(job.args, "prepend")
        /\ 0 \in Given(job.args, "append")
    BY <1>1, JobIs
  <2> QED
    BY <1>1, <1>2, <1>3, <2>1 DEF Defaults, Wrappers
<1>5. args \in Seq(Range(job.args))
  BY <1>1, JobIs
<1> QED
  BY <1>1, <1>4, <1>5 DEF OptionsTyped

LEMMA HeadIs ==
    ASSUME NEW S, NEW s \in Seq(S), s # <<>>
    PROVE  Head(s) \in S /\ Tail(s) \in Seq(S)
  OBVIOUS

LEMMA GivenIs ==
    ASSUME NEW s, NEW a \in Range(s)
    PROVE  a.value \in Given(s, a.option)
  BY DEF Given

LEMMA OptionsKept ==
    ASSUME OptionsTyped, job \in Jobs, OptionsStep, UNCHANGED job
    PROVE  OptionsTyped'
<1> DEFINE A(o) == Given(job.args, o)
           a == Head(args)
<1>1. /\ opt \in [width : 0..(Modulus - 1), wrapper : Wrappers,
                  retain : A("retain") \cap 0..(Modulus - 1),
                  prepend : A("prepend"), append : A("append")]
      /\ args \in Seq(Range(job.args))
  BY DEF OptionsTyped
<1>2. args # <<>> => /\ a \in Range(job.args) /\ a.value \in A(a.option)
                     /\ Tail(args) \in Seq(Range(job.args))
  <2>1. args # <<>> => a \in Range(job.args) /\ Tail(args) \in Seq(Range(job.args))
    BY <1>1, HeadIs
  <2> QED
    BY <2>1, GivenIs
<1> DEFINE OptType == [width : 0..(Modulus - 1), wrapper : Wrappers,
                       retain : A("retain") \cap 0..(Modulus - 1),
                       prepend : A("prepend"), append : A("append")]
<1>3. /\ opt' \in OptType /\ args' \in Seq(Range(job.args))
      /\ pc' \notin {"options", "dead"} => opt'.retain + opt'.append + opt'.prepend < opt'.width
  <2>1. CASE ReadOption
    <3>1. pc' = "options"
      BY <2>1 DEF ReadOption, TakeOption
    <3>2. CASE /\ StringOption \/ (NumberOption /\ parse_uint32(a.value))
               /\ TakeOption([opt EXCEPT ![a.option] = a.value])
      <4>1. args # <<>> /\ args' = Tail(args) /\ opt' = [opt EXCEPT ![a.option] = a.value]
        BY <3>2 DEF StringOption, NumberOption, TakeOption
      <4>2. \/ a.option \in {"prepend", "append"}
            \/ a.option \in {"retain", "width"} /\ a.value \in 0..(Modulus - 1)
        BY <3>2 DEF StringOption, NumberOption, parse_uint32
      <4>3. opt' \in OptType
        <5>1. a.value \in A(a.option)
          BY <1>2, <4>1
        <5> HIDE DEF A, a
        <5>2. CASE a.option = "prepend"
          BY <1>1, <4>1, <5>1, <5>2
        <5>3. CASE a.option = "append"
          BY <1>1, <4>1, <5>1, <5>3
        <5>4. CASE a.option = "retain" /\ a.value \in 0..(Modulus - 1)
          BY <1>1, <4>1, <5>1, <5>4
        <5>5. CASE a.option = "width" /\ a.value \in 0..(Modulus - 1)
          BY <1>1, <4>1, <5>1, <5>5
        <5> QED
          BY <4>2, <5>2, <5>3, <5>4, <5>5
      <4> QED
        BY <1>2, <3>1, <4>1, <4>3
    <3>3. CASE /\ WrapOption /\ a.value \in Wrappers
               /\ TakeOption(identify_wrapper(opt, a.value))
      <4>1. args # <<>> /\ args' = Tail(args) /\ opt' = identify_wrapper(opt, a.value)
        BY <3>3 DEF WrapOption, TakeOption
      <4>2. Width80 \in 0..(Modulus - 1)
        BY Width80Assumption, ModulusFacts
      <4>3. opt' \in OptType
        <5> HIDE DEF A, a
        <5> QED
          BY <1>1, <3>3, <4>1, <4>2 DEF identify_wrapper
      <4> QED
        BY <1>2, <3>1, <4>1, <4>3
    <3> QED
      BY <2>1, <3>2, <3>3 DEF ReadOption
  <2>2. CASE BadOption
    BY <1>1, <2>2 DEF BadOption
  <2>3. CASE CheckOptions
    <3> DEFINE o == [opt EXCEPT !.wrapper = IF @ = "none" THEN "char" ELSE @]
    <3>1. opt' = o /\ args' = args /\ pc' = IF TooLong(opt) THEN "dead" ELSE "idle"
      BY <2>3 DEF CheckOptions
    <3>2. /\ opt' \in OptType /\ opt'.retain = opt.retain /\ opt'.append = opt.append
          /\ opt'.prepend = opt.prepend /\ opt'.width = opt.width
      <4> HIDE DEF A
      <4> QED
        BY <1>1, <3>1 DEF Wrappers
    <3>3. ~TooLong(opt) => opt.retain + opt.append + opt.prepend < opt.width
      <4> DEFINE n == opt.retain
                 p == opt.prepend
                 q == opt.append
      <4>1. n \in Nat /\ p \in Nat /\ q \in Nat /\ n + p + q < Modulus /\ opt.width \in Nat
        <5>1. /\ n \in A("retain") /\ n \in 0..(Modulus - 1) /\ p \in A("prepend")
              /\ q \in A("append") /\ opt.width \in 0..(Modulus - 1)
          BY <1>1
        <5> HIDE DEF n, p, q
        <5>2. p \in 0..MaxLen /\ q \in 0..MaxLen
          BY <5>1, JobIs
        <5>3. parse_uint32(n)
          BY <5>1 DEF parse_uint32
        <5>4. n + p + q < Modulus
          BY <5>1, <5>3, JobIs
        <5> QED
          BY <5>1, <5>2, <5>4, EngineBounds, ModulusFacts
      <4>2. TooLong(opt) <=> Unsigned(n + q + p) >= opt.width
        BY DEF TooLong
      <4> HIDE DEF n, p, q
      <4>3. Unsigned(n + q + p) = n + q + p
        BY <4>1, UnsignedIs, ModulusFacts
      <4> QED
        BY <4>1, <4>2, <4>3 DEF n, p, q
    <3> QED
      BY <1>1, <3>1, <3>2, <3>3
  <2> QED
    BY <2>1, <2>2, <2>3 DEF OptionsStep
<1> QED
  BY <1>3 DEF OptionsTyped

LEMMA MBIs ==
    ASSUME NEW n \in 0..MaxLen, NEW list \in Seq(StyleRange)
    PROVE  BufferTyped(MB(n, list))
<1>1. n \in Nat /\ \A i \in 1..n : i \in 0..MaxLen
  BY EngineBounds
<1> DEFINE c == [i \in 1..n |-> i]
<1>2. c \in [1..n -> 0..MaxLen]
  BY <1>1
<1> HIDE DEF c
<1>3. c \in Seq(0..MaxLen) /\ Len(c) = n
  BY <1>1, <1>2, FunctionIsSeq
<1>4. MB(n, list).cells = c /\ MB(n, list).bufferlen = n /\ MB(n, list).styles = list
  BY DEF MB, c
<1>5. n <= MaxLen
  BY EngineBounds
<1> QED
  BY <1>3, <1>4, <1>5 DEF BufferTyped

(* What the rules leave in matched and styles.                               *)
LEMMA EngineTyped ==
    EP!IInv => /\ matched \in Seq(0..MaxLen) /\ Len(matched) <= MaxLen
               /\ styles \in Seq(StyleRange)
               /\ input \in Inputs /\ lines \in 0..input.lines
  BY DEF EP!IInv, EP!Typed, EP!RangesTyped, EP!Ranges!TypeOK, EP!Ranges!StyleRange, StyleRange

LEMMA ResultIs ==
    ASSUME EP!IInv, NEW n \in {0, Len(matched)}
    PROVE  BufferTyped(Result(n))
  BY EngineTyped DEF Result, BufferTyped

LEMMA BuffersIs ==
    ASSUME BuffersTyped, NEW k \in Kinds, NEW mb, BufferTyped(mb), mbs' = [mbs EXCEPT ![k] = mb]
    PROVE  BuffersTyped'
<1>1. DOMAIN mbs' = Kinds
  BY DEF BuffersTyped
<1>2. ASSUME NEW i \in Kinds PROVE BufferTyped(mbs'[i])
  <2>1. mbs'[i] = IF i = k THEN mb ELSE mbs[i]
    BY DEF BuffersTyped
  <2>2. BufferTyped(mbs[i])
    BY DEF BuffersTyped
  <2> QED
    BY <2>1, <2>2
<1>3. ASSUME NEW i \in Kinds PROVE BufferTyped(mbs[i])'
  BY <1>2 DEF BufferTyped
<1> QED
  BY <1>1, <1>3 DEF BuffersTyped

LEMMA BuffersRest == BuffersTyped /\ UNCHANGED mbs => BuffersTyped'
<1> SUFFICES ASSUME BuffersTyped, UNCHANGED mbs PROVE BuffersTyped'
  OBVIOUS
<1>1. ASSUME NEW k \in Kinds PROVE BufferTyped(mbs[k])'
  BY DEF BufferTyped, BuffersTyped
<1> QED
  BY <1>1 DEF BuffersTyped

LEMMA OptionsRest == OptionsTyped /\ UNCHANGED <<job, opt, args>>
                        /\ (pc = "options" => pc' \in {"options"}) /\ (pc = "dead" => pc' = "dead")
                     => OptionsTyped'
  BY DEF OptionsTyped

LEMMA WrappingIs ==
    UNCHANGED wrapping => UNCHANGED <<opt, args, pc>>
  BY DEF wrapping, setup

LEMMA OptionLengths ==
    ASSUME OptionsTyped, job \in Jobs
    PROVE  /\ opt.retain \in Nat /\ opt.width \in Nat
           /\ opt.prepend \in 0..MaxLen /\ opt.append \in 0..MaxLen
<1>1. /\ opt.prepend \in Given(job.args, "prepend") /\ opt.append \in Given(job.args, "append")
      /\ opt.retain \in 0..(Modulus - 1) /\ opt.width \in 0..(Modulus - 1)
  BY DEF OptionsTyped
<1> QED
  BY <1>1, JobIs, ModulusFacts

LEMMA TypingInit == Init => Typing
<1> SUFFICES ASSUME Init PROVE Typing
  OBVIOUS
<1>1. OptionsTyped
  BY OptionsInit
<1>2. EP!IInv
  BY EngineInit DEF Init
<1>3. WrapTyped
  BY WrapInitTyped DEF Init
<1>4. phase = "idle"
  BY DEF Init, E!Init
<1>9. pc = "options" /\ at = "read" /\ job \in Jobs /\ args = job.args /\ input = job.input
  BY DEF Init, WrapInit
<1>5. Control
  BY <1>4, <1>9 DEF Control, Kinds
<1>6. 0 \in 0..MaxLen /\ <<>> \in Seq(StyleRange)
  BY EngineBounds
<1>7. BufferTyped(MB(0, <<>>))
  BY <1>6, MBIs
<1>8. BuffersTyped
  BY <1>7 DEF Init, BuffersTyped
<1> QED
  BY <1>1, <1>2, <1>3, <1>5, <1>8 DEF Typing

(* The actions that leave the rules alone.                                    *)
LEMMA RestingEngine ==
    ASSUME EP!IInv, UNCHANGED executing, styles' \in Seq(StyleRange)
    PROVE  EP!IInv'
<1>1. UNCHANGED <<input, matched, s1, old_so, at_node, inserting, mss, ctl, todo, phase, lines>>
  BY DEF executing
<1>2. lines' \in 0..input.lines
  BY <1>1, EngineTyped
<1> QED
  BY <1>1, <1>2, EngineRests

LEMMA ReadOptionsTyping == Typing /\ ReadOptions => Typing'
<1> SUFFICES ASSUME Typing, ReadOptions PROVE Typing'
  OBVIOUS
<1>1. OptionsStep /\ UNCHANGED <<job, at, mbs, executing>>
  BY DEF ReadOptions
<1>2. UNCHANGED <<prepend_mb, append_mb, text, styles, buf, len, retainbuf, width, sp, ep,
                  style_mod, deleted, node, back, last, post_last, keep>>
  BY DEF ReadOptions, local
<1>3. pc = "options" /\ pc' \in {"options", "idle", "dead"}
  BY <1>1 DEF OptionsStep, ReadOption, BadOption, CheckOptions, TakeOption
<1>4. Control /\ OptionsTyped /\ BuffersTyped /\ WrapTyped /\ EP!IInv
  BY DEF Typing
<1>5. job \in Jobs
  BY <1>4 DEF Control
<1>6. OptionsTyped'
  BY <1>1, <1>4, <1>5, OptionsKept
<1>7. BuffersTyped'
  BY <1>1, <1>4, BuffersRest
<1>8. WrapTyped'
  BY <1>2, <1>3, <1>4 DEF WrapTyped, Rested, StringTyped
<1>9. EP!IInv'
  BY <1>1, <1>2, <1>4, EngineTyped, RestingEngine
<1>10. UNCHANGED <<input, phase>>
  BY <1>1 DEF executing
<1>11. Control'
  BY <1>1, <1>3, <1>4, <1>10 DEF Control, Kinds
<1> QED
  BY <1>6, <1>7, <1>8, <1>9, <1>11 DEF Typing

LEMMA ReadLineTyping == Typing /\ ReadLine => Typing'
<1> SUFFICES ASSUME Typing, ReadLine PROVE Typing'
  OBVIOUS
<1>1. PICK n \in input.lens :
         mbs' = [main    |-> MB(n, mbs["main"].styles),
                 append  |-> MB(opt.append, <<>>),
                 prepend |-> MB(opt.prepend, <<>>)]
  BY DEF ReadLine
<1>2. /\ at = "read" /\ at' = "main" /\ pc = "idle" /\ phase = "idle"
      /\ lines < input.lines /\ lines' = lines + 1
      /\ UNCHANGED <<job, wrapping, styles, input, matched, s1, old_so, at_node, inserting,
                     mss, ctl, todo, phase>>
  BY DEF ReadLine
<1>3. Control /\ OptionsTyped /\ BuffersTyped /\ WrapTyped /\ EP!IInv
  BY DEF Typing
<1>4. job \in Jobs /\ opt.append \in 0..MaxLen /\ opt.prepend \in 0..MaxLen
  BY <1>3, OptionLengths DEF Control
<1>5. n \in 0..MaxLen /\ input.lines \in Nat
  BY <1>1, <1>3, EngineTyped, EngineAssumptions DEF EP!InputsAssumption
<1>6. BuffersTyped'
  <2>1. mbs["main"].styles \in Seq(StyleRange) /\ <<>> \in Seq(StyleRange)
    BY <1>3 DEF BuffersTyped, BufferTyped, Kinds
  <2>2. /\ BufferTyped(MB(n, mbs["main"].styles)) /\ BufferTyped(MB(opt.append, <<>>))
        /\ BufferTyped(MB(opt.prepend, <<>>))
    BY <1>4, <1>5, <2>1, MBIs
  <2>3. /\ DOMAIN mbs' = Kinds /\ mbs'["main"] = MB(n, mbs["main"].styles)
        /\ mbs'["append"] = MB(opt.append, <<>>) /\ mbs'["prepend"] = MB(opt.prepend, <<>>)
    BY <1>1 DEF Kinds
  <2>4. ASSUME NEW k \in Kinds PROVE BufferTyped(mbs'[k])
    BY <2>2, <2>3 DEF Kinds
  <2>5. ASSUME NEW k \in Kinds PROVE BufferTyped(mbs[k])'
    BY <2>4 DEF BufferTyped
  <2> QED
    BY <2>3, <2>5 DEF BuffersTyped
<1>7. OptionsTyped'
  BY <1>2, <1>3, OptionsRest, WrappingIs
<1>8. styles \in Seq(StyleRange) /\ styles' = styles
  BY <1>2, <1>3, EngineTyped
<1>9. WrapTyped'
  BY <1>2, <1>3, <1>8, WrapRests
<1>10. EP!IInv'
  <2>1. lines' \in 0..input.lines
    BY <1>2, <1>3, <1>5, EngineTyped
  <2> QED
    BY <1>2, <1>3, <1>8, <2>1, EngineRests
<1>11. pc' = "idle"
  BY <1>2, WrappingIs
<1>12. Control'
  BY <1>2, <1>3, <1>11 DEF Control, Kinds
<1> QED
  BY <1>6, <1>7, <1>9, <1>10, <1>12 DEF Typing

LEMMA NextOfIs == \A k \in Kinds : NextOf(k) \in Kinds \cup {"wrap"}
  BY DEF Kinds, NextOf

LEMMA NoRuleTyping == Typing /\ NoRule => Typing'
<1> SUFFICES ASSUME Typing, NoRule PROVE Typing'
  OBVIOUS
<1>1. /\ at \in Kinds /\ phase = "idle" /\ at' = NextOf(at)
      /\ UNCHANGED <<job, mbs, wrapping, styles, executing>>
  BY DEF NoRule
<1>2. Control /\ OptionsTyped /\ BuffersTyped /\ WrapTyped /\ EP!IInv
  BY DEF Typing
<1>3. OptionsTyped' /\ BuffersTyped'
  BY <1>1, <1>2, OptionsRest, WrappingIs, BuffersRest
<1>4. styles \in Seq(StyleRange) /\ styles' = styles
  BY <1>1, <1>2, EngineTyped
<1>5. WrapTyped' /\ EP!IInv'
  BY <1>1, <1>2, <1>4, WrapRests, RestingEngine
<1>6. pc' = pc /\ input' = input /\ phase' = phase /\ pc = "idle"
  BY <1>1, <1>2, WrappingIs DEF executing, Control
<1>7. at' \in Kinds \cup {"wrap"}
  BY <1>1, NextOfIs
<1>8. Control'
  BY <1>1, <1>2, <1>6, <1>7 DEF Control
<1> QED
  BY <1>3, <1>5, <1>8 DEF Typing

LEMMA RunRuleTyping == Typing /\ RunRule => Typing'
<1> SUFFICES ASSUME Typing, RunRule PROVE Typing'
  OBVIOUS
<1>1. /\ at \in Kinds /\ at \in DOMAIN input.rules /\ E!Enter(at, mbs[at].bufferlen)
      /\ styles' = mbs[at].styles
      /\ UNCHANGED <<job, at, mbs, wrapping, input, s1, old_so, at_node, inserting, lines>>
  BY DEF RunRule, HasRule
<1>2. Control /\ OptionsTyped /\ BuffersTyped /\ WrapTyped /\ EP!IInv
  BY DEF Typing
<1>3. OptionsTyped' /\ BuffersTyped'
  BY <1>1, <1>2, OptionsRest, WrappingIs, BuffersRest
<1>4. mbs[at].bufferlen \in 0..MaxLen /\ styles' \in Seq(StyleRange)
  <2>1. BufferTyped(mbs[at])
    BY <1>1, <1>2 DEF BuffersTyped
  <2>2. mbs[at].bufferlen \in {0, Len(mbs[at].cells)} /\ Len(mbs[at].cells) \in Nat
        /\ Len(mbs[at].cells) <= MaxLen
    BY <2>1 DEF BufferTyped
  <2>3. mbs[at].bufferlen \in 0..MaxLen
    BY <2>2, EngineBounds
  <2> QED
    BY <1>1, <2>1, <2>3 DEF BufferTyped
<1>5. pc = "idle"
  BY <1>1, <1>2 DEF Control
<1>6. WrapTyped'
  BY <1>1, <1>2, <1>4, <1>5, WrapRests
<1>7. EP!IInv'
  BY <1>1, <1>2, <1>4, EngineEnters
<1>8. pc' = pc
  BY <1>1, WrappingIs
<1>9. Control'
  BY <1>1, <1>2, <1>5, <1>8 DEF Control
<1> QED
  BY <1>3, <1>6, <1>7, <1>9 DEF Typing

LEMMA RulesRun == E!RuleStep \/ E!FinishLine => phase = "run" /\ input' = input
  BY DEF E!RuleStep, E!FinishLine, E!ExecMacro, E!ExecAction, E!ExecStyle, E!InsertStyle,
         E!ExecMulti, E!MultiNext, E!MultiEnd, E!ExecMatch, E!TryRegex, E!TrySubex, E!TryNothing,
         E!Die, E!BodyReturns, E!BodySkips, E!MatchEnd, E!ExecSubst, E!Substitute, E!SubstNothing,
         E!ExecSet, E!Starts, E!Returned, E!Matching, E!Loops, E!Running, E!given, E!RunBody

LEMMA LinesPrinted == E!PrintLine => phase = "print" /\ phase' = "idle" /\ input' = input
  BY DEF E!PrintLine, E!given

LEMMA RulesTyping ==
    ASSUME Typing, E!RuleStep \/ E!FinishLine \/ E!PrintLine, UNCHANGED <<job, wrapping>>
    PROVE  /\ OptionsTyped' /\ WrapTyped' /\ EP!IInv' /\ at \in Kinds /\ pc = "idle"
           /\ pc' = pc /\ input' = input /\ job' \in Jobs /\ input' = job'.input
<1>1. Control /\ OptionsTyped /\ WrapTyped /\ EP!IInv
  BY DEF Typing
<1>2. phase # "idle" /\ input' = input
  BY RulesRun, LinesPrinted
<1>3. at \in Kinds /\ pc = "idle"
  BY <1>1, <1>2 DEF Control
<1>4. OptionsTyped' /\ pc' = pc
  BY <1>1, OptionsRest, WrappingIs
<1>5. EP!IInv'
  BY <1>1, EngineSteps
<1>6. (EP!IInv => /\ matched \in Seq(0..MaxLen) /\ Len(matched) <= MaxLen
                  /\ styles \in Seq(StyleRange)
                  /\ input \in Inputs /\ lines \in 0..input.lines)'
  BY EngineTyped, PTL
<1>7. styles' \in Seq(StyleRange)
  BY <1>5, <1>6 DEF StyleRange
<1>8. WrapTyped'
  BY <1>1, <1>3, <1>7, WrapRests
<1> QED
  BY <1>1, <1>2, <1>3, <1>4, <1>5, <1>8 DEF Control

LEMMA RuleStepTyping == Typing /\ RuleStep => Typing'
<1> SUFFICES ASSUME Typing, RuleStep PROVE Typing'
  OBVIOUS
<1>1. /\ E!RuleStep \/ E!FinishLine
      /\ UNCHANGED <<job, at, mbs, wrapping>>
  BY DEF RuleStep
<1>2. /\ OptionsTyped' /\ WrapTyped' /\ EP!IInv' /\ at \in Kinds /\ pc = "idle"
      /\ pc' = pc /\ job' \in Jobs /\ input' = job'.input
  BY <1>1, RulesTyping
<1>3. BuffersTyped'
  BY <1>1, BuffersRest DEF Typing
<1>4. Control'
  BY <1>1, <1>2 DEF Control
<1> QED
  BY <1>2, <1>3, <1>4 DEF Typing

LEMMA RuleDoneTyping == Typing /\ (RuleDone \/ SkipsLine \/ SkipsString) => Typing'
<1> SUFFICES ASSUME Typing, RuleDone \/ SkipsLine \/ SkipsString PROVE Typing'
  OBVIOUS
<1>1. /\ E!FinishLine \/ E!PrintLine
      /\ phase' = "idle"
      /\ UNCHANGED <<job, wrapping>>
  BY DEF RuleDone, SkipsLine, SkipsString, E!FinishLine, E!PrintLine
<1>2. /\ OptionsTyped' /\ WrapTyped' /\ EP!IInv' /\ at \in Kinds /\ pc = "idle"
      /\ pc' = pc /\ job' \in Jobs /\ input' = job'.input
  BY <1>1, RulesTyping
<1>3. at' \in Kinds \cup {"wrap", "read"}
  BY <1>2, NextOfIs DEF RuleDone, SkipsLine, SkipsString
<1>4. BuffersTyped'
  <2>1. BuffersTyped /\ EP!IInv
    BY DEF Typing
  <2>2. CASE RuleDone \/ SkipsString
    <3>1. PICK n \in {0, Len(matched)} : mbs' = [mbs EXCEPT ![at] = Result(n)]
      BY <2>2 DEF RuleDone, SkipsString
    <3> QED
      BY <1>2, <2>1, <3>1, ResultIs, BuffersIs
  <2>3. CASE SkipsLine
    <3>1. mbs' = [mbs EXCEPT !["main"] = MB(0, styles)] /\ "main" \in Kinds
      BY <2>3 DEF SkipsLine, Kinds
    <3>2. BufferTyped(MB(0, styles))
      BY <2>1, EngineTyped, EngineBounds, MBIs
    <3> QED
      BY <2>1, <3>1, <3>2, BuffersIs
  <2> QED
    BY <2>2, <2>3
<1>5. Control'
  BY <1>1, <1>2, <1>3 DEF Control
<1> QED
  BY <1>2, <1>4, <1>5 DEF Typing

LEMMA StringMBTyped ==
    ASSUME BuffersTyped, NEW kind \in Kinds
    PROVE  StringTyped(StringMB(kind))
<1>1. BufferTyped(mbs[kind])
  BY DEF BuffersTyped
<1> QED
  BY <1>1 DEF BufferTyped, StringTyped, StringMB

LEMMA LineIs ==
    ASSUME Typing, NEW line \in [1..mbs["main"].bufferlen -> job.alphabet]
    PROVE  /\ line \in Seq(Alphabet) /\ Len(line) = mbs["main"].bufferlen
           /\ mbs["main"].styles \in Seq(StyleRange)
<1>1. BufferTyped(mbs["main"]) /\ job.alphabet \subseteq Alphabet
  BY JobIs DEF Typing, Control, BuffersTyped, Kinds
<1>2. mbs["main"].bufferlen \in Nat
  BY <1>1 DEF BufferTyped
<1>3. line \in [1..mbs["main"].bufferlen -> Alphabet]
  BY <1>1
<1>4. line \in Seq(Alphabet) /\ Len(line) = mbs["main"].bufferlen
  <2> DEFINE n == mbs["main"].bufferlen
  <2>1. n \in Nat /\ line \in [1..n -> Alphabet]
    BY <1>2, <1>3
  <2> HIDE DEF n
  <2>2. line \in Seq(Alphabet) /\ Len(line) = n
    BY <2>1, FunctionIsSeq, Zenon
  <2> QED
    BY <2>2 DEF n
<1>5. mbs["main"].styles \in Seq(StyleRange)
  BY <1>1 DEF BufferTyped
<1> QED
  BY <1>4, <1>5

LEMMA StartTyping == Typing /\ StartWrap => Typing'
<1> SUFFICES ASSUME Typing, StartWrap PROVE Typing'
  OBVIOUS
<1>1. PICK line \in [1..mbs["main"].bufferlen -> job.alphabet] :
         Start(line, mbs["main"].styles, StringMB("prepend"), StringMB("append"))
  BY DEF StartWrap
<1>2. at = "wrap" /\ UNCHANGED <<job, at, mbs, executing>>
  BY DEF StartWrap
<1>3. Control /\ OptionsTyped /\ BuffersTyped /\ WrapTyped /\ EP!IInv
  BY DEF Typing
<1>4. line \in Seq(Alphabet) /\ mbs["main"].styles \in Seq(StyleRange)
  BY LineIs
<1>5. StringTyped(StringMB("prepend")) /\ StringTyped(StringMB("append"))
  BY <1>3, StringMBTyped DEF Kinds
<1>6. opt.retain \in Nat /\ opt.width \in Nat
  BY <1>3, OptionLengths DEF Control
<1>7. WrapTyped'
  BY <1>1, <1>3, <1>4, <1>5, <1>6, StartTyped
<1>8. styles' \in Seq(StyleRange)
  BY <1>1, <1>4 DEF Start
<1>9. EP!IInv' /\ BuffersTyped'
  BY <1>2, <1>3, <1>8, RestingEngine, BuffersRest
<1>10. UNCHANGED <<opt, args>> /\ pc = "idle" /\ pc' \in {"cut", "printed"}
  BY <1>1 DEF Start
<1>11. OptionsTyped'
  BY <1>2, <1>3, <1>10 DEF OptionsTyped
<1>12. input' = input /\ phase' = phase
  BY <1>2 DEF executing
<1>13. Control'
  BY <1>2, <1>3, <1>10, <1>12 DEF Control, Kinds
<1> QED
  BY <1>7, <1>9, <1>11, <1>13 DEF Typing

LEMMA WrapStepTyping == Typing /\ WrapStep => Typing'
<1> SUFFICES ASSUME Typing, WrapStep PROVE Typing'
  OBVIOUS
<1>1. wrap_line /\ UNCHANGED <<job, at, mbs, executing>>
  BY DEF WrapStep
<1>2. Control /\ OptionsTyped /\ BuffersTyped /\ WrapTyped /\ EP!IInv
  BY DEF Typing
<1>3. opt.retain \in Nat
  BY <1>2, OptionLengths DEF Control
<1>4. WrapTyped'
  BY <1>1, <1>2, <1>3, CutLineTyped, MarkRangeTyped, FinishLineTyped DEF wrap_line
<1>5. UNCHANGED <<opt, args, styles>> /\ pc \in {"cut", "mark"} /\ pc' \in {"cut", "mark", "printed"}
  BY <1>1 DEF wrap_line, CutLine, Cut, MarkRange, FinishLine, setup
<1>6. EP!IInv' /\ BuffersTyped'
  BY <1>1, <1>2, <1>5, EngineTyped, RestingEngine, BuffersRest
<1>7. OptionsTyped'
  BY <1>1, <1>2, <1>5 DEF OptionsTyped
<1>8. input' = input /\ phase' = phase
  BY <1>1 DEF executing
<1>9. Control'
  BY <1>1, <1>2, <1>5, <1>8 DEF Control, Kinds
<1> QED
  BY <1>4, <1>6, <1>7, <1>9 DEF Typing

LEMMA PrintBufferTyping == Typing /\ PrintBuffer => Typing'
<1> SUFFICES ASSUME Typing, PrintBuffer PROVE Typing'
  OBVIOUS
<1>1. /\ EndOfBuffer /\ at' = "read" /\ mbs' = [k \in Kinds |-> MB(0, <<>>)]
      /\ UNCHANGED <<job, executing>>
  BY DEF PrintBuffer
<1>2. Control /\ OptionsTyped /\ BuffersTyped /\ WrapTyped /\ EP!IInv
  BY DEF Typing
<1>3. WrapTyped'
  BY <1>1, <1>2, EndOfBufferTyped
<1>4. UNCHANGED <<opt, args>> /\ pc = "printed" /\ pc' = "idle" /\ styles' = <<>>
  BY <1>1 DEF EndOfBuffer
<1>5. EP!IInv'
  BY <1>1, <1>2, <1>4, RestingEngine
<1>6. OptionsTyped'
  BY <1>1, <1>2, <1>4 DEF OptionsTyped
<1>12. 0 \in 0..MaxLen /\ <<>> \in Seq(StyleRange)
  BY EngineBounds
<1>7. BufferTyped(MB(0, <<>>))
  BY <1>12, MBIs
<1>8. ASSUME NEW k \in Kinds PROVE BufferTyped(mbs[k])'
  BY <1>1, <1>7 DEF BufferTyped
<1>9. BuffersTyped'
  BY <1>1, <1>8 DEF BuffersTyped
<1>10. input' = input /\ phase' = phase /\ phase = "idle"
  BY <1>1, <1>2, <1>4 DEF executing, Control, Kinds
<1>11. Control'
  BY <1>1, <1>2, <1>4, <1>10 DEF Control, Kinds
<1> QED
  BY <1>3, <1>5, <1>6, <1>9, <1>11 DEF Typing

LEMMA RestTyping ==
    ASSUME Typing, UNCHANGED <<job, at, mbs, wrapping, styles, executing>>
    PROVE  Typing'
<1>1. Control /\ OptionsTyped /\ BuffersTyped /\ WrapTyped /\ EP!IInv
  BY DEF Typing
<1>2. OptionsTyped' /\ BuffersTyped'
  BY <1>1, OptionsRest, WrappingIs, BuffersRest
<1>3. styles \in Seq(StyleRange) /\ styles' = styles
  BY <1>1, EngineTyped
<1>4. WrapTyped' /\ EP!IInv'
  BY <1>1, <1>3, WrapRests, RestingEngine
<1>5. pc' = pc /\ input' = input /\ phase' = phase
  BY WrappingIs DEF executing
<1>6. Control'
  BY <1>1, <1>5 DEF Control
<1> QED
  BY <1>2, <1>4, <1>6 DEF Typing

LEMMA TypingNext == Typing /\ [Next]_vars => Typing'
<1> SUFFICES ASSUME Typing, [Next]_vars PROVE Typing'
  OBVIOUS
<1>1. CASE RemarkStep
  <2>1. CASE Exit
    BY <2>1, RestTyping DEF Exit
  <2> QED
    BY <1>1, <2>1, ReadOptionsTyping, NoRuleTyping, RunRuleTyping, RuleStepTyping, RuleDoneTyping,
       StartTyping, WrapStepTyping, PrintBufferTyping DEF RemarkStep
<1>2. CASE ReadLine
  BY <1>2, ReadLineTyping
<1>3. CASE CopyLine
  BY <1>3, RestTyping DEF CopyLine
<1>4. CASE UNCHANGED vars
  BY <1>4, RestTyping DEF vars
<1> QED
  BY <1>1, <1>2, <1>3, <1>4 DEF Next, Ended

LEMMA TypingHolds == Spec => []Typing
  BY TypingInit, TypingNext, PTL DEF Spec

LEMMA OutputInit == Init => OutputInv
<1> SUFFICES ASSUME Init PROVE OutputInv
  OBVIOUS
<1>1. pipe = <<>> /\ screen = <<>> /\ written = <<>> /\ held = FALSE /\ closed = FALSE
  BY DEF Init, CacheInit
<1>2. <<>> \in Seq(Chars) /\ <<>> \o <<>> = <<>>
  OBVIOUS
<1>3. Held = <<>>
  BY <1>1 DEF Held
<1> QED
  BY <1>1, <1>2, <1>3 DEF OutputInv

LEMMA OutputRests == OutputInv /\ UNCHANGED <<pipe, held, screen, written>> /\ closed' \in BOOLEAN
                        => OutputInv'
  BY DEF OutputInv, Held

LEMMA OutputNext == Typing /\ OutputInv /\ [Next]_vars => OutputInv'
<1> SUFFICES ASSUME Typing, OutputInv, [Next]_vars PROVE OutputInv'
  OBVIOUS
<1>1. CASE CopyLine
  BY <1>1, CachelineOutput DEF CopyLine
<1>2. CASE PrintBuffer
  <2>1. buf \in Seq(Cells)
    BY DEF Typing, WrapTyped
  <2>2. Written \in [1..Len(buf) -> Chars] /\ Len(buf) \in Nat
    BY <2>1 DEF Written, Character, Chars
  <2>3. Written \in Seq(Chars)
    BY <2>2, FunctionIsSeq
  <2> QED
    BY <1>2, <2>3, PrintOutput DEF PrintBuffer
<1>3. CASE Exit
  BY <1>3, OutputRests DEF Exit
<1>4. CASE UNCHANGED output
  <2>1. UNCHANGED <<pipe, held, screen, written, closed>>
    BY <1>4 DEF output, cache
  <2>2. closed' \in BOOLEAN
    BY <2>1 DEF OutputInv
  <2> QED
    BY <2>1, <2>2, OutputRests
<1>5. UNCHANGED output \/ CopyLine \/ PrintBuffer \/ Exit
  BY DEF Next, RemarkStep, ReadOptions, NoRule, RunRule, RuleStep, RuleDone, SkipsLine, SkipsString,
         StartWrap, WrapStep, ReadLine, Ended, vars
<1> QED
  BY <1>1, <1>2, <1>3, <1>4, <1>5

(* What is on the screen is always what cacheline has read, but for the       *)
(* newline at its end, whatever the lines and the options.                   *)
THEOREM ScreenShowsOutput == Spec => []NewlineHeld
<1>1. Spec => []OutputInv
  BY OutputInit, OutputNext, TypingHolds, PTL DEF Spec
<1> QED
  BY <1>1, OutputHeld, PTL

-----------------------------------------------------------------------------
(* What is printed is the text.                                              *)
WrapInv == Complete /\ (Fits => Sized) /\ (Room => Lined)

LEMMA LimitsHold ==
    ASSUME Typing, pc \notin {"options", "dead"}
    PROVE  Limits
<1>1. job \in Jobs /\ OptionsTyped
  BY DEF Typing, Control
<1>2. opt.retain \in Nat /\ opt.prepend \in Nat /\ opt.append \in Nat
  BY <1>1, OptionLengths
<1>3. opt.width \in 0..(Modulus - 1) /\ opt.retain + opt.append + opt.prepend < opt.width
  BY <1>1 DEF OptionsTyped
<1> QED
  BY <1>2, <1>3 DEF Limits

LEMMA StepsOfWrap ==
    ASSUME Typing, [Next]_vars
    PROVE  \/ WrapStep \/ StartWrap \/ PrintBuffer
           \/ pc \in {"options", "dead", "idle"} /\ pc' \in {"options", "dead", "idle"} /\ UNCHANGED text
           \/ UNCHANGED <<wrapping, styles>>
<1>1. CASE ReadOptions
  <2>1. OptionsStep /\ UNCHANGED text
    BY <1>1 DEF ReadOptions
  <2> QED
    BY <2>1 DEF OptionsStep, ReadOption, BadOption, CheckOptions, TakeOption
<1>2. CASE RunRule
  <2>1. pc = "idle"
    BY <1>2 DEF RunRule, Typing, Control
  <2> QED
    BY <1>2, <2>1, WrappingIs DEF RunRule, wrapping
<1>3. CASE RuleStep \/ RuleDone \/ SkipsLine \/ SkipsString
  <2>1. (E!RuleStep \/ E!FinishLine \/ E!PrintLine) /\ UNCHANGED <<job, wrapping>>
    BY <1>3 DEF RuleStep, RuleDone, SkipsLine, SkipsString
  <2>2. pc = "idle" /\ pc' = pc
    BY <2>1, RulesTyping
  <2> QED
    BY <2>1, <2>2 DEF wrapping
<1>4. CASE NoRule \/ Exit \/ ReadLine \/ CopyLine \/ UNCHANGED vars
  BY <1>4 DEF NoRule, Exit, ReadLine, CopyLine, vars
<1> QED
  BY <1>1, <1>2, <1>3, <1>4 DEF Next, RemarkStep, Ended

LEMMA InvInit == Init => WrapInv
<1> SUFFICES ASSUME Init PROVE WrapInv
  OBVIOUS
<1>1. pc = "options" /\ text = <<>>
  BY DEF Init, WrapInit
<1> QED
  BY <1>1 DEF WrapInv, Complete, Sized, Lined

LEMMA SameStrings ==
    ASSUME UNCHANGED <<wrapping, styles>>, WrapInv
    PROVE  WrapInv'
<1>1. UNCHANGED <<opt, prepend_mb, append_mb, text, buf, len, retainbuf, width, sp, ep, style_mod,
                  deleted, node, back, last, post_last, keep, pc, styles>>
  BY DEF wrapping, setup, local
<1>2. /\ prestr' = prestr /\ appstr' = appstr /\ prelen' = prelen /\ applen' = applen
      /\ prepend_mb'.length = prepend_mb.length
  BY <1>1, StringsKept
<1>3. (Room' <=> Room) /\ (Fits' <=> Fits)
  BY <1>1, <1>2, RoomKept DEF Fits
<1>4. Complete => Complete'
  BY <1>1 DEF Complete, Ordered, NoneLost, Holds, Shows, Gap
<1>5. Sized => Sized'
  BY <1>1, <1>2 DEF Sized
<1>6. Lined => Lined'
  <2>1. \A j : Printed(sp, j)' <=> Printed(sp, j)
    BY <1>1, <1>2 DEF Printed, Rest, Pieces, LineStarts, Columns, ColumnsAre
  <2>2. \A j, k : OpenLine(j, k)' <=> OpenLine(j, k)
    BY <1>1, <1>2 DEF OpenLine, Rest, Pieces, LineStarts, Columns, ColumnsAre, OnLine, Gap
  <2>3. \A j : Waiting(j)' <=> Waiting(j)
    BY <1>1 DEF Waiting, Coming
  <2>4. \A j, k : Marked(j, k)' <=> Marked(j, k)
    BY <1>1 DEF Marked, Coming, GoingOn, Nested, Extra, Markup
  <2>5. Barren' <=> Barren
    BY <1>1 DEF Barren
  <2> QED
    BY <1>1, <2>1, <2>2, <2>3, <2>4, <2>5 DEF Lined
<1> QED
  BY <1>3, <1>4, <1>5, <1>6 DEF WrapInv

LEMMA InvSteps ==
    ASSUME Typing, Typing', Small, Small', WrapInv, WrapStep
    PROVE  WrapInv'
<1>1. /\ wrap_line /\ pc \in {"cut", "mark"}
      /\ UNCHANGED <<opt, prepend_mb, append_mb, styles, text>>
  BY DEF WrapStep, wrap_line, CutLine, Cut, MarkRange, FinishLine, setup
<1>2. WrapTyped /\ WrapTyped' /\ Limits
  BY <1>1, LimitsHold DEF Typing
<1>3. Complete /\ (Fits => Sized) /\ (Room => Lined)
  BY DEF WrapInv
<1>4. Complete'
  BY <1>1, <1>2, <1>3, CompleteCut, CompleteMark, CompleteFinish DEF wrap_line
<1>5. (Room' <=> Room) /\ (Fits' <=> Fits)
  BY <1>1, RoomKept, StringsKept DEF Fits
<1>6. Fits' => Sized'
  BY <1>1, <1>2, <1>3, <1>5, SizedCut, SizedMark, SizedFinish DEF wrap_line
<1>7. Room' => Lined'
  <2> SUFFICES ASSUME Room PROVE Lined'
    BY <1>5
  <2>1. Fits /\ Sized /\ Sized' /\ Lined
    BY <1>3, <1>5, <1>6 DEF Room
  <2>2. CASE CutLine
    BY <1>2, <1>3, <2>1, <2>2, LinedCuts
  <2>3. CASE MarkRange
    BY <1>2, <1>3, <2>1, <2>3, LinedMarks
  <2>4. CASE FinishLine
    BY <1>2, <1>3, <1>4, <2>1, <2>4, LinedFinishes
  <2> QED
    BY <1>1, <2>2, <2>3, <2>4 DEF wrap_line
<1> QED
  BY <1>4, <1>6, <1>7 DEF WrapInv

LEMMA InvStarts ==
    ASSUME Typing, Typing', Small', StartWrap
    PROVE  WrapInv'
<1>1. PICK line \in [1..mbs["main"].bufferlen -> job.alphabet] :
         Start(line, mbs["main"].styles, StringMB("prepend"), StringMB("append"))
  BY DEF StartWrap
<1>2. line \in Seq(Alphabet) /\ mbs["main"].styles \in Seq(StyleRange)
  BY LineIs
<1>3. WrapTyped /\ WrapTyped' /\ opt.retain \in Nat /\ opt.width \in Nat
  BY OptionLengths DEF Typing, Control
<1>4. Complete'
  BY <1>1, <1>2, <1>3, CompleteStart
<1>5. Sized'
  BY <1>1, <1>2, <1>3, SizedStart
<1>6. Lined'
  BY <1>1, <1>2, <1>3, LinedStart
<1> QED
  BY <1>4, <1>5, <1>6 DEF WrapInv

LEMMA InvNext ==
    ASSUME Typing, Typing', Small, Small', WrapInv, [Next]_vars
    PROVE  WrapInv'
<1>1. WrapTyped
  BY DEF Typing
<1>2. CASE WrapStep
  BY <1>2, InvSteps
<1>3. CASE StartWrap
  BY <1>3, InvStarts
<1>4. CASE PrintBuffer
  <2>1. EndOfBuffer /\ pc' = "idle"
    BY <1>4 DEF PrintBuffer, EndOfBuffer
  <2>2. Complete' /\ Sized' /\ Lined'
    BY <2>1, CompleteEnd, SizedRests, LinedRests
  <2> QED
    BY <2>2 DEF WrapInv
<1>5. CASE pc \in {"options", "dead", "idle"} /\ pc' \in {"options", "dead", "idle"} /\ UNCHANGED text
  <2>1. Complete' /\ Sized' /\ Lined'
    BY <1>1, <1>5, CompleteRests, SizedRests, LinedRests
  <2> QED
    BY <2>1 DEF WrapInv
<1>6. CASE UNCHANGED <<wrapping, styles>>
  BY <1>6, SameStrings
<1> QED
  BY <1>2, <1>3, <1>4, <1>5, <1>6, StepsOfWrap

LEMMA InvHolds == Spec /\ []Small => [](Typing /\ WrapInv)
<1>1. Typing /\ Typing' /\ Small /\ Small' /\ WrapInv /\ [Next]_vars => WrapInv'
  BY InvNext
<1> QED
  BY <1>1, InvInit, TypingHolds, PTL DEF Spec

LEMMA EngineType == Typing => E!TypeOK
<1> SUFFICES ASSUME Typing PROVE E!TypeOK
  OBVIOUS
<1>1. EP!TypeOK
  BY EngineAssumptions, ModulusAssumption, EP!IInvTypes DEF Typing
<1> QED
  BY <1>1 DEF EP!TypeOK, E!TypeOK, EP!Matchspec, E!Matchspec, EP!Rules, E!Rules,
     EP!Ranges!StyleRange, E!Ranges!StyleRange

LEMMA InvTypes == Typing /\ WrapInv /\ Fits /\ OutputInv => TypeOK
<1> SUFFICES ASSUME Typing, WrapInv, Fits, OutputInv PROVE TypeOK
  OBVIOUS
<1>1. Limits \/ pc \notin {"cut", "mark"}
  BY LimitsHold
<1>2. opt.wrapper \in Wrappers /\ {opt.width, opt.retain} \subseteq 0..(Modulus - 1)
  BY DEF Typing, OptionsTyped
<1>3. WrapTypeOK
  BY <1>1, <1>2, SizedIsType DEF Typing, WrapInv
<1>4. E!TypeOK
  BY EngineType
<1>5. closed \in BOOLEAN /\ held \in BOOLEAN
  BY DEF OutputInv
<1>6. job \in Jobs /\ at \in Kinds \cup {"read", "wrap"}
  BY DEF Typing, Control
<1> QED
  BY <1>3, <1>4, <1>5, <1>6 DEF TypeOK

(* Whatever strings, ranges and options there are, and wherever the markup   *)
(* ends up, wrap_line prints all of the text in its order, but for blanks,   *)
(* if only the buffer is less than half of what a uint32 counts.             *)
THEOREM TextPrinted == Spec /\ []Small => [](pc = "printed" => TextComplete)
<1>1. Typing /\ WrapInv => (pc = "printed" => TextComplete)
  <2> SUFFICES ASSUME Typing, WrapInv, pc = "printed" PROVE TextComplete
    OBVIOUS
  <2>1. /\ buf \in Seq(Cells) /\ Len(text) \in Nat
        /\ Ordered(buf, Len(text)) /\ NoneLost(buf, Len(text))
    BY DEF Typing, WrapTyped, WrapInv, Complete
  <2> QED
    BY <2>1, BlanksLost
<1> QED
  BY <1>1, InvHolds, PTL

(* What the program keeps has its type, in whatever states the options, the  *)
(* rules, the wrapping and the pipe are; and the line that wrap_line is at   *)
(* lies in its buffer, when the rules have not made the strings longer than  *)
(* --prepend and --append are.                                               *)
THEOREM TypeCorrect == Spec /\ []Small => [](Fits => TypeOK)
<1>1. Typing /\ WrapInv /\ OutputInv => (Fits => TypeOK)
  BY InvTypes
<1>2. Spec => []OutputInv
  BY OutputInit, OutputNext, TypingHolds, PTL DEF Spec
<1> QED
  BY <1>1, <1>2, InvHolds, PTL

(* The text is printed in its order, and each of its lines in one piece: all  *)
(* that is missing are blanks between a line and the next.                   *)
THEOREM TextIsKept == Spec /\ []Small => [](Room => TextKept)
<1>1. Typing /\ WrapInv => (Room => TextKept)
  <2> SUFFICES ASSUME Typing, WrapInv, Room PROVE TextKept
    OBVIOUS
  <2>1. WrapTyped /\ Complete /\ Lined
    BY DEF Typing, WrapInv
  <2> QED
    BY <2>1, LinedIsKept
<1> QED
  BY <1>1, InvHolds, PTL

(* No line that is printed shows more characters than --width says: those of *)
(* the text, the retained text, and the strings together.                    *)
THEOREM WidthIsRespected == Spec /\ []Small => [](Room => WidthRespected)
<1>1. Typing /\ WrapInv => (Room => WidthRespected)
  <2> SUFFICES ASSUME Typing, WrapInv, Room PROVE WidthRespected
    OBVIOUS
  <2>1. WrapTyped /\ Lined /\ opt.width \in Nat
    BY OptionLengths DEF Typing, Control, WrapInv
  <2> QED
    BY <2>1, LinedFits
<1> QED
  BY <1>1, InvHolds, PTL

(* Every line wrap_line finishes leaves it with less text: it cannot go on   *)
(* for ever.                                                                 *)
THEOREM LinesDoAdvance == Spec /\ []Small /\ [](pc = "mark" => Room) => LinesAdvance
<1>1. ASSUME Typing, Typing', Small, WrapInv, WrapInv', pc = "mark" => Room, [Next]_vars
      PROVE  [pc = "mark" /\ pc' # "mark" => TextAhead' < TextAhead]_<<wrapping, styles>>
  <2> SUFFICES ASSUME pc = "mark", pc' # "mark" PROVE TextAhead' < TextAhead
    OBVIOUS
  <2>1. FinishLine
    <3>1. ~(UNCHANGED <<wrapping, styles>>)
      BY WrappingIs
    <3>2. WrapStep
      BY <1>1, <3>1, StepsOfWrap DEF StartWrap, Start, PrintBuffer, EndOfBuffer
    <3> QED
      BY <3>2 DEF WrapStep, wrap_line, CutLine, Cut, MarkRange
  <2>2. WrapTyped /\ WrapTyped' /\ Limits
    BY <1>1, LimitsHold DEF Typing
  <2>3. Complete /\ Complete' /\ Fits /\ Sized /\ Lined
    BY <1>1 DEF WrapInv, Room
  <2> QED
    BY <1>1, <2>1, <2>2, <2>3, FinishAdvances
<1>2. Typing /\ Typing' /\ Small /\ WrapInv /\ WrapInv' /\ (pc = "mark" => Room) /\ [Next]_vars
        => [pc = "mark" /\ pc' # "mark" => TextAhead' < TextAhead]_<<wrapping, styles>>
  BY <1>1
<1> QED
  BY <1>2, InvHolds, PTL DEF Spec, LinesAdvance
=============================================================================
