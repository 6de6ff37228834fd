-------------------------- MODULE StyleRanges_proofs --------------------------
(***************************************************************************)
(* insert_style keeps the list of ranges sorted and disjoint, and lays its  *)
(* style as StyleLayers says, for every text length, every set of styles and *)
(* every sequence of calls.                                                  *)
(*                                                                         *)
(* Sorted: the argument cuts the new list into blocks.  A block that ends at *)
(* or before a position p (Below) followed by a block that starts at or      *)
(* after p (Above) is ordered if both are; ranges that are all the same      *)
(* (Uniform) are ordered.  Each insort function builds its result from such  *)
(* blocks.                                                                   *)
(*                                                                         *)
(* Laid: what a list shows is put together from what its parts show, so a    *)
(* list cut at other places shows the same and r on top of it (Lays).  A     *)
(* step of the walk lays a part of s1 and keeps the rest (Moves); the empty  *)
(* ranges that the rest will wrap are those behind the node (Stands), none   *)
(* of which starts before the rest does (Ahead).                             *)
(***************************************************************************)
EXTENDS StyleRanges, Inductions

Below(s, p)       == \A i \in 1..Len(s) : s[i].eo <= p
Above(s, p)       == \A i \in 1..Len(s) : p <= s[i].so
Uniform(s, x, y)  == \A i \in 1..Len(s) : s[i].so = x /\ s[i].eo = y

(* A block: an ordered sequence of ranges that lies between two positions.   *)
Block(s, lo, hi) ==
    s \in Seq(StyleRange) /\ Ordered(s) /\ Above(s, lo) /\ Below(s, hi)

-----------------------------------------------------------------------------
LEMMA RangeEnds ==
    ASSUME NEW r \in StyleRange
    PROVE  r.so \in Nat /\ r.eo \in Nat
  BY DEF StyleRange

LEMMA ElementEnds ==
    ASSUME NEW s \in Seq(StyleRange), NEW i \in 1..Len(s)
    PROVE  s[i] \in StyleRange /\ s[i].so \in Nat /\ s[i].eo \in Nat
<1>1. s[i] \in StyleRange
  OBVIOUS
<1> QED
  BY <1>1, RangeEnds

(* What concatenation does to the elements of two lists.                     *)
LEMMA ConcatElements ==
    ASSUME NEW s \in Seq(StyleRange), NEW t \in Seq(StyleRange)
    PROVE  /\ s \o t \in Seq(StyleRange)
           /\ Len(s \o t) = Len(s) + Len(t)
           /\ \A i \in 1..Len(s \o t) :
                \/ i \in 1..Len(s) /\ (s \o t)[i] = s[i]
                \/ i - Len(s) \in 1..Len(t) /\ (s \o t)[i] = t[i - Len(s)]
  OBVIOUS

(* A block followed by a block that starts where the first ends is a block.  *)
LEMMA ConcatBlocks ==
    ASSUME NEW s, NEW t, NEW lo \in Nat, NEW p \in Nat, NEW hi \in Nat,
           lo <= p, p <= hi, Block(s, lo, p), Block(t, p, hi)
    PROVE  Block(s \o t, lo, hi)
<1> DEFINE u == s \o t
<1>1. s \in Seq(StyleRange) /\ t \in Seq(StyleRange)
  BY DEF Block
<1>2. /\ u \in Seq(StyleRange)
      /\ Len(u) = Len(s) + Len(t)
      /\ \A i \in 1..Len(u) :
            \/ i \in 1..Len(s) /\ u[i] = s[i]
            \/ i - Len(s) \in 1..Len(t) /\ u[i] = t[i - Len(s)]
  BY <1>1, ConcatElements
<1>3. Len(s) \in Nat /\ Len(t) \in Nat
  BY <1>1
<1>4. \A i \in 1..Len(s) : s[i].so \in Nat /\ s[i].eo \in Nat
  BY <1>1, ElementEnds
<1>5. \A i \in 1..Len(t) : t[i].so \in Nat /\ t[i].eo \in Nat
  BY <1>1, ElementEnds
<1> HIDE DEF u
<1>6. \A i \in 1..Len(s) : lo <= s[i].so /\ s[i].so <= s[i].eo /\ s[i].eo <= p
  BY DEF Block, Above, Below, Ordered
<1>7. \A i \in 1..Len(t) : p <= t[i].so /\ t[i].so <= t[i].eo /\ t[i].eo <= hi
  BY DEF Block, Above, Below, Ordered
<1>8. \A i \in 1..Len(u) : lo <= u[i].so /\ u[i].so <= u[i].eo /\ u[i].eo <= hi
  <2> SUFFICES ASSUME NEW i \in 1..Len(u)
               PROVE  lo <= u[i].so /\ u[i].so <= u[i].eo /\ u[i].eo <= hi
    OBVIOUS
  <2>1. CASE i \in 1..Len(s) /\ u[i] = s[i]
    BY <2>1, <1>4, <1>6
  <2>2. CASE i - Len(s) \in 1..Len(t) /\ u[i] = t[i - Len(s)]
    <3>1. PICK j \in 1..Len(t) : u[i] = t[j]
      BY <2>2
    <3> QED
      BY <3>1, <1>5, <1>7
  <2> QED
    BY <1>2, <2>1, <2>2
<1>9. \A i, j \in 1..Len(u) : i < j => Precedes(u[i], u[j])
  <2> SUFFICES ASSUME NEW i \in 1..Len(u), NEW j \in 1..Len(u), i < j
               PROVE  Precedes(u[i], u[j])
    OBVIOUS
  <2>1. CASE j \in 1..Len(s) /\ u[j] = s[j]
    <3>1. i \in 1..Len(s) /\ u[i] = s[i]
      BY <2>1, <1>2, <1>3
    <3> QED
      BY <2>1, <3>1 DEF Block, Ordered
  <2>2. CASE i - Len(s) \in 1..Len(t) /\ u[i] = t[i - Len(s)]
    <3>1. j - Len(s) \in 1..Len(t) /\ u[j] = t[j - Len(s)]
      BY <2>2, <1>2, <1>3
    <3>2. i - Len(s) < j - Len(s)
      BY <1>3
    <3> QED
      BY <2>2, <3>1, <3>2 DEF Block, Ordered
  <2>3. CASE /\ i \in 1..Len(s) /\ u[i] = s[i]
             /\ j - Len(s) \in 1..Len(t) /\ u[j] = t[j - Len(s)]
    <3> DEFINE j2 == j - Len(s)
    <3>1. u[i].eo \in Nat /\ u[i].eo <= p
      BY <2>3, <1>4, <1>6
    <3>2. j2 \in 1..Len(t) /\ u[j] = t[j2]
      BY <2>3
    <3>3. u[j].so \in Nat /\ p <= u[j].so
      <4> HIDE DEF j2
      <4> QED
        BY <3>2, <1>5, <1>7
    <3> QED
      BY <3>1, <3>3 DEF Precedes
  <2> QED
    BY <1>2, <2>1, <2>2, <2>3
<1> QED
  BY <1>2, <1>8, <1>9 DEF u, Block, Ordered, Above, Below

(* Equal ranges are a block.                                                 *)
LEMMA UniformBlock ==
    ASSUME NEW s \in Seq(StyleRange), NEW x \in Nat, NEW y \in Nat,
           x <= y, Uniform(s, x, y)
    PROVE  Block(s, x, y)
  BY DEF Block, Uniform, Ordered, Above, Below, Precedes, SameRange

LEMMA UniformConcat ==
    ASSUME NEW s \in Seq(StyleRange), NEW t \in Seq(StyleRange), NEW x, NEW y,
           Uniform(s, x, y), Uniform(t, x, y)
    PROVE  Uniform(s \o t, x, y)
  BY ConcatElements DEF Uniform

(* Part of an ordered list is ordered.                                       *)
LEMMA SubSeqOrdered ==
    ASSUME NEW s \in Seq(StyleRange), Ordered(s),
           NEW m \in 1..(Len(s) + 1), NEW n \in 0..Len(s)
    PROVE  /\ SubSeq(s, m, n) \in Seq(StyleRange)
           /\ Ordered(SubSeq(s, m, n))
  BY DEF Ordered

(* The trimmed group is uniform.                                             *)
LEMMA TrimUniform ==
    ASSUME NEW list \in Seq(StyleRange), NEW n \in 1..Len(list), NEW g \in n..Len(list),
           NEW so \in Nat, NEW eo \in Nat
    PROVE  /\ Trim(list, n, g, so, eo) \in Seq(StyleRange)
           /\ Len(Trim(list, n, g, so, eo)) = g - n + 1
           /\ Uniform(Trim(list, n, g, so, eo), so, eo)
<1> DEFINE k == g - n + 1
           T == [i \in 1..k |-> new_style_range(list[n + i - 1].style, so, eo)]
<1>1. k \in Nat
  OBVIOUS
<1>2. \A i \in 1..k : /\ T[i] \in StyleRange
                      /\ T[i].so = so /\ T[i].eo = eo
  <2> SUFFICES ASSUME NEW i \in 1..k
               PROVE  T[i] \in StyleRange /\ T[i].so = so /\ T[i].eo = eo
    OBVIOUS
  <2>1. list[n + i - 1] \in StyleRange
    BY <1>1
  <2> QED
    BY <2>1 DEF new_style_range, StyleRange
<1>3. T \in [1..k -> StyleRange]
  BY <1>2
<1>4. T \in Seq(StyleRange) /\ Len(T) = k
  <2>1. \A i \in 1..k : T[i] \in StyleRange
    BY <1>2
  <2> HIDE DEF k
  <2> QED
    BY <1>1, <2>1, IsASeq
<1> QED
  BY <1>2, <1>4 DEF Trim, Uniform

-----------------------------------------------------------------------------
(* The ranges after a group start where the group ends, or later.            *)
LEMMA AfterGroup ==
    ASSUME NEW list, Block(list, 0, N), NEW n \in 1..Len(list),
           NEW g \in GroupEnds(list, n)
    PROVE  \A j \in (g + 1)..Len(list) : list[n].eo <= list[j].so
<1>1. list \in Seq(StyleRange) /\ Len(list) \in Nat
  BY DEF Block
<1>2. \A i \in 1..Len(list) : list[i].so \in Nat /\ list[i].eo \in Nat
  BY <1>1, ElementEnds
<1>3. /\ \A i \in 1..Len(list) : list[i].so <= list[i].eo /\ list[i].eo <= N
      /\ \A i, j \in 1..Len(list) : i < j => Precedes(list[i], list[j])
  BY DEF Block, Ordered, Below
<1>4. /\ g \in n..Len(list)
      /\ g < Len(list) => ~SameRange(list[g + 1], list[n])
  BY DEF GroupEnds
<1> SUFFICES ASSUME NEW j \in (g + 1)..Len(list)
             PROVE  list[n].eo <= list[j].so
  OBVIOUS
<1>5. /\ g \in Nat /\ n \in Nat /\ j \in 1..Len(list) /\ g + 1 \in 1..Len(list)
      /\ n < g + 1 /\ n < j /\ g + 1 <= j
  BY <1>1, <1>4
<1>6. list[n].eo <= list[g + 1].so
  BY <1>5, <1>3, <1>4 DEF Precedes, SameRange
<1>7. CASE j = g + 1
  BY <1>6, <1>7
<1>8. CASE g + 1 < j
  <2>1. list[g + 1].so <= list[j].so
    <3>1. Precedes(list[g + 1], list[j])
      BY <1>3, <1>5, <1>8
    <3>2. list[g + 1].so <= list[g + 1].eo
      BY <1>3, <1>5
    <3>3. /\ list[g + 1].so \in Nat /\ list[g + 1].eo \in Nat
          /\ list[j].so \in Nat /\ list[j].eo \in Nat
      BY <1>2, <1>5
    <3> QED
      BY <3>1, <3>2, <3>3 DEF Precedes, SameRange
  <2> QED
    BY <2>1, <1>5, <1>6, <1>2
<1> QED
  BY <1>5, <1>7, <1>8

(* What insort_style2 and insort_style3 leave alone: the ranges before the   *)
(* group end where it starts, and those after it start where it ends.        *)
LEMMA AroundGroup ==
    ASSUME NEW list, Block(list, 0, N), NEW n \in 1..Len(list),
           NEW g \in GroupEnds(list, n),
           \A i \in 1..(n - 1) : list[i].eo < list[n].eo
    PROVE  /\ Block(SubSeq(list, 1, n - 1), 0, list[n].so)
           /\ Block(SubSeq(list, g + 1, Len(list)), list[n].eo, N)
<1>1. list \in Seq(StyleRange) /\ Len(list) \in Nat
  BY DEF Block
<1>2. \A i \in 1..Len(list) : list[i].so \in Nat /\ list[i].eo \in Nat
  BY <1>1, ElementEnds
<1>3. /\ \A i \in 1..Len(list) : list[i].so <= list[i].eo /\ list[i].eo <= N
      /\ \A i, j \in 1..Len(list) : i < j => Precedes(list[i], list[j])
  BY DEF Block, Ordered, Below
<1>4. /\ g \in n..Len(list)
      /\ g < Len(list) => ~SameRange(list[g + 1], list[n])
  BY DEF GroupEnds
<1>5. \A i \in 1..(n - 1) : list[i].eo <= list[n].so
  BY <1>1, <1>2, <1>3 DEF Precedes, SameRange
<1>6. \A j \in (g + 1)..Len(list) : list[n].eo <= list[j].so
  BY AfterGroup
<1>7. Block(SubSeq(list, 1, n - 1), 0, list[n].so)
  <2> DEFINE t == SubSeq(list, 1, n - 1)
  <2>1. t \in Seq(StyleRange) /\ Ordered(t)
    BY <1>1, <1>3, SubSeqOrdered DEF Block
  <2>2. Len(t) = n - 1 /\ \A i \in 1..Len(t) : t[i] = list[i]
    BY <1>1
  <2> QED
    BY <2>1, <2>2, <1>1, <1>2, <1>5 DEF Block, Above, Below
<1>8. Block(SubSeq(list, g + 1, Len(list)), list[n].eo, N)
  <2> DEFINE t == SubSeq(list, g + 1, Len(list))
  <2>1. t \in Seq(StyleRange) /\ Ordered(t)
    BY <1>1, <1>3, <1>4, SubSeqOrdered DEF Block
  <2>2. Len(t) = Len(list) - g /\ \A i \in 1..Len(t) : t[i] = list[g + i]
    BY <1>1, <1>4
  <2>3. \A i \in 1..Len(t) : g + i \in (g + 1)..Len(list) /\ g + i \in 1..Len(list)
    BY <2>2, <1>1, <1>4
  <2> QED
    BY <2>1, <2>2, <2>3, <1>3, <1>6 DEF Block, Above, Below
<1> QED
  BY <1>7, <1>8

(* insort_style2 keeps the list a block, and everything up to the node it    *)
(* returns ends where the group ended.                                       *)
LEMMA InsortStyle2 ==
    ASSUME NEW list, Block(list, 0, N), NEW n \in 1..Len(list),
           NEW g \in GroupEnds(list, n),
           \A i \in 1..(n - 1) : list[i].eo < list[n].eo,
           NEW p2 \in Nat, list[n].so <= p2, p2 <= list[n].eo,
           NEW a \in Seq(StyleRange), Uniform(a, list[n].so, p2) \/ Uniform(a, p2, p2),
           NEW b \in Seq(StyleRange), Uniform(b, p2, list[n].eo)
    PROVE  LET new == insort_style2(list, n, g, p2, a, b)
               last == g + (g - n) + 1 + Len(a) + Len(b)
           IN  /\ Block(new, 0, N)
               /\ last \in 1..Len(new)
               /\ \A i \in 1..last : new[i].eo <= list[n].eo
<1> DEFINE lo    == list[n].so
           hi    == list[n].eo
           pre   == SubSeq(list, 1, n - 1)
           t1    == Trim(list, n, g, lo, p2)
           t2    == Trim(list, n, g, p2, hi)
           post  == SubSeq(list, g + 1, Len(list))
           left  == t1 \o a
           right == t2 \o b
           made  == pre \o (left \o right)
<1>1. list \in Seq(StyleRange) /\ Len(list) \in Nat
  BY DEF Block
<1>2. lo \in Nat /\ hi \in Nat /\ lo <= hi /\ hi <= N
  BY <1>1, ElementEnds DEF Block, Ordered, Below
<1>3. g \in n..Len(list)
  BY DEF GroupEnds
<1>4. Block(pre, 0, lo) /\ Block(post, hi, N)
  BY AroundGroup
<1>5. Len(pre) = n - 1 /\ Len(post) = Len(list) - g
  BY <1>1, <1>3
<1>6. insort_style2(list, n, g, p2, a, b) = made \o post
  BY DEF insort_style2
<1> HIDE DEF lo, hi, pre, post
<1>7. t1 \in Seq(StyleRange) /\ Len(t1) = g - n + 1 /\ Uniform(t1, lo, p2)
  <2> HIDE DEF t1, t2
  <2> SUFFICES /\ Trim(list, n, g, lo, p2) \in Seq(StyleRange)
               /\ Len(Trim(list, n, g, lo, p2)) = g - n + 1
               /\ Uniform(Trim(list, n, g, lo, p2), lo, p2)
    BY DEF t1
  <2> QED
    BY <1>1, <1>2, <1>3, TrimUniform
<1>8. t2 \in Seq(StyleRange) /\ Len(t2) = g - n + 1 /\ Uniform(t2, p2, hi)
  <2> HIDE DEF t1, t2
  <2> SUFFICES /\ Trim(list, n, g, p2, hi) \in Seq(StyleRange)
               /\ Len(Trim(list, n, g, p2, hi)) = g - n + 1
               /\ Uniform(Trim(list, n, g, p2, hi), p2, hi)
    BY DEF t2
  <2> QED
    BY <1>1, <1>2, <1>3, TrimUniform
<1> HIDE DEF t1, t2
<1>9. Block(left, lo, p2) /\ Len(left) = Len(t1) + Len(a)
  <2>1. Len(left) = Len(t1) + Len(a)
    BY <1>7, ConcatElements
  <2>2. CASE Uniform(a, lo, p2)
    <3>1. left \in Seq(StyleRange) /\ Uniform(left, lo, p2)
      BY <2>2, <1>7, UniformConcat, ConcatElements
    <3> QED
      BY <3>1, <2>1, <1>2, UniformBlock DEF lo
  <2>3. CASE Uniform(a, p2, p2)
    <3>1. Block(t1, lo, p2) /\ Block(a, p2, p2)
      BY <2>3, <1>2, <1>7, UniformBlock DEF lo
    <3> QED
      BY <3>1, <2>1, <1>2, ConcatBlocks DEF lo
  <2> QED
    BY <2>2, <2>3 DEF lo
<1>10. Block(right, p2, hi) /\ Len(right) = Len(t2) + Len(b)
  <2>1. right \in Seq(StyleRange) /\ Uniform(right, p2, hi) /\ Len(right) = Len(t2) + Len(b)
    BY <1>8, UniformConcat, ConcatElements DEF hi
  <2> QED
    BY <2>1, <1>2, UniformBlock DEF hi
<1> HIDE DEF left, right
<1>11. Block(made, 0, hi) /\ Len(made) = Len(pre) + Len(left) + Len(right)
  <2>1. Block(left \o right, lo, hi) /\ Len(left \o right) = Len(left) + Len(right)
    <3>1. Block(left \o right, lo, hi)
      BY <1>2, <1>9, <1>10, ConcatBlocks DEF lo, hi
    <3>2. left \in Seq(StyleRange) /\ right \in Seq(StyleRange)
      BY <1>9, <1>10 DEF Block
    <3> QED
      BY <3>1, <3>2, ConcatElements
  <2>2. Block(made, 0, hi)
    BY <2>1, <1>2, <1>4, ConcatBlocks
  <2>3. Len(made) = Len(pre) + Len(left \o right)
    BY <2>1, <1>4, ConcatElements DEF Block
  <2>4. Len(pre) \in Nat /\ Len(left) \in Nat /\ Len(right) \in Nat
    BY <1>4, <1>9, <1>10 DEF Block
  <2> QED
    BY <2>1, <2>2, <2>3, <2>4
<1> HIDE DEF made
<1>12. Block(made \o post, 0, N) /\ Len(made \o post) = Len(made) + Len(post)
  BY <1>2, <1>4, <1>11, ConcatBlocks, ConcatElements, NAssumption DEF Block
<1>13. \A i \in 1..Len(made) : (made \o post)[i].eo <= hi
  <2>1. made \in Seq(StyleRange) /\ post \in Seq(StyleRange) /\ Below(made, hi)
    BY <1>4, <1>11 DEF Block
  <2> QED
    BY <2>1 DEF Below
<1>14. /\ Len(made) = g + (g - n) + 1 + Len(a) + Len(b)
       /\ Len(made) \in 1..Len(made \o post)
  <2>1. Len(a) \in Nat /\ Len(b) \in Nat /\ Len(post) \in Nat
    BY <1>4 DEF Block
  <2>2. n \in Nat /\ g \in Nat /\ 1 <= n /\ n <= g
    BY <1>1, <1>3
  <2>3. Len(made) = (n - 1) + ((g - n + 1) + Len(a)) + ((g - n + 1) + Len(b))
    BY <1>5, <1>7, <1>8, <1>9, <1>10, <1>11
  <2>4. Len(made \o post) = Len(made) + Len(post)
    BY <1>12
  <2> HIDE DEF made, post
  <2>5. Len(made) = g + (g - n) + 1 + Len(a) + Len(b)
    BY <2>1, <2>2, <2>3
  <2>6. Len(made) \in Nat /\ 1 <= Len(made)
    BY <2>1, <2>2, <2>5
  <2>7. Len(made) \in 1..(Len(made) + Len(post))
    BY <2>1, <2>6
  <2> QED
    BY <2>4, <2>5, <2>7
<1> QED
  BY <1>6, <1>12, <1>13, <1>14 DEF hi

(* insort_style3 keeps the list a block.                                     *)
LEMMA InsortStyle3 ==
    ASSUME NEW list, Block(list, 0, N), NEW n \in 1..Len(list),
           NEW g \in GroupEnds(list, n),
           \A i \in 1..(n - 1) : list[i].eo < list[n].eo,
           NEW b \in StyleRange,
           list[n].so <= b.so, b.so <= b.eo, b.eo <= list[n].eo
    PROVE  Block(insort_style3(list, n, g, b), 0, N)
<1> DEFINE lo     == list[n].so
           hi     == list[n].eo
           pre    == SubSeq(list, 1, n - 1)
           post   == SubSeq(list, g + 1, Len(list))
           left   == Trim(list, n, g, lo, b.so)
           t2     == Trim(list, n, g, b.so, b.eo)
           middle == t2 \o <<b>>
           right  == Trim(list, n, g, b.eo, hi)
<1>1. list \in Seq(StyleRange) /\ Len(list) \in Nat
  BY DEF Block
<1>2. lo \in Nat /\ hi \in Nat /\ lo <= hi /\ hi <= N /\ b.so \in Nat /\ b.eo \in Nat
  BY <1>1, ElementEnds, RangeEnds DEF Block, Ordered, Below
<1>3. g \in n..Len(list)
  BY DEF GroupEnds
<1>4. Block(pre, 0, lo) /\ Block(post, hi, N)
  BY AroundGroup
<1>5. insort_style3(list, n, g, b) = pre \o (left \o (middle \o right)) \o post
  BY DEF insort_style3
<1> HIDE DEF lo, hi, pre, post
<1>6. Block(left, lo, b.so)
  <2>1. left \in Seq(StyleRange) /\ Uniform(left, lo, b.so)
    BY <1>1, <1>2, <1>3, TrimUniform
  <2> QED
    BY <2>1, <1>2, UniformBlock DEF lo
<1>7. Block(right, b.eo, hi)
  <2>1. right \in Seq(StyleRange) /\ Uniform(right, b.eo, hi)
    BY <1>1, <1>2, <1>3, TrimUniform
  <2> QED
    BY <2>1, <1>2, UniformBlock DEF hi
<1>8. Block(middle, b.so, b.eo)
  <2>1. t2 \in Seq(StyleRange) /\ Uniform(t2, b.so, b.eo)
    BY <1>1, <1>2, <1>3, TrimUniform
  <2>2. <<b>> \in Seq(StyleRange) /\ Uniform(<<b>>, b.so, b.eo)
    BY DEF Uniform
  <2> HIDE DEF t2
  <2>3. middle \in Seq(StyleRange) /\ Uniform(middle, b.so, b.eo)
    BY <2>1, <2>2, UniformConcat, ConcatElements
  <2> QED
    BY <2>3, <1>2, UniformBlock
<1> HIDE DEF left, middle, right
<1>9. Block(middle \o right, b.so, hi)
  BY <1>2, <1>7, <1>8, ConcatBlocks DEF hi
<1>10. Block(left \o (middle \o right), lo, hi)
  BY <1>2, <1>6, <1>9, ConcatBlocks DEF lo, hi
<1>11. Block(pre \o (left \o (middle \o right)), 0, hi)
  BY <1>2, <1>4, <1>10, ConcatBlocks
<1> QED
  BY <1>2, <1>4, <1>5, <1>11, ConcatBlocks, NAssumption

(* A range put into the list where what is before precedes it and what is    *)
(* after follows it.                                                         *)
LEMMA InsertBlock ==
    ASSUME NEW list, Block(list, 0, N), NEW n \in 1..(Len(list) + 1),
           NEW r \in StyleRange, r.so <= r.eo, r.eo <= N,
           \A i \in 1..(n - 1) : Precedes(list[i], r),
           \A i \in n..Len(list) : Precedes(r, list[i])
    PROVE  LET new == InsertAt(list, n, r)
           IN  /\ Block(new, 0, N)
               /\ Len(new) = Len(list) + 1
               /\ new[n] = r
               /\ \A i \in 1..(n - 1) : new[i] = list[i]
               /\ \A i \in n..Len(list) : new[i + 1] = list[i]
<1> DEFINE new == InsertAt(list, n, r)
<1>1. list \in Seq(StyleRange) /\ Len(list) \in Nat /\ n \in Nat
  BY DEF Block
<1>2. /\ new \in Seq(StyleRange)
      /\ Len(new) = Len(list) + 1
      /\ new[n] = r
      /\ \A i \in 1..(n - 1) : new[i] = list[i]
      /\ \A i \in n..Len(list) : new[i + 1] = list[i]
  <2> DEFINE pre  == SubSeq(list, 1, n - 1)
             post == SubSeq(list, n, Len(list))
             head == pre \o <<r>>
  <2>1. /\ pre \in Seq(StyleRange) /\ Len(pre) = n - 1
        /\ \A i \in 1..(n - 1) : pre[i] = list[i]
    BY <1>1
  <2>2. /\ post \in Seq(StyleRange) /\ Len(post) = Len(list) - n + 1
        /\ \A i \in 1..Len(post) : post[i] = list[n + i - 1]
    BY <1>1
  <2> HIDE DEF pre, post
  <2>3. /\ head \in Seq(StyleRange) /\ Len(head) = n
        /\ head[n] = r
        /\ \A i \in 1..(n - 1) : head[i] = list[i]
    BY <1>1, <2>1
  <2>4. new = head \o post
    BY DEF InsertAt, pre, post
  <2> HIDE DEF head
  <2>5. /\ new \in Seq(StyleRange) /\ Len(new) = Len(head) + Len(post)
        /\ \A i \in 1..Len(head) : new[i] = head[i]
        /\ \A i \in 1..Len(post) : new[Len(head) + i] = post[i]
    BY <2>2, <2>3, <2>4
  <2> HIDE DEF new
  <2>6. \A i \in n..Len(list) : new[i + 1] = list[i]
    <3> SUFFICES ASSUME NEW i \in n..Len(list)
                 PROVE  new[i + 1] = list[i]
      OBVIOUS
    <3>1. i - n + 1 \in 1..Len(post) /\ n + (i - n + 1) = i + 1 /\ n + (i - n + 1) - 1 = i
      BY <1>1, <2>2
    <3> DEFINE k == i - n + 1
    <3>2. post[k] = list[n + k - 1]
      BY <3>1, <2>2
    <3>3. new[n + k] = post[k]
      BY <3>1, <2>3, <2>5
    <3> QED
      BY <3>1, <3>2, <3>3
  <2>7. Len(new) = Len(list) + 1
    <3> HIDE DEF head
    <3> QED
      BY <1>1, <2>2, <2>3, <2>5
  <2>8. new[n] = r
    BY <1>1, <2>3, <2>5
  <2>9. \A i \in 1..(n - 1) : new[i] = list[i]
    BY <1>1, <2>3, <2>5
  <2> QED
    BY <2>5, <2>6, <2>7, <2>8, <2>9
<1> HIDE DEF new
<1>3. \A i \in 1..Len(new) :
          \/ i \in 1..(n - 1) /\ new[i] = list[i]
          \/ i = n /\ new[i] = r
          \/ i - 1 \in n..Len(list) /\ new[i] = list[i - 1]
  <2> SUFFICES ASSUME NEW i \in 1..Len(new), i # n, i \notin 1..(n - 1)
               PROVE  i - 1 \in n..Len(list) /\ new[i] = list[i - 1]
    BY <1>2
  <2>1. i - 1 \in n..Len(list)
    BY <1>1, <1>2
  <2>2. new[(i - 1) + 1] = list[i - 1]
    BY <2>1, <1>2
  <2> QED
    BY <2>1, <2>2, <1>1, <1>2
<1>4. \A i \in 1..Len(list) : list[i].so <= list[i].eo /\ list[i].eo <= N
  BY DEF Block, Ordered, Below
<1>5. \A i \in 1..Len(new) : new[i].so <= new[i].eo /\ new[i].eo <= N
  <2> SUFFICES ASSUME NEW i \in 1..Len(new)
               PROVE  new[i].so <= new[i].eo /\ new[i].eo <= N
    OBVIOUS
  <2>1. i = n \/ \E k \in 1..Len(list) : new[i] = list[k]
    BY <1>1, <1>3
  <2> QED
    BY <2>1, <1>2, <1>4
<1>6. \A i, j \in 1..Len(new) : i < j => Precedes(new[i], new[j])
  <2> SUFFICES ASSUME NEW i \in 1..Len(new), NEW j \in 1..Len(new), i < j
               PROVE  Precedes(new[i], new[j])
    OBVIOUS
  <2>1. \A k, m \in 1..Len(list) : k < m => Precedes(list[k], list[m])
    BY DEF Block, Ordered
  <2>2. CASE i = n
    <3>1. j - 1 \in n..Len(list) /\ new[j] = list[j - 1]
      BY <2>2, <1>1, <1>3
    <3> QED
      BY <2>2, <3>1, <1>2
  <2>3. CASE j = n
    <3>1. i \in 1..(n - 1) /\ new[i] = list[i]
      BY <2>3, <1>1, <1>2
    <3> QED
      BY <2>3, <3>1, <1>2
  <2>4. CASE i \in 1..(n - 1) /\ new[i] = list[i] /\ j # n
    <3>1. PICK m \in 1..Len(list) : i < m /\ new[j] = list[m]
      BY <2>4, <1>1, <1>3
    <3> QED
      BY <2>1, <2>4, <3>1, <1>1
  <2>5. CASE i - 1 \in n..Len(list) /\ new[i] = list[i - 1]
    <3>1. j - 1 \in n..Len(list) /\ new[j] = list[j - 1]
      BY <2>5, <1>1, <1>3
    <3>2. i - 1 < j - 1
      BY <1>1
    <3> QED
      BY <2>1, <2>5, <3>1, <3>2, <1>1
  <2> QED
    BY <2>2, <2>3, <2>4, <2>5, <1>3
<1>7. \A i \in 1..Len(new) : 0 <= new[i].so
  BY <1>2, ElementEnds
<1> QED
  BY <1>2, <1>5, <1>6, <1>7 DEF new, Block, Ordered, Above, Below

(* insort_style1 keeps the list a block when it is given a range that the    *)
(* group may be followed by, and everything up to the node it returns ends   *)
(* where the group ends.                                                     *)
LEMMA InsortStyle1 ==
    ASSUME NEW list, Block(list, 0, N), NEW n \in 1..Len(list),
           NEW g \in GroupEnds(list, n),
           NEW a \in StyleRange, a.eo = list[n].eo,
           a.so = list[n].so \/ a.so = list[n].eo
    PROVE  LET new == insort_style1(list, g, a)
           IN  /\ Block(new, 0, N)
               /\ g + 1 \in 1..Len(new)
               /\ \A i \in 1..(g + 1) : new[i].eo <= list[n].eo
<1>1. list \in Seq(StyleRange) /\ Len(list) \in Nat /\ n \in Nat
  BY DEF Block
<1>2. /\ \A i \in 1..Len(list) : list[i].so \in Nat /\ list[i].eo \in Nat
      /\ a.so \in Nat /\ a.eo \in Nat
  BY <1>1, ElementEnds, RangeEnds
<1>3. /\ \A i \in 1..Len(list) : list[i].so <= list[i].eo /\ list[i].eo <= N
      /\ \A i, j \in 1..Len(list) : i < j => Precedes(list[i], list[j])
  BY DEF Block, Ordered, Below
<1>4. /\ g \in n..Len(list) /\ g \in Nat
      /\ \A i \in n..g : SameRange(list[i], list[n])
  BY <1>1 DEF GroupEnds
<1>5. \A i \in 1..g : list[i].eo <= list[n].eo /\ Precedes(list[i], a)
  <2> SUFFICES ASSUME NEW i \in 1..g
               PROVE  list[i].eo <= list[n].eo /\ Precedes(list[i], a)
    OBVIOUS
  <2>1. i \in 1..Len(list)
    BY <1>1, <1>4
  <2>2. CASE i < n
    <3>1. Precedes(list[i], list[n])
      BY <2>1, <2>2, <1>3
    <3> QED
      BY <3>1, <2>1, <1>2, <1>3 DEF Precedes, SameRange
  <2>3. CASE i \in n..g
    BY <2>1, <2>3, <1>2, <1>3, <1>4 DEF Precedes, SameRange
  <2> QED
    BY <2>2, <2>3, <1>1, <1>4
<1>6. \A i \in (g + 1)..Len(list) : Precedes(a, list[i])
  BY AfterGroup DEF Precedes
<1>7. a.so <= a.eo /\ a.eo <= N
  BY <1>2, <1>3
<1>8. LET new == InsertAt(list, g + 1, a)
      IN  /\ Block(new, 0, N)
          /\ Len(new) = Len(list) + 1
          /\ new[g + 1] = a
          /\ \A i \in 1..g : new[i] = list[i]
  <2>1. g + 1 \in 1..(Len(list) + 1) /\ (g + 1) - 1 = g
    BY <1>1, <1>4
  <2> QED
    BY <2>1, <1>5, <1>6, <1>7, InsertBlock
<1>9. insort_style1(list, g, a) = InsertAt(list, g + 1, a)
  BY DEF insort_style1, lnode_add_after
<1> DEFINE new == InsertAt(list, g + 1, a)
<1> HIDE DEF new
<1>10. \A i \in 1..(g + 1) : new[i].eo <= list[n].eo
  <2> SUFFICES ASSUME NEW i \in 1..(g + 1)
               PROVE  new[i].eo <= list[n].eo
    OBVIOUS
  <2>1. CASE i = g + 1
    BY <2>1, <1>2, <1>8 DEF new
  <2>2. CASE i \in 1..g
    BY <2>2, <1>5, <1>8 DEF new
  <2> QED
    BY <2>1, <2>2, <1>4
<1> QED
  BY <1>1, <1>4, <1>8, <1>9, <1>10 DEF new

(* 3b, 3c and 4a: the front part of s1 put before the group, which moves on  *)
(* by one.                                                                   *)
LEMMA AddBefore ==
    ASSUME NEW list, Block(list, 0, N), NEW n \in 1..Len(list),
           NEW g \in GroupEnds(list, n),
           NEW r \in StyleRange, r.so <= r.eo, r.eo <= list[n].so,
           \A i \in 1..(n - 1) : list[i].eo <= r.so
    PROVE  LET new == lnode_add_before(list, n, r)
           IN  /\ Block(new, 0, N)
               /\ n + 1 \in 1..Len(new)
               /\ new[n + 1] = list[n]
               /\ g + 1 \in GroupEnds(new, n + 1)
               /\ \A i \in 1..n : new[i].eo <= r.eo
<1>1. list \in Seq(StyleRange) /\ Len(list) \in Nat /\ n \in Nat
  BY DEF Block
<1>2. /\ \A i \in 1..Len(list) : list[i].so \in Nat /\ list[i].eo \in Nat
      /\ r.so \in Nat /\ r.eo \in Nat
  BY <1>1, ElementEnds, RangeEnds
<1>3. /\ \A i \in 1..Len(list) : list[i].so <= list[i].eo /\ list[i].eo <= N
      /\ \A i, j \in 1..Len(list) : i < j => Precedes(list[i], list[j])
  BY DEF Block, Ordered, Below
<1>4. /\ g \in n..Len(list) /\ g \in Nat
      /\ \A i \in n..g : SameRange(list[i], list[n])
      /\ g < Len(list) => ~SameRange(list[g + 1], list[n])
  BY <1>1 DEF GroupEnds
<1>5. \A i \in 1..(n - 1) : Precedes(list[i], r)
  BY DEF Precedes
<1>6. \A i \in n..Len(list) : Precedes(r, list[i])
  <2> SUFFICES ASSUME NEW i \in n..Len(list)
               PROVE  Precedes(r, list[i])
    OBVIOUS
  <2>1. i = n \/ Precedes(list[n], list[i])
    BY <1>1, <1>3
  <2>2. i \in 1..Len(list)
    BY <1>1
  <2> QED
    BY <2>1, <2>2, <1>2, <1>3 DEF Precedes, SameRange
<1>7. r.eo <= N
  BY <1>2, <1>3, NAssumption
<1> DEFINE new == InsertAt(list, n, r)
<1>8. /\ Block(new, 0, N)
      /\ Len(new) = Len(list) + 1
      /\ new[n] = r
      /\ \A i \in 1..(n - 1) : new[i] = list[i]
      /\ \A i \in n..Len(list) : new[i + 1] = list[i]
  <2>1. n \in 1..(Len(list) + 1)
    BY <1>1
  <2> QED
    BY <2>1, <1>5, <1>6, <1>7, InsertBlock
<1>9. lnode_add_before(list, n, r) = new
  BY DEF lnode_add_before
<1> HIDE DEF new
<1>10. g + 1 \in GroupEnds(new, n + 1)
  <2>1. g + 1 \in (n + 1)..Len(new)
    BY <1>1, <1>4, <1>8
  <2>2. \A i \in (n + 1)..(g + 1) : SameRange(new[i], new[n + 1])
    <3> SUFFICES ASSUME NEW i \in (n + 1)..(g + 1)
                 PROVE  SameRange(new[i], new[n + 1])
      OBVIOUS
    <3>1. i - 1 \in n..g /\ i - 1 \in n..Len(list) /\ (i - 1) + 1 = i
      BY <1>1, <1>4
    <3>2. new[i] = list[i - 1] /\ new[n + 1] = list[n]
      BY <3>1, <1>1, <1>8
    <3> QED
      BY <3>1, <3>2, <1>4
  <2>3. g + 1 < Len(new) => ~SameRange(new[(g + 1) + 1], new[n + 1])
    <3> SUFFICES ASSUME g + 1 < Len(new)
                 PROVE  ~SameRange(new[(g + 1) + 1], new[n + 1])
      OBVIOUS
    <3>1. g < Len(list) /\ g + 1 \in n..Len(list)
      BY <1>1, <1>4, <1>8
    <3> QED
      BY <3>1, <1>1, <1>4, <1>8
  <2> QED
    BY <2>1, <2>2, <2>3 DEF GroupEnds
<1>11. \A i \in 1..n : new[i].eo <= r.eo
  <2> SUFFICES ASSUME NEW i \in 1..n
               PROVE  new[i].eo <= r.eo
    OBVIOUS
  <2>1. CASE i = n
    BY <2>1, <1>2, <1>8
  <2>2. CASE i \in 1..(n - 1)
    <3>1. new[i] = list[i] /\ list[i].eo <= r.so /\ i \in 1..Len(list)
      BY <2>2, <1>1, <1>8
    <3> QED
      BY <3>1, <1>2
  <2> QED
    BY <2>1, <2>2, <1>1
<1> QED
  BY <1>1, <1>8, <1>9, <1>10, <1>11

-----------------------------------------------------------------------------
(* What every step of the loop can rely on.                                  *)
LEMMA AtNodeFacts ==
    ASSUME IInv, AtNode
    PROVE  /\ Block(styles, 0, N)
           /\ node \in 1..Len(styles)
           /\ s1 \in StyleRange /\ s2 \in StyleRange
           /\ s1.so \in Nat /\ s1.eo \in Nat /\ s2.so \in Nat /\ s2.eo \in Nat
           /\ s2.so <= s2.eo /\ s2.eo <= N
           /\ old_so \in Nat /\ old_so <= s1.so /\ s1.so <= s1.eo /\ s1.eo <= N
           /\ \A i \in 1..(node - 1) : styles[i].eo <= s1.so
           /\ \A i \in 1..(node - 1) : styles[i] \in StyleRange /\ styles[i].eo \in Nat
<1>1. styles \in Seq(StyleRange) /\ Len(styles) \in Nat /\ old_so \in Nat
  BY DEF IInv, TypeOK
<1>2. /\ node \in 1..Len(styles)
      /\ s1 \in StyleRange
      /\ old_so <= s1.so /\ s1.so <= s1.eo /\ s1.eo <= N
      /\ \A i \in 1..(node - 1) : styles[i].eo <= s1.so
  BY <1>1 DEF IInv, NothingLeftBehind, AtNode
<1>3. \A i \in 1..Len(styles) : /\ styles[i] \in StyleRange
                                /\ styles[i].so \in Nat /\ styles[i].eo \in Nat
                                /\ styles[i].so <= styles[i].eo /\ styles[i].eo <= N
  BY <1>1, ElementEnds DEF IInv, SortedDisjoint, Ordered
<1>4. Block(styles, 0, N)
  BY <1>1, <1>3 DEF IInv, SortedDisjoint, Block, Above, Below
<1>5. \A i \in 1..(node - 1) : i \in 1..Len(styles)
  BY <1>1, <1>2
<1> QED
  BY <1>1, <1>2, <1>3, <1>4, <1>5, RangeEnds DEF s2

LEMMA ReturnInv ==
    ASSUME NEW new, Block(new, 0, N), Return(new)
    PROVE  IInv'
<1>1. new \in Seq(StyleRange) /\ Ordered(new) /\ \A i \in 1..Len(new) : new[i].eo <= N
  BY DEF Block, Below
<1>2. styles' = new /\ pc' = "idle" /\ old_so' = 0 /\ node' = 0 /\ s1' = NoRange
  BY DEF Return
<1>3. TypeOK'
  BY <1>1, <1>2 DEF TypeOK
<1>4. SortedDisjoint'
  BY <1>1, <1>2 DEF SortedDisjoint, Ordered, Precedes, SameRange
<1>5. NothingLeftBehind'
  BY <1>2 DEF NothingLeftBehind
<1> QED
  BY <1>3, <1>4, <1>5 DEF IInv

LEMMA ContinueInv ==
    ASSUME IInv, AtNode, NEW new, NEW last, NEW rest, Continue(new, last, rest),
           Block(new, 0, N), last \in 0..Len(new),
           rest \in StyleRange, old_so <= rest.so, rest.so <= rest.eo, rest.eo <= N,
           \A i \in 1..last : new[i].eo <= rest.so
    PROVE  IInv'
<1>1. /\ new \in Seq(StyleRange) /\ Len(new) \in Nat /\ Ordered(new)
      /\ \A i \in 1..Len(new) : new[i].eo <= N
  BY DEF Block, Below
<1>2. /\ styles' = new /\ node' = last + 1 /\ s1' = rest
      /\ old_so' = old_so /\ pc' = "loop"
  BY DEF Continue, AtNode
<1>3. last \in Nat /\ (last + 1) - 1 = last /\ last + 1 \in 1..(Len(new) + 1)
  BY <1>1
<1>4. TypeOK'
  BY <1>1, <1>2, <1>3 DEF TypeOK, IInv
<1>5. SortedDisjoint'
  BY <1>1, <1>2 DEF SortedDisjoint, Ordered, Precedes, SameRange
<1>6. NothingLeftBehind'
  <2>1. /\ s1' \in StyleRange
        /\ old_so' <= s1'.so /\ s1'.so <= s1'.eo /\ s1'.eo <= N
        /\ node' \in 1..(Len(styles') + 1)
    BY <1>2, <1>3
  <2>2. \A i \in 1..(node' - 1) : styles'[i].eo <= s1'.so
    BY <1>2, <1>3
  <2> QED
    BY <2>1, <2>2 DEF NothingLeftBehind, StyleRange
<1> QED
  BY <1>4, <1>5, <1>6 DEF IInv

(* A range of the same style between other positions.                        *)
LEMMA NewRange ==
    ASSUME NEW r \in StyleRange, NEW so \in Nat, NEW eo \in Nat
    PROVE  /\ new_style_range(r.style, so, eo) \in StyleRange
           /\ new_style_range(r.style, so, eo).so = so
           /\ new_style_range(r.style, so, eo).eo = eo
  BY DEF new_style_range, StyleRange

LEMMA MoveStart ==
    ASSUME NEW r \in StyleRange, NEW so \in Nat
    PROVE  /\ [r EXCEPT !.so = so] \in StyleRange
           /\ [r EXCEPT !.so = so].so = so
           /\ [r EXCEPT !.so = so].eo = r.eo
  BY DEF StyleRange

LEMMA SingleUniform ==
    ASSUME NEW r \in StyleRange
    PROVE  /\ <<r>> \in Seq(StyleRange) /\ Len(<<r>>) = 1 /\ Uniform(<<r>>, r.so, r.eo)
           /\ <<>> \in Seq(StyleRange)
           /\ \A x, y : Uniform(<<>>, x, y)
  BY DEF Uniform

-----------------------------------------------------------------------------
THEOREM InitInv == Init => IInv
  BY NAssumption DEF Init, IInv, TypeOK, SortedDisjoint, Ordered, NothingLeftBehind

LEMMA CallInv ==
    ASSUME IInv, NEW st \in Styles, NEW so \in Positions, NEW eo \in Positions,
           so <= eo, Call(st, so, eo)
    PROVE  IInv'
<1>1. so \in Nat /\ eo \in Nat /\ eo <= N
  BY NAssumption DEF Positions
<1>2. styles \in Seq(StyleRange) /\ Len(styles) \in Nat
  BY DEF IInv, TypeOK
<1>3. /\ styles' = styles /\ pc' = "loop" /\ node' = 1 /\ old_so' = so
      /\ s1' = [style |-> st, so |-> so, eo |-> eo]
  BY DEF Call, new_style_range
<1>4. s1' \in StyleRange /\ s1'.so = so /\ s1'.eo = eo
  BY <1>1, <1>3 DEF StyleRange
<1>5. TypeOK'
  BY <1>1, <1>2, <1>3, <1>4 DEF TypeOK
<1>6. SortedDisjoint'
  BY <1>3 DEF IInv, SortedDisjoint, Ordered, Precedes, SameRange
<1>7. NothingLeftBehind'
  <2>1. node' \in 1..(Len(styles') + 1)
    BY <1>2, <1>3
  <2>2. \A i \in 1..(node' - 1) : styles'[i].eo <= s1'.so
    BY <1>3
  <2> QED
    BY <2>1, <2>2, <1>1, <1>3, <1>4 DEF NothingLeftBehind, StyleRange
<1> QED
  BY <1>5, <1>6, <1>7 DEF IInv

(* The cases that end the call: what they leave is a block.                  *)
LEMMA ReturningCases ==
    ASSUME IInv,
           \/ Case5 \/ Case6 \/ Before \/ Case1 \/ Case2a \/ Case2b \/ Case2c
           \/ Case3b \/ Case4a
    PROVE  IInv'
<1>1. AtNode
  BY DEF Case5, Case6, Before, Case1, Case2a, Case2b, Case2c, Case3b, Case4a, Overlap
<1>2. /\ Block(styles, 0, N)
      /\ node \in 1..Len(styles)
      /\ s1 \in StyleRange /\ s2 \in StyleRange
      /\ s1.so \in Nat /\ s1.eo \in Nat /\ s2.so \in Nat /\ s2.eo \in Nat
      /\ s2.so <= s2.eo /\ s2.eo <= N
      /\ s1.so <= s1.eo /\ s1.eo <= N
      /\ \A i \in 1..(node - 1) : styles[i].eo <= s1.so
      /\ \A i \in 1..(node - 1) : styles[i].eo \in Nat
  BY <1>1, AtNodeFacts
<1>3. s1.so < s2.eo => \A i \in 1..(node - 1) : styles[i].eo < styles[node].eo
  BY <1>2 DEF s2
<1>4. CASE Case5
  <2>1. PICK g \in GroupEnds(styles, node) : Return(insort_style1(styles, g, s1))
    BY <1>4 DEF Case5, g2
  <2>2. s1.eo = styles[node].eo /\ s1.so = styles[node].eo
    BY <1>4 DEF Case5, Empty, s2
  <2>3. Block(insort_style1(styles, g, s1), 0, N)
    BY <1>2, <2>2, InsortStyle1
  <2> QED
    BY <2>1, <2>3, ReturnInv
<1>5. CASE Case6 \/ Case2a
  <2>1. PICK g \in GroupEnds(styles, node) :
            Return(insort_style2(styles, node, g, s1.eo, <<s1>>, <<>>))
    BY <1>5 DEF Case6, Case2a, g2
  <2>2. /\ s1.so < s2.eo /\ s2.so <= s1.eo /\ s1.eo <= s2.eo
        /\ s1.so = s2.so \/ s1.so = s1.eo
    BY <1>2, <1>5 DEF Case6, Case2a, Overlap, Empty
  <2>3. <<s1>> \in Seq(StyleRange) /\ Uniform(<<s1>>, s1.so, s1.eo)
    BY <1>2, SingleUniform
  <2>4. <<>> \in Seq(StyleRange) /\ Uniform(<<>>, s1.eo, styles[node].eo)
    BY <1>2, SingleUniform
  <2>5. Uniform(<<s1>>, styles[node].so, s1.eo) \/ Uniform(<<s1>>, s1.eo, s1.eo)
    BY <2>2, <2>3 DEF s2
  <2>6. Block(insort_style2(styles, node, g, s1.eo, <<s1>>, <<>>), 0, N)
    BY <1>2, <1>3, <2>2, <2>3, <2>4, <2>5, InsortStyle2 DEF s2
  <2> QED
    BY <2>1, <2>6, ReturnInv
<1>6. CASE Before
  <2>1. Return(InsertAt(styles, node, s1)) /\ s1.eo <= s2.so
    BY <1>6 DEF Before, lnode_add_before
  <2>2. node \in 1..(Len(styles) + 1) /\ styles \in Seq(StyleRange) /\ Len(styles) \in Nat
    BY <1>2 DEF Block
  <2>3. \A i \in 1..(node - 1) : Precedes(styles[i], s1)
    BY <1>2 DEF Precedes
  <2>4. \A i \in node..Len(styles) : Precedes(s1, styles[i])
    <3> SUFFICES ASSUME NEW i \in node..Len(styles)
                 PROVE  Precedes(s1, styles[i])
      OBVIOUS
    <3>1. i \in 1..Len(styles) /\ (i = node \/ node < i)
      BY <1>2, <2>2
    <3>2. styles[i].so \in Nat
      BY <3>1, <2>2, ElementEnds
    <3>3. i = node \/ Precedes(s2, styles[i])
      BY <3>1, <1>2 DEF Block, Ordered, s2
    <3> QED
      BY <3>2, <3>3, <1>2, <2>1 DEF Precedes, SameRange, s2
  <2>5. Block(InsertAt(styles, node, s1), 0, N)
    BY <1>2, <2>2, <2>3, <2>4, InsertBlock
  <2> QED
    BY <2>1, <2>5, ReturnInv
<1>7. CASE Case1
  <2>1. PICK g \in GroupEnds(styles, node) : Return(insort_style1(styles, g, s1))
    BY <1>7 DEF Case1, g2
  <2>2. s1.eo = styles[node].eo /\ s1.so = styles[node].so
    BY <1>7 DEF Case1, SameRange, s2
  <2>3. Block(insort_style1(styles, g, s1), 0, N)
    BY <1>2, <2>2, InsortStyle1
  <2> QED
    BY <2>1, <2>3, ReturnInv
<1>8. CASE Case2b
  <2>1. PICK g \in GroupEnds(styles, node) :
            Return(insort_style2(styles, node, g, s1.so, <<>>, <<s1>>))
    BY <1>8 DEF Case2b, g2
  <2>2. s1.so < s2.eo /\ s2.so <= s1.so /\ s1.so <= s2.eo /\ s1.eo = s2.eo
    BY <1>2, <1>8 DEF Case2b, Overlap, Empty
  <2>3. <<s1>> \in Seq(StyleRange) /\ Uniform(<<s1>>, s1.so, styles[node].eo)
    BY <1>2, <2>2, SingleUniform DEF s2
  <2>4. <<>> \in Seq(StyleRange) /\ Uniform(<<>>, s1.so, s1.so)
    BY <1>2, SingleUniform
  <2>5. Block(insort_style2(styles, node, g, s1.so, <<>>, <<s1>>), 0, N)
    BY <1>2, <1>3, <2>2, <2>3, <2>4, InsortStyle2 DEF s2
  <2> QED
    BY <2>1, <2>5, ReturnInv
<1>9. CASE Case2c
  <2>1. PICK g \in GroupEnds(styles, node) : Return(insort_style3(styles, node, g, s1))
    BY <1>9 DEF Case2c, g2
  <2>2. s1.so < s2.eo /\ s2.so <= s1.so /\ s1.eo <= s2.eo
    BY <1>2, <1>9 DEF Case2c, Overlap, Empty
  <2>3. Block(insort_style3(styles, node, g, s1), 0, N)
    BY <1>2, <1>3, <2>2, InsortStyle3 DEF s2
  <2> QED
    BY <2>1, <2>3, ReturnInv
<1>10. CASE Case3b \/ Case4a
  <2> DEFINE front == new_style_range(s1.style, s1.so, s2.so)
             rest  == [s1 EXCEPT !.so = s2.so]
  <2>1. s1.so < s2.so /\ s2.so < s1.eo /\ s1.eo <= s2.eo
    BY <1>2, <1>10 DEF Case3b, Case4a, Overlap
  <2>2. front \in StyleRange /\ front.so = s1.so /\ front.eo = s2.so
    BY <1>2 DEF new_style_range, StyleRange
  <2>3. rest \in StyleRange /\ rest.so = s2.so /\ rest.eo = s1.eo
    BY <1>2, MoveStart
  <2> HIDE DEF front
  <2>4. \A g \in GroupEnds(styles, node) :
            /\ Block(Fronted, 0, N)
            /\ node + 1 \in 1..Len(Fronted)
            /\ Fronted[node + 1] = s2
            /\ g + 1 \in GroupEnds(Fronted, node + 1)
            /\ \A i \in 1..node : Fronted[i].eo <= s2.so
    BY <1>2, <2>1, <2>2, AddBefore DEF Fronted, front, s2
  <2>5. CASE Case3b
    <3>1. PICK g \in GroupEnds(styles, node) : Return(insort_style1(Fronted, g + 1, rest))
      BY <2>5 DEF Case3b, g2
    <3> HIDE DEF rest
    <3>2. rest.eo = s2.eo
      BY <2>3, <2>5 DEF Case3b
    <3>3. Block(insort_style1(Fronted, g + 1, rest), 0, N)
      BY <2>3, <2>4, <3>2, InsortStyle1
    <3> QED
      BY <3>1, <3>3, ReturnInv
  <2>6. CASE Case4a
    <3>1. PICK g \in GroupEnds(styles, node) :
              Return(insort_style2(Fronted, node + 1, g + 1, s1.eo, <<rest>>, <<>>))
      BY <2>6 DEF Case4a, g2
    <3> HIDE DEF rest
    <3> DEFINE f == Fronted
               n == node + 1
               e == s1.eo
               a == <<rest>>
    <3>2. /\ Block(f, 0, N) /\ n \in 1..Len(f) /\ f[n] = s2
          /\ g + 1 \in GroupEnds(f, n) /\ \A i \in 1..node : f[i].eo <= s2.so
      BY <2>4
    <3>3. a \in Seq(StyleRange) /\ Uniform(a, s2.so, s1.eo)
      BY <2>3, SingleUniform
    <3>4. <<>> \in Seq(StyleRange) /\ Uniform(<<>>, s1.eo, s2.eo)
      BY <1>2, SingleUniform
    <3>5. \A i \in 1..(n - 1) : f[i].eo < f[n].eo
      <4>1. \A i \in 1..node : f[i].eo \in Nat
        <5>1. f \in Seq(StyleRange) /\ \A i \in 1..node : i \in 1..Len(f)
          BY <1>2, <3>2 DEF Block
        <5> QED
          BY <5>1, ElementEnds
      <4>2. n - 1 = node /\ s2.so < s2.eo
        BY <1>2, <2>1
      <4> QED
        BY <4>1, <4>2, <1>2, <3>2
    <3>6. e \in Nat /\ f[n].so <= e /\ e <= f[n].eo
      BY <1>2, <2>1, <3>2
    <3>7. Uniform(a, f[n].so, e) /\ Uniform(<<>>, e, f[n].eo)
      BY <3>2, <3>3, <3>4
    <3> HIDE DEF f, n, e, a
    <3>8. Block(insort_style2(f, n, g + 1, e, a, <<>>), 0, N)
      BY <3>2, <3>3, <3>4, <3>5, <3>6, <3>7, InsortStyle2
    <3> QED
      BY <3>1, <3>8, ReturnInv DEF f, n, e, a
  <2> QED
    BY <2>5, <2>6, <1>10
<1> QED
  BY <1>4, <1>5, <1>6, <1>7, <1>8, <1>9, <1>10

(* The cases after which the loop goes on: the nodes left behind end where   *)
(* the rest of s1 starts.                                                    *)
LEMMA ContinuingCases ==
    ASSUME IInv, Case7 \/ Case3a \/ Case3c \/ Case4b \/ Past
    PROVE  IInv'
<1>1. AtNode
  BY DEF Case7, Case3a, Case3c, Case4b, Past, Overlap
<1>2. /\ Block(styles, 0, N)
      /\ node \in 1..Len(styles)
      /\ s1 \in StyleRange /\ s2 \in StyleRange
      /\ s1.so \in Nat /\ s1.eo \in Nat /\ s2.so \in Nat /\ s2.eo \in Nat
      /\ s2.so <= s2.eo /\ s2.eo <= N
      /\ old_so \in Nat /\ old_so <= s1.so /\ s1.so <= s1.eo /\ s1.eo <= N
      /\ \A i \in 1..(node - 1) : styles[i].eo <= s1.so
      /\ \A i \in 1..(node - 1) : styles[i].eo \in Nat
  BY <1>1, AtNodeFacts
<1>3. styles \in Seq(StyleRange) /\ Len(styles) \in Nat /\ node \in 0..Len(styles)
  BY <1>2 DEF Block
<1>4. s2.eo <= s1.so => \A i \in 1..node : styles[i].eo <= s1.so
  <2> SUFFICES ASSUME s2.eo <= s1.so, NEW i \in 1..node
               PROVE  styles[i].eo <= s1.so
    OBVIOUS
  <2>1. i = node \/ i \in 1..(node - 1)
    BY <1>2
  <2> QED
    BY <2>1, <1>2 DEF s2
<1>5. s2.eo <= s1.so /\ Continue(styles, node, s1) => IInv'
  BY <1>1, <1>2, <1>3, <1>4, ContinueInv
<1> DEFINE copy == new_style_range(s1.style, s2.so, s2.eo)
           rest == [s1 EXCEPT !.so = s2.eo]
<1>6. copy \in StyleRange /\ copy.so = s2.so /\ copy.eo = s2.eo
  BY <1>2 DEF new_style_range, StyleRange
<1>7. rest \in StyleRange /\ rest.so = s2.eo /\ rest.eo = s1.eo
  BY <1>2, MoveStart
<1>8. CASE Case7
  <2>1. s2.eo = s1.so /\ s2.so = s1.so
    BY <1>8 DEF Case7, Empty
  <2>2. CASE s1.so > old_so
    <3>1. PICK g \in GroupEnds(styles, node) :
              Continue(insort_style1(styles, g, copy), g + 1, s1)
      BY <1>8, <2>2 DEF Case7, g2
    <3> HIDE DEF copy
    <3> DEFINE new == insort_style1(styles, g, copy)
    <3>2. /\ Block(new, 0, N)
          /\ g + 1 \in 1..Len(new)
          /\ \A i \in 1..(g + 1) : new[i].eo <= s2.eo
      BY <1>2, <1>6, InsortStyle1 DEF s2
    <3> HIDE DEF new
    <3>3. g + 1 \in 0..Len(new)
      BY <3>2 DEF Block
    <3> QED
      BY <3>1, <3>2, <3>3, <2>1, <1>1, <1>2, ContinueInv DEF new
  <2>3. CASE ~(s1.so > old_so)
    <3>1. Continue(styles, node, s1)
      BY <1>8, <2>3 DEF Case7
    <3> QED
      BY <3>1, <2>1, <1>2, <1>5
  <2> QED
    BY <2>2, <2>3
<1>9. CASE Case3a
  <2>1. PICK g \in GroupEnds(styles, node) :
            Continue(insort_style1(styles, g, copy), g + 1, rest)
    BY <1>9 DEF Case3a, g2
  <2> HIDE DEF copy, rest
  <2> DEFINE new == insort_style1(styles, g, copy)
  <2>2. /\ Block(new, 0, N)
        /\ g + 1 \in 1..Len(new)
        /\ \A i \in 1..(g + 1) : new[i].eo <= rest.so
    BY <1>2, <1>6, <1>7, InsortStyle1 DEF s2
  <2> HIDE DEF new
  <2>3. g + 1 \in 0..Len(new)
    BY <2>2 DEF Block
  <2>4. old_so <= rest.so /\ rest.so <= rest.eo /\ rest.eo <= N
    BY <1>2, <1>7, <1>9 DEF Case3a
  <2> QED
    BY <2>1, <2>2, <2>3, <2>4, <1>1, <1>7, ContinueInv DEF new
<1>10. CASE Case3c
  <2>1. PICK g \in GroupEnds(styles, node) :
            Continue(insort_style1(Fronted, g + 1, copy), g + 2, rest)
    BY <1>10 DEF Case3c, g2
  <2> HIDE DEF copy, rest
  <2> DEFINE front == new_style_range(s1.style, s1.so, s2.so)
             new   == insort_style1(Fronted, g + 1, copy)
  <2>2. front \in StyleRange /\ front.so = s1.so /\ front.eo = s2.so
    BY <1>2 DEF new_style_range, StyleRange
  <2>3. s1.so < s2.so /\ s2.eo < s1.eo
    BY <1>2, <1>10 DEF Case3c
  <2> HIDE DEF front
  <2>4. /\ Block(Fronted, 0, N)
        /\ node + 1 \in 1..Len(Fronted)
        /\ Fronted[node + 1] = s2
        /\ g + 1 \in GroupEnds(Fronted, node + 1)
    BY <1>2, <2>2, <2>3, AddBefore DEF Fronted, front, s2
  <2>5. /\ Block(new, 0, N)
        /\ (g + 1) + 1 \in 1..Len(new)
        /\ \A i \in 1..((g + 1) + 1) : new[i].eo <= rest.so
    BY <1>6, <1>7, <2>4, InsortStyle1
  <2> HIDE DEF new
  <2>6. g \in Nat
    BY <1>2, <1>3 DEF GroupEnds
  <2>7. /\ g + 2 \in 0..Len(new)
        /\ \A i \in 1..(g + 2) : new[i].eo <= rest.so
    <3>1. (g + 1) + 1 = g + 2 /\ Len(new) \in Nat
      BY <2>5, <2>6 DEF Block
    <3> QED
      BY <3>1, <2>5, <2>6
  <2>8. old_so <= rest.so /\ rest.so <= rest.eo /\ rest.eo <= N
    BY <1>2, <1>7, <2>3
  <2> QED
    BY <2>1, <2>5, <2>7, <2>8, <1>1, <1>7, ContinueInv DEF new
<1>11. CASE Case4b
  <2> DEFINE b == new_style_range(s1.style, s1.so, s2.eo)
             e == s1.so
  <2>1. PICK g \in GroupEnds(styles, node) :
            Continue(insort_style2(styles, node, g, s1.so, <<>>, <<b>>),
                     g + (g - node) + 2, rest)
    BY <1>11 DEF Case4b, g2
  <2>2. b \in StyleRange /\ b.so = s1.so /\ b.eo = s2.eo
    BY <1>2 DEF new_style_range, StyleRange
  <2>3. s2.so < s1.so /\ s1.so < s2.eo /\ s2.eo < s1.eo
    BY <1>11 DEF Case4b
  <2> HIDE DEF b, rest
  <2> DEFINE bs  == <<b>>
             new == insort_style2(styles, node, g, s1.so, <<>>, bs)
  <2>4. bs \in Seq(StyleRange) /\ Len(bs) = 1 /\ Uniform(bs, s1.so, styles[node].eo)
    BY <2>2, SingleUniform DEF s2
  <2>5. <<>> \in Seq(StyleRange) /\ Len(<<>>) = 0 /\ Uniform(<<>>, s1.so, s1.so)
    BY <2>2, SingleUniform
  <2>6. \A i \in 1..(node - 1) : styles[i].eo < styles[node].eo
    <3> SUFFICES ASSUME NEW i \in 1..(node - 1) PROVE styles[i].eo < s2.eo
      BY DEF s2
    <3>1. styles[i].eo \in Nat /\ styles[i].eo <= s1.so
      BY <1>2
    <3> QED
      BY <3>1, <1>2, <2>3
  <2>7. /\ s1.so \in Nat /\ styles[node].so <= s1.so /\ s1.so <= styles[node].eo
        /\ styles[node].eo = rest.so
    BY <1>2, <1>7, <2>3 DEF s2
  <2> HIDE DEF bs
  <2> DEFINE last == g + (g - node) + 1 + Len(<<>>) + Len(bs)
  <2>8. /\ Block(new, 0, N)
        /\ last \in 1..Len(new)
        /\ \A i \in 1..last : new[i].eo <= rest.so
    BY <1>2, <2>4, <2>5, <2>6, <2>7, InsortStyle2
  <2> HIDE DEF new
  <2>9. last = g + (g - node) + 2 /\ last \in 0..Len(new)
    <3>1. g \in Nat /\ node \in Nat
      BY <1>2, <1>3 DEF GroupEnds
    <3>2. Len(new) \in Nat
      BY <2>8 DEF Block
    <3> QED
      BY <3>1, <3>2, <2>4, <2>5, <2>8
  <2>10. old_so <= rest.so /\ rest.so <= rest.eo /\ rest.eo <= N
    BY <1>2, <1>7, <2>3
  <2>11. Continue(new, last, rest)
    BY <2>1, <2>9 DEF new, bs
  <2> HIDE DEF last
  <2> QED
    BY <2>8, <2>9, <2>10, <2>11, <1>1, <1>7, ContinueInv
<1>12. CASE Past
  BY <1>5, <1>12 DEF Past
<1> QED
  BY <1>8, <1>9, <1>10, <1>11, <1>12

LEMMA AppendInv ==
    ASSUME IInv, AppendRest
    PROVE  IInv'
<1>1. /\ pc = "loop" /\ node > Len(styles) /\ Return(Append(styles, s1))
  BY DEF AppendRest
<1>2. styles \in Seq(StyleRange) /\ Len(styles) \in Nat
  BY DEF IInv, TypeOK
<1>3. /\ s1 \in StyleRange /\ s1.so <= s1.eo /\ s1.eo <= N
      /\ node = Len(styles) + 1
      /\ \A i \in 1..Len(styles) : styles[i].eo <= s1.so
  BY <1>1, <1>2 DEF IInv, NothingLeftBehind
<1>4. s1.so \in Nat /\ s1.eo \in Nat
  BY <1>3, RangeEnds
<1>5. \A i \in 1..Len(styles) : /\ styles[i].so \in Nat /\ styles[i].eo \in Nat
                                /\ styles[i].eo <= N
  BY <1>2, ElementEnds DEF IInv, SortedDisjoint
<1>6. Block(styles, 0, s1.so)
  BY <1>2, <1>3, <1>5 DEF IInv, SortedDisjoint, Block, Above, Below
<1>7. Block(<<s1>>, s1.so, N)
  <2>1. Block(<<s1>>, s1.so, s1.eo)
    BY <1>3, <1>4, SingleUniform, UniformBlock
  <2> QED
    BY <2>1, <1>3, <1>4, NAssumption DEF Block, Below
<1>8. Block(styles \o <<s1>>, 0, N)
  BY <1>3, <1>4, <1>6, <1>7, ConcatBlocks, NAssumption
<1>9. Append(styles, s1) = styles \o <<s1>>
  BY <1>2, <1>3, AppendIsConcat
<1> QED
  BY <1>1, <1>8, <1>9, ReturnInv

LEMMA ClearInv ==
    ASSUME IInv, Clear
    PROVE  IInv'
<1>1. /\ styles' = <<>> /\ pc' = "idle" /\ pc = "idle"
      /\ UNCHANGED <<s1, old_so, node>>
  BY DEF Clear, locals
<1> QED
  BY <1>1 DEF IInv, TypeOK, SortedDisjoint, Ordered, NothingLeftBehind

THEOREM NextInv == IInv /\ [Next]_vars => IInv'
<1> SUFFICES ASSUME IInv, [Next]_vars
             PROVE  IInv'
  OBVIOUS
<1>1. ASSUME NEW st \in Styles, NEW so \in Positions, NEW eo \in Positions,
             so <= eo, Call(st, so, eo)
      PROVE  IInv'
  BY <1>1, CallInv
<1>2. CASE \/ Case5 \/ Case6 \/ Before \/ Case1 \/ Case2a \/ Case2b \/ Case2c
           \/ Case3b \/ Case4a
  BY <1>2, ReturningCases
<1>3. CASE Case7 \/ Case3a \/ Case3c \/ Case4b \/ Past
  BY <1>3, ContinuingCases
<1>4. CASE AppendRest
  BY <1>4, AppendInv
<1>5. CASE Clear
  BY <1>5, ClearInv
<1>6. CASE UNCHANGED vars
  BY <1>6 DEF vars, IInv, TypeOK, SortedDisjoint, Ordered, Precedes, SameRange,
              NothingLeftBehind
<1> QED
  BY <1>1, <1>2, <1>3, <1>4, <1>5, <1>6 DEF Next, Step

(* insert_style, called any number of times with any ranges of the text,     *)
(* keeps its list a list of ranges, its loop within the list, and leaves no  *)
(* range behind that it still had to cut.                                    *)
THEOREM Inductive == Spec => []IInv
  BY InitInv, NextInv, PTL DEF Spec

(* The type invariant of insert_style's state, for every text and style set. *)
THEOREM TypeCorrect == Spec => []TypeOK
<1>1. IInv => TypeOK
  BY DEF IInv
<1> QED
  BY <1>1, Inductive, PTL

(* The list that apply_styles prints is always sorted, disjoint and within   *)
(* the text, for every text length, style set and sequence of calls.         *)
THEOREM ListStaysSorted == Spec => []SortedDisjoint
<1>1. IInv => SortedDisjoint
  BY DEF IInv
<1> QED
  BY <1>1, Inductive, PTL

(* The walk of insert_style never passes a range that it still has to cut.   *)
THEOREM WalkIsComplete == Spec => []NothingLeftBehind
<1>1. IInv => NothingLeftBehind
  BY DEF IInv
<1> QED
  BY <1>1, Inductive, PTL

-----------------------------------------------------------------------------
(* What a list shows: StylesAt and PointsAt of lists put together.            *)
Worn(list, c) ==
    [i \in 1..Len(list) |-> IF Covers(list[i], c) THEN <<list[i].style>> ELSE <<>>]

LEMMA WornType ==
    ASSUME NEW s \in Seq(StyleRange), NEW c
    PROVE  /\ Worn(s, c) \in Seq(Seq(Styles)) /\ Len(Worn(s, c)) = Len(s)
           /\ \A i \in 1..Len(s) :
                Worn(s, c)[i] = IF Covers(s[i], c) THEN <<s[i].style>> ELSE <<>>
<1>1. Len(s) \in Nat
  OBVIOUS
<1>2. ASSUME NEW i \in 1..Len(s)
      PROVE  (IF Covers(s[i], c) THEN <<s[i].style>> ELSE <<>>) \in Seq(Styles)
  <2>1. s[i] \in StyleRange
    OBVIOUS
  <2>2. s[i].style \in Styles
    BY <2>1 DEF StyleRange
  <2> QED
    BY <2>2
<1> QED
  BY <1>1, <1>2, IsASeq DEF Worn

LEMMA StylesAre ==
    ASSUME NEW s \in Seq(StyleRange), NEW c
    PROVE  StylesAt(s, c) = FlattenSeq(Worn(s, c)) /\ StylesAt(s, c) \in Seq(Styles)
<1>1. StylesAt(s, c) = FlattenSeq(Worn(s, c))
  BY DEF StylesAt, Worn
<1> QED
  BY <1>1, WornType, FlattenType

LEMMA StylesConcat ==
    ASSUME NEW s \in Seq(StyleRange), NEW t \in Seq(StyleRange), NEW c
    PROVE  StylesAt(s \o t, c) = StylesAt(s, c) \o StylesAt(t, c)
<1>1. PICK u : u = s \o t
  OBVIOUS
<1>2. /\ u \in Seq(StyleRange) /\ Len(u) = Len(s) + Len(t)
      /\ \A i \in 1..Len(s) : u[i] = s[i]
      /\ \A i \in 1..Len(t) : u[Len(s) + i] = t[i]
  BY <1>1
<1>3. Len(s) \in Nat /\ Len(t) \in Nat
  OBVIOUS
<1>4. PICK x, y, z : x = Worn(s, c) /\ y = Worn(t, c) /\ z = Worn(u, c)
  OBVIOUS
<1>5. /\ x \in Seq(Seq(Styles)) /\ Len(x) = Len(s)
      /\ \A i \in 1..Len(s) : x[i] = IF Covers(s[i], c) THEN <<s[i].style>> ELSE <<>>
  BY <1>4, WornType
<1>6. /\ y \in Seq(Seq(Styles)) /\ Len(y) = Len(t)
      /\ \A i \in 1..Len(t) : y[i] = IF Covers(t[i], c) THEN <<t[i].style>> ELSE <<>>
  BY <1>4, WornType
<1>7. /\ z \in Seq(Seq(Styles)) /\ Len(z) = Len(u)
      /\ \A i \in 1..Len(u) : z[i] = IF Covers(u[i], c) THEN <<u[i].style>> ELSE <<>>
  BY <1>2, <1>4, WornType
<1>8. z = x \o y
  <2>1. x \o y \in Seq(Seq(Styles)) /\ Len(x \o y) = Len(z)
    <3>1. x \o y \in Seq(Seq(Styles)) /\ Len(x \o y) = Len(x) + Len(y)
      BY <1>5, <1>6, ConcatProperties
    <3> QED
      BY <3>1, <1>2, <1>5, <1>6, <1>7
  <2>2. ASSUME NEW i \in 1..Len(z) PROVE z[i] = (x \o y)[i]
    <3>1. i \in 1..Len(u) /\ i \in Int
      BY <1>7
    <3>2. CASE i <= Len(s)
      <4>1. i \in 1..Len(s) /\ u[i] = s[i]
        BY <3>2, <3>1, <1>2, <1>3
      <4>2. (x \o y)[i] = x[i]
        BY <4>1, <1>5, <1>6
      <4>3. z[i] = x[i]
        BY <3>1, <4>1, <1>5, <1>7
      <4> QED
        BY <4>2, <4>3
    <3>3. CASE i > Len(s)
      <4>1. PICK j \in 1..Len(t) : i = Len(s) + j
        <5>1. i - Len(s) \in 1..Len(t) /\ i = Len(s) + (i - Len(s))
          BY <3>1, <3>3, <1>2, <1>3
        <5> QED
          BY <5>1
      <4>2. u[i] = t[j]
        BY <4>1, <1>2
      <4>3. z[i] = y[j]
        BY <3>1, <4>1, <4>2, <1>6, <1>7
      <4>4. (x \o y)[i] = y[j]
        BY <4>1, <1>3, <1>5, <1>6
      <4> QED
        BY <4>3, <4>4
    <3>4. i <= Len(s) \/ i > Len(s)
      BY <3>1, <1>3
    <3> QED
      BY <3>2, <3>3, <3>4
  <2>3. PICK v : v = x \o y
    OBVIOUS
  <2> QED
    BY <2>1, <2>2, <2>3, <1>7, SeqEqual
<1>9. FlattenSeq(x \o y) = FlattenSeq(x) \o FlattenSeq(y)
  BY <1>5, <1>6, FlattenConcat
<1> QED
  BY <1>1, <1>2, <1>4, <1>8, <1>9, StylesAre

LEMMA StylesNone ==
    ASSUME NEW s \in Seq(StyleRange), NEW c, \A i \in 1..Len(s) : ~Covers(s[i], c)
    PROVE  StylesAt(s, c) = <<>>
<1>1. \A i \in 1..Len(Worn(s, c)) : Worn(s, c)[i] = <<>>
  BY WornType
<1> QED
  BY <1>1, WornType, StylesAre, FlattenNothing

(* Of a list whose ranges all cover a character it shows all styles.          *)
LEMMA StylesAll ==
    ASSUME NEW s \in Seq(StyleRange), NEW c, NEW names, Len(names) = Len(s),
           names \in Seq(Styles),
           \A i \in 1..Len(s) : Covers(s[i], c) /\ names[i] = s[i].style
    PROVE  StylesAt(s, c) = names
<1>1. Worn(s, c) = [i \in 1..Len(names) |-> <<names[i]>>]
  BY DEF Worn
<1>2. FlattenSeq(Worn(s, c)) = names
  BY <1>1, FlattenOnes
<1> QED
  BY <1>2, StylesAre

LEMMA StylesOne ==
    ASSUME NEW r \in StyleRange, NEW c
    PROVE  /\ <<r>> \in Seq(StyleRange)
           /\ StylesAt(<<r>>, c) = IF Covers(r, c) THEN <<r.style>> ELSE <<>>
<1>1. PICK s : s = <<r>>
  OBVIOUS
<1>2. s \in Seq(StyleRange) /\ Len(s) = 1 /\ s[1] = r
  BY <1>1
<1>3. r.style \in Styles
  BY DEF StyleRange
<1>4. CASE Covers(r, c)
  <2>1. PICK names : names = <<r.style>>
    OBVIOUS
  <2>2. names \in Seq(Styles) /\ Len(names) = 1 /\ names[1] = r.style
    BY <2>1, <1>3
  <2>3. StylesAt(s, c) = names
    BY <2>2, <1>2, <1>4, StylesAll
  <2> QED
    BY <2>1, <2>3, <1>1, <1>2, <1>4
<1>5. CASE ~Covers(r, c)
  <2>1. StylesAt(s, c) = <<>>
    BY <1>2, <1>5, StylesNone
  <2> QED
    BY <2>1, <1>1, <1>2, <1>5
<1> QED
  BY <1>4, <1>5

(* Where a style stands in a list that is put together.                       *)
Standing(list, p, st) ==
    {i \in 1..Len(list) : list[i].so = p /\ list[i].eo = p /\ list[i].style = st}

LEMMA PointsAre ==
    ASSUME NEW s \in Seq(StyleRange), NEW p, NEW st
    PROVE  /\ IsFiniteSet(Standing(s, p, st))
           /\ PointsAt(s, p, st) = Cardinality(Standing(s, p, st))
           /\ PointsAt(s, p, st) \in Nat
<1>1. Len(s) \in Nat
  OBVIOUS
<1>2. IsFiniteSet(1..Len(s))
  BY <1>1, FS_Interval
<1>3. IsFiniteSet(Standing(s, p, st))
  <2>1. Standing(s, p, st) \subseteq 1..Len(s)
    BY DEF Standing
  <2> QED
    BY <1>2, <2>1, FS_Subset
<1>4. PointsAt(s, p, st) = Cardinality(Standing(s, p, st))
  BY DEF PointsAt, Standing
<1> QED
  BY <1>3, <1>4, FS_CardinalityType

LEMMA PointsConcat ==
    ASSUME NEW s \in Seq(StyleRange), NEW t \in Seq(StyleRange), NEW p, NEW st
    PROVE  PointsAt(s \o t, p, st) = PointsAt(s, p, st) + PointsAt(t, p, st)
<1>1. PICK u : u = s \o t
  OBVIOUS
<1>2. /\ u \in Seq(StyleRange) /\ Len(u) = Len(s) + Len(t)
      /\ \A i \in 1..Len(s) : u[i] = s[i]
      /\ \A i \in 1..Len(t) : u[Len(s) + i] = t[i]
  BY <1>1
<1>3. Len(s) \in Nat /\ Len(t) \in Nat
  OBVIOUS
<1>4. PICK A, B, C : A = Standing(s, p, st) /\ B = Standing(t, p, st) /\ C = Standing(u, p, st)
  OBVIOUS
<1> DEFINE D == {Len(s) + i : i \in B}
           f == [i \in B |-> Len(s) + i]
<1>5. /\ A \in SUBSET (1..Len(s))
      /\ \A i \in 1..Len(s) : i \in A <=> (s[i].so = p /\ s[i].eo = p /\ s[i].style = st)
  BY <1>4 DEF Standing
<1>6. /\ B \in SUBSET (1..Len(t))
      /\ \A i \in 1..Len(t) : i \in B <=> (t[i].so = p /\ t[i].eo = p /\ t[i].style = st)
  BY <1>4 DEF Standing
<1>7. /\ C \in SUBSET (1..Len(u))
      /\ \A i \in 1..Len(u) : i \in C <=> (u[i].so = p /\ u[i].eo = p /\ u[i].style = st)
  BY <1>4 DEF Standing
<1>8. C = A \cup D
  <2>1. ASSUME NEW i \in C PROVE i \in A \cup D
    <3>1. i \in 1..Len(u) /\ i \in Int /\ u[i].so = p /\ u[i].eo = p /\ u[i].style = st
      BY <1>7
    <3>2. CASE i <= Len(s)
      <4>1. i \in 1..Len(s)
        BY <3>1, <3>2, <1>3
      <4> QED
        BY <3>1, <4>1, <1>2, <1>5
    <3>3. CASE i > Len(s)
      <4>1. PICK j \in 1..Len(t) : i = Len(s) + j
        <5>1. i - Len(s) \in 1..Len(t) /\ i = Len(s) + (i - Len(s))
          BY <3>1, <3>3, <1>2, <1>3
        <5> QED
          BY <5>1
      <4>2. j \in B
        BY <3>1, <4>1, <1>2, <1>6
      <4> QED
        BY <4>1, <4>2
    <3> QED
      BY <3>1, <3>2, <3>3, <1>3
  <2>2. ASSUME NEW i \in A PROVE i \in C
    <3>1. i \in 1..Len(s) /\ i \in 1..Len(u)
      BY <1>2, <1>3, <1>5
    <3> QED
      BY <3>1, <1>2, <1>5, <1>7
  <2>3. ASSUME NEW j \in B PROVE Len(s) + j \in C
    <3>1. j \in 1..Len(t) /\ Len(s) + j \in 1..Len(u)
      BY <1>2, <1>3, <1>6
    <3> QED
      BY <3>1, <1>2, <1>6, <1>7
  <2> QED
    BY <2>1, <2>2, <2>3
<1>9. A \cap D = {}
  BY <1>3, <1>5, <1>6
<1>10. IsFiniteSet(A) /\ IsFiniteSet(B) /\ Cardinality(A) \in Nat /\ Cardinality(B) \in Nat
  BY <1>4, PointsAre
<1>11. IsFiniteSet(D) /\ Cardinality(D) = Cardinality(B)
  <2>1. f \in Bijection(B, D)
    <3>1. \A i, j \in B : f[i] = f[j] => i = j
      BY <1>3, <1>6
    <3>2. f \in [B -> D] /\ \A d \in D : \E i \in B : f[i] = d
      OBVIOUS
    <3> HIDE DEF f, D
    <3> QED
      BY <3>1, <3>2 DEF Bijection, Injection, Surjection, IsInjective
  <2> HIDE DEF f, D
  <2>2. ExistsBijection(B, D)
    BY <2>1 DEF ExistsBijection
  <2> QED
    BY <2>2, <1>10, FS_Bijection
<1> HIDE DEF D
<1>12. Cardinality(A \cup D) = Cardinality(A) + Cardinality(D)
  <2>1. Cardinality(A \cup D) = Cardinality(A) + Cardinality(D) - Cardinality(A \cap D)
    BY <1>10, <1>11, FS_Union
  <2>2. Cardinality(A \cap D) = 0
    BY <1>9, FS_EmptySet
  <2> QED
    BY <2>1, <2>2, <1>10, <1>11
<1>13. PointsAt(s, p, st) = Cardinality(A) /\ PointsAt(t, p, st) = Cardinality(B)
  BY <1>4, PointsAre
<1>14. PointsAt(u, p, st) = Cardinality(C)
  BY <1>2, <1>4, PointsAre
<1> QED
  BY <1>1, <1>8, <1>11, <1>12, <1>13, <1>14

LEMMA PointsNone ==
    ASSUME NEW s \in Seq(StyleRange), NEW p, NEW st,
           \A i \in 1..Len(s) : ~(s[i].so = p /\ s[i].eo = p /\ s[i].style = st)
    PROVE  PointsAt(s, p, st) = 0
<1>1. Standing(s, p, st) = {}
  BY DEF Standing
<1> QED
  BY <1>1, PointsAre, FS_EmptySet

LEMMA PointsOne ==
    ASSUME NEW r \in StyleRange, NEW p, NEW st
    PROVE  PointsAt(<<r>>, p, st) = IF r.so = p /\ r.eo = p /\ r.style = st THEN 1 ELSE 0
<1>1. PICK s : s = <<r>>
  OBVIOUS
<1>2. s \in Seq(StyleRange) /\ Len(s) = 1 /\ s[1] = r
  BY <1>1
<1>3. CASE r.so = p /\ r.eo = p /\ r.style = st
  <2>1. Standing(s, p, st) = {1}
    BY <1>2, <1>3 DEF Standing
  <2>2. Cardinality({1}) = 1
    BY FS_Singleton
  <2>3. PointsAt(s, p, st) = 1
    BY <1>2, <2>1, <2>2, PointsAre
  <2> QED
    BY <2>3, <1>1, <1>3
<1>4. CASE ~(r.so = p /\ r.eo = p /\ r.style = st)
  <2>1. PointsAt(s, p, st) = 0
    BY <1>2, <1>4, PointsNone
  <2> QED
    BY <2>1, <1>1, <1>4
<1> QED
  BY <1>3, <1>4

(* A style stands at a position when there is one of its ranges.              *)
LEMMA PointsSome ==
    ASSUME NEW s \in Seq(StyleRange), NEW p, NEW st
    PROVE  PointsAt(s, p, st) > 0 <=>
             \E i \in 1..Len(s) : s[i].so = p /\ s[i].eo = p /\ s[i].style = st
<1>1. PointsAt(s, p, st) = 0 <=> Standing(s, p, st) = {}
  BY PointsAre, FS_EmptySet
<1>2. PointsAt(s, p, st) > 0 <=> PointsAt(s, p, st) # 0
  BY PointsAre
<1> QED
  BY <1>1, <1>2 DEF Standing

-----------------------------------------------------------------------------
(* A list that is two lists, one behind the other.                            *)
Joins(u, s, t) ==
    s \in Seq(StyleRange) /\ t \in Seq(StyleRange) /\ u \in Seq(StyleRange) /\ u = s \o t

IsPut(z, x, y) == z = x \o y

LEMMA JoinStyles ==
    ASSUME NEW u, NEW s, NEW t, Joins(u, s, t), NEW c
    PROVE  IsPut(StylesAt(u, c), StylesAt(s, c), StylesAt(t, c))
<1>1. s \in Seq(StyleRange) /\ t \in Seq(StyleRange) /\ u = s \o t
  BY DEF Joins
<1>2. StylesAt(s \o t, c) = StylesAt(s, c) \o StylesAt(t, c)
  BY <1>1, StylesConcat
<1> QED
  BY <1>1, <1>2 DEF IsPut

LEMMA JoinPoints ==
    ASSUME NEW u, NEW s, NEW t, Joins(u, s, t), NEW p, NEW st
    PROVE  PointsAt(u, p, st) = PointsAt(s, p, st) + PointsAt(t, p, st)
<1>1. s \in Seq(StyleRange) /\ t \in Seq(StyleRange) /\ u = s \o t
  BY DEF Joins
<1>2. PointsAt(s \o t, p, st) = PointsAt(s, p, st) + PointsAt(t, p, st)
  BY <1>1, PointsConcat
<1> QED
  BY <1>1, <1>2

(* A list that shows what another one does, and the range r on top of it.     *)
Lays(new, list, r) ==
    \A c \in Nat :
        /\ StylesAt(new, c) = StylesAt(list, c) \o StylesAt(<<r>>, c)
        /\ \A st : PointsAt(new, c, st) = PointsAt(list, c, st) + PointsAt(<<r>>, c, st)

(* A list is what is before a place and what is behind it.                    *)
Splits(list, k, pre, post) ==
    /\ Joins(list, pre, post)
    /\ Len(pre) = k /\ Len(post) = Len(list) - k
    /\ \A i \in 1..k : pre[i] = list[i]
    /\ \A i \in 1..(Len(list) - k) : post[i] = list[k + i]

LEMMA Cut ==
    ASSUME NEW list \in Seq(StyleRange), NEW k \in 0..Len(list), NEW pre, NEW post,
           pre = SubSeq(list, 1, k), post = SubSeq(list, k + 1, Len(list))
    PROVE  Splits(list, k, pre, post)
<1>0. Len(list) \in Nat
  OBVIOUS
<1>1. SubSeq(list, 1, Len(list)) = list
  OBVIOUS
<1>2. 1 \in 1..(Len(list) + 1) /\ k \in 0..Len(list) /\ Len(list) \in k..Len(list)
  BY <1>0
<1>3. SubSeq(list, 1, k) \o SubSeq(list, k + 1, Len(list)) = SubSeq(list, 1, Len(list))
  <2>1. k \in (1 - 1)..Len(list)
    BY <1>0
  <2> QED
    BY <1>2, <2>1, ConcatAdjacentSubSeq
<1>4. /\ SubSeq(list, 1, k) \in Seq(StyleRange) /\ Len(SubSeq(list, 1, k)) = k
      /\ \A i \in 1..k : SubSeq(list, 1, k)[i] = list[i]
  BY <1>0
<1>5. /\ SubSeq(list, k + 1, Len(list)) \in Seq(StyleRange)
      /\ Len(SubSeq(list, k + 1, Len(list))) = Len(list) - k
      /\ \A i \in 1..(Len(list) - k) : SubSeq(list, k + 1, Len(list))[i] = list[k + i]
  BY <1>0
<1> QED
  BY <1>1, <1>3, <1>4, <1>5 DEF Joins, Splits

(* A range that is put in where nothing behind begins before it ends is laid  *)
(* on top.                                                                    *)
LEMMA InsertLays ==
    ASSUME NEW list \in Seq(StyleRange), NEW n \in 1..(Len(list) + 1), NEW r \in StyleRange,
           \A i \in n..Len(list) : r.eo <= list[i].so
    PROVE  Lays(InsertAt(list, n, r), list, r)
<1>0. Len(list) \in Nat /\ n \in Nat
  OBVIOUS
<1>1. PICK k \in 0..Len(list) : k = n - 1 /\ k + 1 = n
  <2>1. n - 1 \in 0..Len(list) /\ (n - 1) + 1 = n
    BY <1>0
  <2> QED
    BY <2>1
<1>2. PICK pre, post : pre = SubSeq(list, 1, k) /\ post = SubSeq(list, k + 1, Len(list))
  OBVIOUS
<1>3. /\ Joins(list, pre, post) /\ Len(post) = Len(list) - k
      /\ \A i \in 1..(Len(list) - k) : post[i] = list[k + i]
  <2>1. Splits(list, k, pre, post)
    BY <1>2, Cut
  <2> QED
    BY <2>1 DEF Splits
<1>4. PICK one, head, new : one = <<r>> /\ head = pre \o one /\ new = head \o post
  OBVIOUS
<1>5. one \in Seq(StyleRange) /\ Joins(head, pre, one) /\ Joins(new, head, post)
  BY <1>3, <1>4 DEF Joins
<1>6. InsertAt(list, n, r) = new
  BY <1>1, <1>2, <1>4 DEF InsertAt
<1> SUFFICES ASSUME NEW c \in Nat
             PROVE  /\ StylesAt(new, c) = StylesAt(list, c) \o StylesAt(one, c)
                    /\ \A st : PointsAt(new, c, st)
                                 = PointsAt(list, c, st) + PointsAt(one, c, st)
  BY <1>4, <1>6 DEF Lays
<1>7. PICK P, R, Q : P = StylesAt(pre, c) /\ R = StylesAt(one, c) /\ Q = StylesAt(post, c)
  OBVIOUS
<1>8. P \in Seq(Styles) /\ R \in Seq(Styles) /\ Q \in Seq(Styles)
  <2>1. pre \in Seq(StyleRange) /\ post \in Seq(StyleRange)
    BY <1>3 DEF Joins
  <2> QED
    BY <2>1, <1>5, <1>7, StylesAre
<1>9. StylesAt(list, c) = P \o Q
  <2>1. IsPut(StylesAt(list, c), P, Q)
    BY <1>3, <1>7, JoinStyles
  <2> QED
    BY <2>1 DEF IsPut
<1>10. StylesAt(new, c) = (P \o R) \o Q
  <2>1. IsPut(StylesAt(head, c), P, R) /\ IsPut(StylesAt(new, c), StylesAt(head, c), Q)
    BY <1>5, <1>7, JoinStyles
  <2> QED
    BY <2>1 DEF IsPut
<1>11. (P \o R) \o Q = (P \o Q) \o R
  <2>1. CASE Covers(r, c)
    <3>1. ASSUME NEW i \in 1..Len(post) PROVE ~Covers(post[i], c)
      <4>0. i \in 1..(Len(list) - k)
        BY <1>3
      <4>1. k + i \in n..Len(list) /\ post[i] = list[k + i] /\ k + i \in 1..Len(list)
        <5>1. post[i] = list[k + i]
          BY <1>3, <4>0
        <5> QED
          BY <5>1, <4>0, <1>0, <1>1
      <4>2. post[i] \in StyleRange
        BY <4>1
      <4>3. post[i].so \in Nat /\ r.eo \in Nat /\ r.eo <= post[i].so
        BY <4>1, <4>2, RangeEnds
      <4> QED
        BY <4>3, <2>1 DEF Covers
    <3>2. Q = <<>>
      BY <1>3, <1>7, <3>1, StylesNone DEF Joins
    <3> QED
      BY <1>8, <3>2, ConcatEmptySeq, ConcatProperties
  <2>2. CASE ~Covers(r, c)
    <3>1. R = <<>>
      BY <1>4, <1>7, <2>2, StylesOne
    <3> QED
      BY <1>8, <3>1, ConcatEmptySeq, ConcatProperties
  <2> QED
    BY <2>1, <2>2
<1>12. ASSUME NEW st
       PROVE  PointsAt(new, c, st) = PointsAt(list, c, st) + PointsAt(one, c, st)
  <2>1. /\ PointsAt(head, c, st) = PointsAt(pre, c, st) + PointsAt(one, c, st)
        /\ PointsAt(new, c, st) = PointsAt(head, c, st) + PointsAt(post, c, st)
        /\ PointsAt(list, c, st) = PointsAt(pre, c, st) + PointsAt(post, c, st)
    BY <1>3, <1>5, JoinPoints
  <2>2. /\ PointsAt(pre, c, st) \in Nat /\ PointsAt(one, c, st) \in Nat
        /\ PointsAt(post, c, st) \in Nat
    <3>1. pre \in Seq(StyleRange) /\ post \in Seq(StyleRange)
      BY <1>3 DEF Joins
    <3> QED
      BY <3>1, <1>5, PointsAre
  <2> QED
    BY <2>1, <2>2
<1> QED
  BY <1>7, <1>9, <1>10, <1>11, <1>12

(* A part of a list that is exchanged for one on which r is laid.             *)
LEMMA MiddleLays ==
    ASSUME NEW new, NEW list, NEW head, NEW front, NEW pre, NEW mid, NEW grp, NEW post,
           Joins(head, pre, mid), Joins(new, head, post),
           Joins(front, pre, grp), Joins(list, front, post),
           NEW r \in StyleRange, Lays(mid, grp, r),
           \A i \in 1..Len(post) : r.eo <= post[i].so
    PROVE  Lays(new, list, r)
<1>1. PICK one : one = <<r>>
  OBVIOUS
<1> SUFFICES ASSUME NEW c \in Nat
             PROVE  /\ StylesAt(new, c) = StylesAt(list, c) \o StylesAt(one, c)
                    /\ \A st : PointsAt(new, c, st)
                                 = PointsAt(list, c, st) + PointsAt(one, c, st)
  BY <1>1 DEF Lays
<1>2. /\ pre \in Seq(StyleRange) /\ grp \in Seq(StyleRange) /\ post \in Seq(StyleRange)
      /\ one \in Seq(StyleRange)
  BY <1>1 DEF Joins
<1>3. PICK P, G, R, Q : /\ P = StylesAt(pre, c) /\ G = StylesAt(grp, c)
                        /\ R = StylesAt(one, c) /\ Q = StylesAt(post, c)
  OBVIOUS
<1>4. P \in Seq(Styles) /\ G \in Seq(Styles) /\ R \in Seq(Styles) /\ Q \in Seq(Styles)
  BY <1>2, <1>3, StylesAre
<1>5. StylesAt(list, c) = (P \o G) \o Q
  <2>1. IsPut(StylesAt(front, c), P, G) /\ IsPut(StylesAt(list, c), StylesAt(front, c), Q)
    BY <1>3, JoinStyles
  <2> QED
    BY <2>1 DEF IsPut
<1>6. StylesAt(new, c) = (P \o (G \o R)) \o Q
  <2>1. /\ IsPut(StylesAt(head, c), P, StylesAt(mid, c))
        /\ IsPut(StylesAt(new, c), StylesAt(head, c), Q)
    BY <1>3, JoinStyles
  <2>2. StylesAt(mid, c) = G \o R
    BY <1>1, <1>3 DEF Lays
  <2> QED
    BY <2>1, <2>2 DEF IsPut
<1>7. R = <<>> \/ Q = <<>>
  <2>1. CASE Covers(r, c)
    <3>1. ASSUME NEW i \in 1..Len(post) PROVE ~Covers(post[i], c)
      <4>1. post[i] \in StyleRange
        BY <1>2
      <4>2. post[i].so \in Nat /\ r.eo \in Nat /\ r.eo <= post[i].so
        BY <4>1, RangeEnds
      <4> QED
        BY <4>2, <2>1 DEF Covers
    <3> QED
      BY <1>2, <1>3, <3>1, StylesNone
  <2>2. CASE ~Covers(r, c)
    BY <1>1, <1>3, <2>2, StylesOne
  <2> QED
    BY <2>1, <2>2
<1>8. (P \o (G \o R)) \o Q = ((P \o G) \o Q) \o R
  <2>1. P \o (G \o R) = (P \o G) \o R
    <3>1. \A x, y, z \in Seq(Styles) : (x \o y) \o z = x \o (y \o z)
      BY ConcatAssociative
    <3> QED
      BY <1>4, <3>1
  <2>2. PICK PG \in Seq(Styles) : PG = P \o G
    BY <1>4, ConcatProperties
  <2>3. (PG \o R) \o Q = (PG \o Q) \o R
    <3>1. \A x \in Seq(Styles) : x \o <<>> = x
      BY ConcatEmptySeq
    <3>2. PG \o R \in Seq(Styles) /\ PG \o Q \in Seq(Styles)
      BY <1>4, ConcatProperties
    <3> QED
      BY <1>4, <1>7, <3>1, <3>2
  <2> QED
    BY <2>1, <2>2, <2>3
<1>9. ASSUME NEW st
      PROVE  PointsAt(new, c, st) = PointsAt(list, c, st) + PointsAt(one, c, st)
  <2>1. /\ PointsAt(head, c, st) = PointsAt(pre, c, st) + PointsAt(mid, c, st)
        /\ PointsAt(new, c, st) = PointsAt(head, c, st) + PointsAt(post, c, st)
        /\ PointsAt(front, c, st) = PointsAt(pre, c, st) + PointsAt(grp, c, st)
        /\ PointsAt(list, c, st) = PointsAt(front, c, st) + PointsAt(post, c, st)
    BY JoinPoints
  <2>2. PointsAt(mid, c, st) = PointsAt(grp, c, st) + PointsAt(one, c, st)
    BY <1>1 DEF Lays
  <2>3. /\ PointsAt(pre, c, st) \in Nat /\ PointsAt(one, c, st) \in Nat
        /\ PointsAt(grp, c, st) \in Nat /\ PointsAt(post, c, st) \in Nat
    BY <1>2, PointsAre
  <2> QED
    BY <2>1, <2>2, <2>3
<1> QED
  BY <1>3, <1>5, <1>6, <1>8, <1>9

(* What ranges that are all the same show.                                    *)
LEMMA UniformShows ==
    ASSUME NEW s \in Seq(StyleRange), NEW x \in Nat, NEW y \in Nat, Uniform(s, x, y),
           NEW names \in Seq(Styles), Len(names) = Len(s),
           \A i \in 1..Len(s) : names[i] = s[i].style, NEW c \in Nat
    PROVE  /\ StylesAt(s, c) = IF x <= c /\ c < y THEN names ELSE <<>>
           /\ x < y => \A st : PointsAt(s, c, st) = 0
<1>1. ASSUME x <= c, c < y PROVE StylesAt(s, c) = names
  <2>1. \A i \in 1..Len(s) : Covers(s[i], c)
    BY <1>1 DEF Covers, Uniform
  <2> QED
    BY <2>1, StylesAll
<1>2. x < y => \A st : PointsAt(s, c, st) = 0
  BY PointsNone DEF Uniform
<1>3. ASSUME ~(x <= c /\ c < y) PROVE StylesAt(s, c) = <<>>
  <2>1. \A i \in 1..Len(s) : ~Covers(s[i], c)
    BY <1>3 DEF Covers, Uniform
  <2> QED
    BY <2>1, StylesNone
<1> QED
  BY <1>1, <1>2, <1>3

(* The styles of a group, and the group trimmed to other positions.           *)
Names(list, n, g) == [i \in 1..(g - n + 1) |-> list[n + i - 1].style]

Shows(s, names, x, y) ==
    /\ s \in Seq(StyleRange)
    /\ \A c \in Nat : /\ StylesAt(s, c) = IF x <= c /\ c < y THEN names ELSE <<>>
                      /\ x < y => \A st : PointsAt(s, c, st) = 0

LEMMA NamesType ==
    ASSUME NEW list \in Seq(StyleRange), NEW n \in 1..Len(list), NEW g \in n..Len(list)
    PROVE  /\ Names(list, n, g) \in Seq(Styles) /\ Len(Names(list, n, g)) = g - n + 1
           /\ \A i \in 1..(g - n + 1) : Names(list, n, g)[i] = list[n + i - 1].style
<1>1. g - n + 1 \in Nat
  OBVIOUS
<1>2. ASSUME NEW i \in 1..(g - n + 1) PROVE list[n + i - 1].style \in Styles
  <2>1. list[n + i - 1] \in StyleRange
    OBVIOUS
  <2> QED
    BY <2>1 DEF StyleRange
<1>3. PICK k \in Nat : k = g - n + 1
  BY <1>1
<1>4. [i \in 1..k |-> list[n + i - 1].style] \in Seq(Styles)
  BY <1>2, <1>3, IsASeq
<1> QED
  BY <1>3, <1>4 DEF Names

LEMMA TrimShows ==
    ASSUME NEW list \in Seq(StyleRange), NEW n \in 1..Len(list), NEW g \in n..Len(list),
           NEW x \in Nat, NEW y \in Nat
    PROVE  Shows(Trim(list, n, g, x, y), Names(list, n, g), x, y)
<1>1. PICK t, names : t = Trim(list, n, g, x, y) /\ names = Names(list, n, g)
  OBVIOUS
<1>2. t \in Seq(StyleRange) /\ Len(t) = g - n + 1 /\ Uniform(t, x, y)
  BY <1>1, TrimUniform
<1>3. /\ names \in Seq(Styles) /\ Len(names) = g - n + 1
      /\ \A i \in 1..(g - n + 1) : names[i] = list[n + i - 1].style
  BY <1>1, NamesType
<1>4. \A i \in 1..(g - n + 1) : t[i].style = list[n + i - 1].style
  BY <1>1 DEF Trim, new_style_range
<1>5. \A i \in 1..Len(t) : names[i] = t[i].style
  BY <1>2, <1>3, <1>4
<1> QED
  BY <1>1, <1>2, <1>3, <1>5, UniformShows DEF Shows

LEMMA GroupShows ==
    ASSUME NEW list \in Seq(StyleRange), NEW n \in 1..Len(list), NEW g \in GroupEnds(list, n)
    PROVE  Shows(SubSeq(list, n, g), Names(list, n, g), list[n].so, list[n].eo)
<1>1. g \in n..Len(list) /\ \A i \in n..g : SameRange(list[i], list[n])
  BY DEF GroupEnds
<1>2. PICK t, names : t = SubSeq(list, n, g) /\ names = Names(list, n, g)
  OBVIOUS
<1>3. /\ t \in Seq(StyleRange) /\ Len(t) = g - n + 1
      /\ \A i \in 1..(g - n + 1) : t[i] = list[n + i - 1]
  BY <1>1, <1>2
<1>4. /\ names \in Seq(Styles) /\ Len(names) = g - n + 1
      /\ \A i \in 1..(g - n + 1) : names[i] = list[n + i - 1].style
  BY <1>1, <1>2, NamesType
<1>5. \A i \in 1..Len(t) : names[i] = t[i].style
  BY <1>3, <1>4
<1>6. Uniform(t, list[n].so, list[n].eo)
  <2> SUFFICES ASSUME NEW i \in 1..Len(t)
               PROVE  t[i].so = list[n].so /\ t[i].eo = list[n].eo
    BY DEF Uniform
  <2>1. n + i - 1 \in n..g /\ t[i] = list[n + i - 1]
    BY <1>1, <1>3
  <2> QED
    BY <2>1, <1>1 DEF SameRange
<1>7. PICK x, y \in Nat : x = list[n].so /\ y = list[n].eo
  BY ElementEnds
<1>8. Uniform(t, x, y) /\ Len(names) = Len(t)
  BY <1>3, <1>4, <1>6, <1>7
<1>9. Shows(t, names, x, y)
  <2>1. t \in Seq(StyleRange) /\ names \in Seq(Styles)
    BY <1>3, <1>4
  <2>2. ASSUME NEW c \in Nat
        PROVE  StylesAt(t, c) = IF x <= c /\ c < y THEN names ELSE <<>>
    BY <2>1, <1>5, <1>8, UniformShows
  <2>3. ASSUME NEW c \in Nat, x < y, NEW st
        PROVE  PointsAt(t, c, st) = 0
    BY <2>1, <2>3, <1>5, <1>8, UniformShows
  <2> QED
    BY <2>1, <2>2, <2>3 DEF Shows
<1> QED
  BY <1>2, <1>7, <1>9

(* A group cut in two, with r on top of one of its halves.                    *)
LEMMA HalvesLay ==
    ASSUME NEW names \in Seq(Styles), NEW x \in Nat, NEW p2 \in Nat, NEW y \in Nat,
           x < p2, p2 < y, NEW grp, NEW t1, NEW t2, NEW a, NEW b, NEW r \in StyleRange,
           Shows(grp, names, x, y), Shows(t1, names, x, p2), Shows(t2, names, p2, y),
           \/ a = <<r>> /\ b = <<>> /\ r.eo <= p2
           \/ a = <<>> /\ b = <<r>> /\ p2 <= r.so,
           NEW left, NEW right, NEW mid,
           Joins(left, t1, a), Joins(right, t2, b), Joins(mid, left, right)
    PROVE  Lays(mid, grp, r)
<1>1. PICK one : one = <<r>>
  OBVIOUS
<1>2. /\ one \in Seq(StyleRange) /\ a \in Seq(StyleRange) /\ b \in Seq(StyleRange)
  <2>1. <<r>> \in Seq(StyleRange)
    OBVIOUS
  <2> QED
    BY <2>1, <1>1 DEF Joins
<1> SUFFICES ASSUME NEW c \in Nat
             PROVE  /\ StylesAt(mid, c) = StylesAt(grp, c) \o StylesAt(one, c)
                    /\ \A st : PointsAt(mid, c, st)
                                 = PointsAt(grp, c, st) + PointsAt(one, c, st)
  BY <1>1 DEF Lays
<1>3. PICK G, A, B, R, S1, S2 :
         /\ G = StylesAt(grp, c) /\ A = StylesAt(a, c) /\ B = StylesAt(b, c)
         /\ R = StylesAt(one, c) /\ S1 = StylesAt(t1, c) /\ S2 = StylesAt(t2, c)
  OBVIOUS
<1>4. /\ G = IF x <= c /\ c < y THEN names ELSE <<>>
      /\ S1 = IF x <= c /\ c < p2 THEN names ELSE <<>>
      /\ S2 = IF p2 <= c /\ c < y THEN names ELSE <<>>
  BY <1>3 DEF Shows
<1>5. R = IF r.so <= c /\ c < r.eo THEN <<r.style>> ELSE <<>>
  BY <1>1, <1>3, StylesOne DEF Covers
<1>6. StylesAt(<<>>, c) = <<>>
  <2>1. <<>> \in Seq(StyleRange) /\ \A i \in 1..Len(<<>>) : ~Covers(<<>>[i], c)
    OBVIOUS
  <2> QED
    BY <2>1, StylesNone
<1>7. r.so \in Nat /\ r.eo \in Nat /\ r.style \in Styles
  BY RangeEnds DEF StyleRange
<1>8. StylesAt(mid, c) = (S1 \o A) \o (S2 \o B)
  <2>1. /\ IsPut(StylesAt(left, c), S1, A) /\ IsPut(StylesAt(right, c), S2, B)
        /\ IsPut(StylesAt(mid, c), StylesAt(left, c), StylesAt(right, c))
    BY <1>3, JoinStyles
  <2> QED
    BY <2>1 DEF IsPut
<1>9. (S1 \o A) \o (S2 \o B) = G \o R
  <2>0. \A z \in Seq(Styles) : z \o <<>> = z /\ <<>> \o z = z
    BY ConcatEmptySeq
  <2>1. <<r.style>> \in Seq(Styles) /\ <<>> \in Seq(Styles)
    BY <1>7
  <2>2. R \in Seq(Styles) /\ names \o R \in Seq(Styles)
    BY <1>5, <2>1, ConcatProperties
  <2>3. CASE c < p2
    <3>1. S2 = <<>> /\ S1 = G /\ G \in Seq(Styles) /\ G \o R \in Seq(Styles)
      BY <2>0, <2>1, <2>2, <2>3, <1>4
    <3>2. A = R /\ B = <<>>
      <4>1. CASE a = <<r>> /\ b = <<>>
        BY <4>1, <1>1, <1>3, <1>6
      <4>2. CASE a = <<>> /\ b = <<r>> /\ p2 <= r.so
        <5>1. R = <<>>
          BY <4>2, <2>3, <1>5, <1>7
        <5> QED
          BY <4>2, <5>1, <1>1, <1>3, <1>6
      <4> QED
        BY <4>1, <4>2
    <3> QED
      BY <2>0, <2>1, <3>1, <3>2
  <2>4. CASE ~(c < p2)
    <3>1. S1 = <<>> /\ S2 = G /\ G \in Seq(Styles) /\ G \o R \in Seq(Styles)
      BY <2>0, <2>1, <2>2, <2>4, <1>4
    <3>2. A = <<>> /\ B = R
      <4>1. CASE a = <<r>> /\ b = <<>> /\ r.eo <= p2
        <5>1. R = <<>>
          BY <4>1, <2>4, <1>5, <1>7
        <5> QED
          BY <4>1, <5>1, <1>1, <1>3, <1>6
      <4>2. CASE a = <<>> /\ b = <<r>>
        BY <4>2, <1>1, <1>3, <1>6
      <4> QED
        BY <4>1, <4>2
    <3> QED
      BY <2>0, <2>1, <3>1, <3>2
  <2> QED
    BY <2>3, <2>4
<1>10. ASSUME NEW st
       PROVE  PointsAt(mid, c, st) = PointsAt(grp, c, st) + PointsAt(one, c, st)
  <2>1. PointsAt(<<>>, c, st) = 0
    <3>1. /\ <<>> \in Seq(StyleRange)
          /\ \A i \in 1..Len(<<>>) :
               ~(<<>>[i].so = c /\ <<>>[i].eo = c /\ <<>>[i].style = st)
      OBVIOUS
    <3> QED
      BY <3>1, PointsNone
  <2>2. /\ PointsAt(mid, c, st) = PointsAt(left, c, st) + PointsAt(right, c, st)
        /\ PointsAt(left, c, st) = PointsAt(t1, c, st) + PointsAt(a, c, st)
        /\ PointsAt(right, c, st) = PointsAt(t2, c, st) + PointsAt(b, c, st)
    BY JoinPoints
  <2>3. PointsAt(grp, c, st) = 0 /\ PointsAt(t1, c, st) = 0 /\ PointsAt(t2, c, st) = 0
    <3>1. x < y
      OBVIOUS
    <3> QED
      BY <3>1 DEF Shows
  <2>4. PointsAt(one, c, st) \in Nat
    BY <1>2, PointsAre
  <2>5. PointsAt(a, c, st) + PointsAt(b, c, st) = PointsAt(one, c, st)
    BY <2>1, <2>4, <1>1
  <2>6. PointsAt(a, c, st) \in Nat /\ PointsAt(b, c, st) \in Nat
    BY <1>2, PointsAre
  <2> QED
    BY <2>2, <2>3, <2>4, <2>5, <2>6
<1> QED
  BY <1>3, <1>8, <1>9, <1>10

(* A group cut in three, with r on top of the middle.                         *)
LEMMA ThirdsLay ==
    ASSUME NEW names \in Seq(Styles), NEW x \in Nat, NEW y \in Nat, NEW r \in StyleRange,
           x < r.so, r.so < r.eo, r.eo < y, NEW grp, NEW t1, NEW t2, NEW t3,
           Shows(grp, names, x, y), Shows(t1, names, x, r.so),
           Shows(t2, names, r.so, r.eo), Shows(t3, names, r.eo, y),
           NEW one, one = <<r>>, NEW middle, NEW rest, NEW mid,
           Joins(middle, t2, one), Joins(rest, middle, t3), Joins(mid, t1, rest)
    PROVE  Lays(mid, grp, r)
<1>1. one \in Seq(StyleRange)
  BY DEF Joins
<1> SUFFICES ASSUME NEW c \in Nat
             PROVE  /\ StylesAt(mid, c) = StylesAt(grp, c) \o StylesAt(one, c)
                    /\ \A st : PointsAt(mid, c, st)
                                 = PointsAt(grp, c, st) + PointsAt(one, c, st)
  BY DEF Lays
<1>2. r.so \in Nat /\ r.eo \in Nat /\ r.style \in Styles
  BY RangeEnds DEF StyleRange
<1>3. PICK G, R, S1, S2, S3 :
         /\ G = StylesAt(grp, c) /\ R = StylesAt(one, c)
         /\ S1 = StylesAt(t1, c) /\ S2 = StylesAt(t2, c) /\ S3 = StylesAt(t3, c)
  OBVIOUS
<1>4. /\ G = IF x <= c /\ c < y THEN names ELSE <<>>
      /\ S1 = IF x <= c /\ c < r.so THEN names ELSE <<>>
      /\ S2 = IF r.so <= c /\ c < r.eo THEN names ELSE <<>>
      /\ S3 = IF r.eo <= c /\ c < y THEN names ELSE <<>>
  BY <1>3 DEF Shows
<1>5. R = IF r.so <= c /\ c < r.eo THEN <<r.style>> ELSE <<>>
  BY <1>3, StylesOne DEF Covers
<1>6. StylesAt(mid, c) = S1 \o ((S2 \o R) \o S3)
  <2>1. /\ IsPut(StylesAt(middle, c), S2, R) /\ IsPut(StylesAt(rest, c), StylesAt(middle, c), S3)
        /\ IsPut(StylesAt(mid, c), S1, StylesAt(rest, c))
    BY <1>3, JoinStyles
  <2> QED
    BY <2>1 DEF IsPut
<1>7. S1 \o ((S2 \o R) \o S3) = G \o R
  <2>0. \A z \in Seq(Styles) : z \o <<>> = z /\ <<>> \o z = z
    BY ConcatEmptySeq
  <2>1. <<r.style>> \in Seq(Styles) /\ <<>> \in Seq(Styles)
    BY <1>2
  <2>2. names \o <<r.style>> \in Seq(Styles)
    BY <2>1, ConcatProperties
  <2>3. CASE c < r.so
    <3>1. S2 = <<>> /\ S3 = <<>> /\ R = <<>> /\ S1 = G /\ G \in Seq(Styles)
      BY <2>1, <2>3, <1>2, <1>4, <1>5
    <3> QED
      BY <2>0, <2>1, <3>1
  <2>4. CASE r.so <= c /\ c < r.eo
    <3>1. S1 = <<>> /\ S3 = <<>> /\ R = <<r.style>> /\ S2 = names /\ G = names
      BY <2>1, <2>4, <1>2, <1>4, <1>5
    <3> QED
      BY <2>0, <2>1, <2>2, <3>1
  <2>5. CASE r.eo <= c
    <3>1. S1 = <<>> /\ S2 = <<>> /\ R = <<>> /\ S3 = G /\ G \in Seq(Styles)
      BY <2>1, <2>5, <1>2, <1>4, <1>5
    <3> QED
      BY <2>0, <2>1, <3>1
  <2>6. c < r.so \/ (r.so <= c /\ c < r.eo) \/ r.eo <= c
    BY <1>2
  <2> QED
    BY <2>3, <2>4, <2>5, <2>6
<1>8. ASSUME NEW st
      PROVE  PointsAt(mid, c, st) = PointsAt(grp, c, st) + PointsAt(one, c, st)
  <2>1. /\ PointsAt(middle, c, st) = PointsAt(t2, c, st) + PointsAt(one, c, st)
        /\ PointsAt(rest, c, st) = PointsAt(middle, c, st) + PointsAt(t3, c, st)
        /\ PointsAt(mid, c, st) = PointsAt(t1, c, st) + PointsAt(rest, c, st)
    BY JoinPoints
  <2>2. /\ PointsAt(grp, c, st) = 0 /\ PointsAt(t1, c, st) = 0
        /\ PointsAt(t2, c, st) = 0 /\ PointsAt(t3, c, st) = 0
    <3>1. x < y
      BY <1>2
    <3> QED
      BY <3>1 DEF Shows
  <2>3. PointsAt(one, c, st) \in Nat
    BY <1>1, PointsAre
  <2> QED
    BY <2>1, <2>2, <2>3
<1> QED
  BY <1>3, <1>6, <1>7, <1>8

-----------------------------------------------------------------------------
(* The ranges behind the k-th.                                                *)
Behind(list, k) == {list[i] : i \in (k + 1)..Len(list)}
Elements(list)  == {list[i] : i \in 1..Len(list)}

LEMMA JoinBehind ==
    ASSUME NEW u, NEW s, NEW t, Joins(u, s, t), NEW k, k = Len(s)
    PROVE  Behind(u, k) = Elements(t)
<1>1. /\ Len(s) \in Nat /\ Len(t) \in Nat /\ Len(u) = Len(s) + Len(t)
      /\ \A i \in 1..Len(t) : u[Len(s) + i] = t[i]
  BY DEF Joins
<1>2. ASSUME NEW i \in (k + 1)..Len(u) PROVE \E j \in 1..Len(t) : u[i] = t[j]
  <2>1. i - k \in 1..Len(t) /\ Len(s) + (i - k) = i
    BY <1>1
  <2>2. u[i] = t[i - k]
    BY <1>1, <2>1
  <2> QED
    BY <2>1, <2>2
<1>3. ASSUME NEW j \in 1..Len(t) PROVE \E i \in (k + 1)..Len(u) : u[i] = t[j]
  <2>1. k + j \in (k + 1)..Len(u) /\ u[k + j] = t[j]
    BY <1>1
  <2> QED
    BY <2>1
<1>4. Behind(u, k) \subseteq Elements(t)
  <2> SUFFICES ASSUME NEW i \in (k + 1)..Len(u) PROVE u[i] \in Elements(t)
    BY DEF Behind
  <2> QED
    BY <1>2 DEF Elements
<1>5. Elements(t) \subseteq Behind(u, k)
  <2> SUFFICES ASSUME NEW j \in 1..Len(t) PROVE t[j] \in Behind(u, k)
    BY DEF Elements
  <2>1. PICK i \in (k + 1)..Len(u) : u[i] = t[j]
    BY <1>3
  <2> QED
    BY <2>1 DEF Behind
<1> QED
  BY <1>4, <1>5

(* Putting a range in does not change what is behind it.                      *)
LEMMA InsertBehind ==
    ASSUME NEW list \in Seq(StyleRange), NEW n \in 1..(Len(list) + 1), NEW r \in StyleRange
    PROVE  Behind(InsertAt(list, n, r), n) = Behind(list, n - 1)
<1>0. Len(list) \in Nat /\ n \in Nat
  OBVIOUS
<1>1. PICK k \in 0..Len(list) : k = n - 1 /\ k + 1 = n
  <2>1. n - 1 \in 0..Len(list) /\ (n - 1) + 1 = n
    BY <1>0
  <2> QED
    BY <2>1
<1>2. PICK pre, post : pre = SubSeq(list, 1, k) /\ post = SubSeq(list, k + 1, Len(list))
  OBVIOUS
<1>3. Joins(list, pre, post) /\ Len(pre) = k
  <2>1. Splits(list, k, pre, post)
    BY <1>2, Cut
  <2> QED
    BY <2>1 DEF Splits
<1>4. PICK head, new : head = pre \o <<r>> /\ new = head \o post
  OBVIOUS
<1>5. Joins(new, head, post) /\ Len(head) = n
  BY <1>1, <1>3, <1>4 DEF Joins
<1>6. InsertAt(list, n, r) = new
  BY <1>1, <1>2, <1>4 DEF InsertAt
<1>7. Behind(new, n) = Elements(post)
  BY <1>5, JoinBehind
<1>8. Behind(list, k) = Elements(post)
  BY <1>3, JoinBehind
<1> QED
  BY <1>1, <1>6, <1>7, <1>8

(* The three insort functions: r is laid, and what is behind the node they    *)
(* return is what was behind the group.                                       *)
AllAfter(list, g, p) == \A j \in (g + 1)..Len(list) : p <= list[j].so

LEMMA Insort1Lays ==
    ASSUME NEW list \in Seq(StyleRange), NEW g \in 1..Len(list), NEW r \in StyleRange,
           AllAfter(list, g, r.eo)
    PROVE  /\ Lays(insort_style1(list, g, r), list, r)
           /\ Behind(insort_style1(list, g, r), g + 1) = Behind(list, g)
<1>1. PICK n \in 1..(Len(list) + 1) : n = g + 1 /\ n - 1 = g
  <2>1. g + 1 \in 1..(Len(list) + 1) /\ (g + 1) - 1 = g
    OBVIOUS
  <2> QED
    BY <2>1
<1>2. insort_style1(list, g, r) = InsertAt(list, n, r)
  BY <1>1 DEF insort_style1, lnode_add_after
<1>3. \A i \in n..Len(list) : r.eo <= list[i].so
  BY <1>1 DEF AllAfter
<1>4. Lays(InsertAt(list, n, r), list, r)
  BY <1>3, InsertLays
<1>5. Behind(InsertAt(list, n, r), n) = Behind(list, n - 1)
  BY InsertBehind
<1> QED
  BY <1>1, <1>2, <1>4, <1>5

Swapped(new, list, n, g, mid) ==
    new = SubSeq(list, 1, n - 1) \o mid \o SubSeq(list, g + 1, Len(list))

(* What insort_style2 and insort_style3 do around the group.                  *)
LEMMA AroundGroupCuts ==
    ASSUME NEW list \in Seq(StyleRange), NEW n \in 1..Len(list), NEW g \in n..Len(list),
           NEW mid \in Seq(StyleRange), NEW new, Swapped(new, list, n, g, mid)
    PROVE  \E head, front, pre, post :
              /\ Joins(head, pre, mid) /\ Joins(new, head, post)
              /\ Joins(front, pre, SubSeq(list, n, g)) /\ Splits(list, g, front, post)
              /\ Len(head) = n - 1 + Len(mid)
<1>0. Len(list) \in Nat /\ n \in Nat /\ g \in Nat
  OBVIOUS
<1>1. PICK k \in 0..Len(list) : k = n - 1 /\ k + 1 = n
  <2>1. n - 1 \in 0..Len(list) /\ (n - 1) + 1 = n
    BY <1>0
  <2> QED
    BY <2>1
<1>2. PICK pre, front, post, grp :
         /\ pre = SubSeq(list, 1, k) /\ front = SubSeq(list, 1, g)
         /\ post = SubSeq(list, g + 1, Len(list)) /\ grp = SubSeq(list, n, g)
  OBVIOUS
<1>3. Splits(list, g, front, post)
  <2>1. g \in 0..Len(list)
    BY <1>0
  <2> QED
    BY <2>1, <1>2, Cut
<1>4. pre \in Seq(StyleRange) /\ Len(pre) = k /\ grp \in Seq(StyleRange)
  <2>1. Splits(list, k, pre, SubSeq(list, k + 1, Len(list)))
    BY <1>2, Cut
  <2>2. grp \in Seq(StyleRange)
    BY <1>0, <1>2
  <2> QED
    BY <2>1, <2>2 DEF Splits, Joins
<1>5. Joins(front, pre, grp)
  <2>1. 1 \in 1..(Len(list) + 1) /\ k \in (1 - 1)..Len(list) /\ g \in k..Len(list)
    BY <1>0, <1>1
  <2>2. SubSeq(list, 1, k) \o SubSeq(list, k + 1, g) = SubSeq(list, 1, g)
    BY <2>1, ConcatAdjacentSubSeq
  <2>3. front \in Seq(StyleRange)
    BY <1>3 DEF Joins, Splits
  <2> QED
    BY <2>2, <2>3, <1>1, <1>2, <1>4 DEF Joins
<1>6. PICK head : head = pre \o mid
  OBVIOUS
<1>7. Joins(head, pre, mid) /\ Len(head) = n - 1 + Len(mid)
  <2>1. head \in Seq(StyleRange) /\ Len(head) = Len(pre) + Len(mid)
    BY <1>4, <1>6, ConcatProperties
  <2>2. Joins(head, pre, mid)
    BY <1>4, <1>6, <2>1 DEF Joins
  <2> QED
    BY <1>1, <1>4, <2>1, <2>2
<1>8. Joins(new, head, post)
  <2>1. post \in Seq(StyleRange)
    BY <1>3 DEF Joins, Splits
  <2>2. head \in Seq(StyleRange)
    BY <1>7 DEF Joins
  <2>3. new = head \o post
    BY <1>1, <1>2, <1>6 DEF Swapped
  <2>4. new \in Seq(StyleRange)
    BY <2>1, <2>2, <2>3, ConcatProperties
  <2> QED
    BY <2>1, <2>2, <2>3, <2>4 DEF Joins
<1> QED
  BY <1>2, <1>3, <1>5, <1>7, <1>8

LEMMA AroundLays ==
    ASSUME NEW list \in Seq(StyleRange), NEW n \in 1..Len(list), NEW g \in n..Len(list),
           NEW r \in StyleRange, AllAfter(list, g, r.eo),
           NEW mid \in Seq(StyleRange), Lays(mid, SubSeq(list, n, g), r),
           NEW new, Swapped(new, list, n, g, mid)
    PROVE  Lays(new, list, r)
<1>1. PICK grp : grp = SubSeq(list, n, g)
  OBVIOUS
<1>2. PICK head, front, pre, post :
         /\ Joins(head, pre, mid) /\ Joins(new, head, post)
         /\ Joins(front, pre, grp) /\ Splits(list, g, front, post)
  BY <1>1, AroundGroupCuts
<1>3. \A i \in 1..Len(post) : r.eo <= post[i].so
  <2> SUFFICES ASSUME NEW i \in 1..Len(post) PROVE r.eo <= post[i].so
    OBVIOUS
  <2>1. g + i \in (g + 1)..Len(list) /\ post[i] = list[g + i]
    <3>1. Len(list) \in Nat /\ g \in Nat
      OBVIOUS
    <3> QED
      BY <3>1, <1>2 DEF Splits
  <2> QED
    BY <2>1 DEF AllAfter
<1>4. Joins(list, front, post)
  BY <1>2 DEF Splits
<1> QED
  BY <1>1, <1>2, <1>3, <1>4, MiddleLays

LEMMA AroundBehind ==
    ASSUME NEW list \in Seq(StyleRange), NEW n \in 1..Len(list), NEW g \in n..Len(list),
           NEW mid \in Seq(StyleRange), NEW new, Swapped(new, list, n, g, mid),
           NEW last, last = n - 1 + Len(mid)
    PROVE  Behind(new, last) = Behind(list, g)
<1>1. PICK head, front, pre, post :
         /\ Joins(new, head, post) /\ Splits(list, g, front, post)
         /\ Len(head) = n - 1 + Len(mid)
  BY AroundGroupCuts
<1>2. Behind(new, last) = Elements(post)
  <2>1. last = Len(head)
    BY <1>1
  <2> QED
    BY <2>1, <1>1, JoinBehind
<1>3. Behind(list, g) = Elements(post)
  <2>1. Joins(list, front, post) /\ g = Len(front)
    BY <1>1 DEF Splits
  <2> QED
    BY <2>1, JoinBehind
<1> QED
  BY <1>2, <1>3

LEMMA Insort2Lays ==
    ASSUME NEW list \in Seq(StyleRange), NEW n \in 1..Len(list), NEW g \in GroupEnds(list, n),
           NEW p2 \in Nat, list[n].so < p2, p2 < list[n].eo,
           NEW r \in StyleRange, AllAfter(list, g, r.eo), NEW a, NEW b,
           \/ a = <<r>> /\ b = <<>> /\ r.eo <= p2
           \/ a = <<>> /\ b = <<r>> /\ p2 <= r.so
    PROVE  /\ Lays(insort_style2(list, n, g, p2, a, b), list, r)
           /\ Behind(insort_style2(list, n, g, p2, a, b), g + (g - n) + 2) = Behind(list, g)
<1>1. g \in n..Len(list) /\ Len(list) \in Nat /\ n \in Nat /\ g \in Nat /\ g - n \in Nat
  BY DEF GroupEnds
<1>2. PICK x, y : x = list[n].so /\ y = list[n].eo
  OBVIOUS
<1>3. x \in Nat /\ y \in Nat /\ x < p2 /\ p2 < y
  BY <1>2, ElementEnds
<1>4. PICK names, grp, t1, t2 :
         /\ names = Names(list, n, g) /\ grp = SubSeq(list, n, g)
         /\ t1 = Trim(list, n, g, x, p2) /\ t2 = Trim(list, n, g, p2, y)
  OBVIOUS
<1>5. names \in Seq(Styles)
  BY <1>1, <1>4, NamesType
<1>6. Shows(grp, names, x, y)
  BY <1>2, <1>4, GroupShows
<1>7. Shows(t1, names, x, p2) /\ Shows(t2, names, p2, y)
  BY <1>1, <1>3, <1>4, TrimShows
<1>8. Len(t1) = g - n + 1 /\ Len(t2) = g - n + 1
  <2>1. \A so, eo \in Nat : Len(Trim(list, n, g, so, eo)) = g - n + 1
    BY <1>1, TrimUniform
  <2> QED
    BY <2>1, <1>3, <1>4
<1>9. /\ t1 \in Seq(StyleRange) /\ t2 \in Seq(StyleRange)
      /\ a \in Seq(StyleRange) /\ b \in Seq(StyleRange) /\ Len(a) + Len(b) = 1
      /\ Len(a) \in Nat /\ Len(b) \in Nat
  <2>1. t1 \in Seq(StyleRange) /\ t2 \in Seq(StyleRange)
    BY <1>7 DEF Shows
  <2>2. PICK one, none : one = <<r>> /\ none = <<>>
    OBVIOUS
  <2>3. /\ one \in Seq(StyleRange) /\ Len(one) = 1
        /\ none \in Seq(StyleRange) /\ Len(none) = 0
    BY <2>2
  <2>4. (a = one /\ b = none) \/ (a = none /\ b = one)
    BY <2>2
  <2>5. CASE a = one /\ b = none
    BY <2>1, <2>3, <2>5
  <2>6. CASE a = none /\ b = one
    BY <2>1, <2>3, <2>6
  <2> QED
    BY <2>4, <2>5, <2>6
<1>10. PICK left, right : left = t1 \o a /\ right = t2 \o b
  OBVIOUS
<1>11. /\ left \in Seq(StyleRange) /\ Len(left) = Len(t1) + Len(a)
       /\ right \in Seq(StyleRange) /\ Len(right) = Len(t2) + Len(b)
  BY <1>9, <1>10, ConcatProperties
<1>12. PICK mid : mid = left \o right
  OBVIOUS
<1>13. mid \in Seq(StyleRange) /\ Len(mid) = Len(left) + Len(right)
  BY <1>11, <1>12, ConcatProperties
<1>14. Joins(left, t1, a) /\ Joins(right, t2, b) /\ Joins(mid, left, right)
  BY <1>9, <1>10, <1>11, <1>12, <1>13 DEF Joins
<1>15. Lays(mid, grp, r)
  BY <1>3, <1>5, <1>6, <1>7, <1>14, HalvesLay
<1>16. PICK new, last : /\ new = insort_style2(list, n, g, p2, a, b)
                        /\ last = g + (g - n) + 2
  OBVIOUS
<1>17. Swapped(new, list, n, g, mid)
  BY <1>2, <1>4, <1>10, <1>12, <1>16 DEF insort_style2, Swapped
<1>18. last = n - 1 + Len(mid)
  <2>1. PICK d, la, lb \in Nat : d = g - n /\ la = Len(a) /\ lb = Len(b)
    BY <1>1, <1>9
  <2>2. la + lb = 1 /\ g = n + d
    BY <2>1, <1>1, <1>9
  <2>3. Len(mid) = (d + 1 + la) + (d + 1 + lb)
    BY <2>1, <1>8, <1>11, <1>13
  <2>4. last = n + d + d + 2
    BY <2>1, <2>2, <1>16
  <2> QED
    BY <2>2, <2>3, <2>4, <1>1
<1>19. Lays(new, list, r) /\ Behind(new, last) = Behind(list, g)
  <2>1. g \in n..Len(list)
    BY <1>1
  <2>2. Lays(new, list, r)
    BY <2>1, <1>4, <1>13, <1>15, <1>17, AroundLays
  <2>3. Behind(new, last) = Behind(list, g)
    BY <2>1, <1>13, <1>17, <1>18, AroundBehind
  <2> QED
    BY <2>2, <2>3
<1> QED
  BY <1>16, <1>19

LEMMA Insort3Lays ==
    ASSUME NEW list \in Seq(StyleRange), NEW n \in 1..Len(list), NEW g \in GroupEnds(list, n),
           NEW r \in StyleRange, AllAfter(list, g, r.eo),
           list[n].so < r.so, r.so < r.eo, r.eo < list[n].eo
    PROVE  Lays(insort_style3(list, n, g, r), list, r)
<1>1. g \in n..Len(list) /\ Len(list) \in Nat /\ n \in Nat /\ g \in Nat
  BY DEF GroupEnds
<1>2. PICK x, y, p, q : x = list[n].so /\ y = list[n].eo /\ p = r.so /\ q = r.eo
  OBVIOUS
<1>3. x \in Nat /\ y \in Nat /\ p \in Nat /\ q \in Nat /\ x < p /\ p < q /\ q < y
  BY <1>2, ElementEnds, RangeEnds
<1>4. PICK names, grp, t1, t2, t3 :
         /\ names = Names(list, n, g) /\ grp = SubSeq(list, n, g)
         /\ t1 = Trim(list, n, g, x, p) /\ t2 = Trim(list, n, g, p, q)
         /\ t3 = Trim(list, n, g, q, y)
  OBVIOUS
<1>5. names \in Seq(Styles)
  BY <1>1, <1>4, NamesType
<1>6. Shows(grp, names, x, y)
  BY <1>2, <1>4, GroupShows
<1>7. Shows(t1, names, x, p) /\ Shows(t2, names, p, q) /\ Shows(t3, names, q, y)
  BY <1>1, <1>3, <1>4, TrimShows
<1>8. t1 \in Seq(StyleRange) /\ t2 \in Seq(StyleRange) /\ t3 \in Seq(StyleRange)
  BY <1>7 DEF Shows
<1>9. PICK one, middle, rest, mid :
         one = <<r>> /\ middle = t2 \o one /\ rest = middle \o t3 /\ mid = t1 \o rest
  OBVIOUS
<1>10. one \in Seq(StyleRange)
  BY <1>9, SingleUniform
<1>11. middle \in Seq(StyleRange)
  BY <1>8, <1>9, <1>10, ConcatProperties
<1>12. rest \in Seq(StyleRange)
  BY <1>8, <1>9, <1>11, ConcatProperties
<1>13. mid \in Seq(StyleRange)
  BY <1>8, <1>9, <1>12, ConcatProperties
<1>14. Joins(middle, t2, one) /\ Joins(rest, middle, t3) /\ Joins(mid, t1, rest)
  BY <1>8, <1>9, <1>10, <1>11, <1>12, <1>13 DEF Joins
<1>15. Lays(mid, grp, r)
  <2>1. /\ x < r.so /\ r.so < r.eo /\ r.eo < y
        /\ Shows(t1, names, x, r.so) /\ Shows(t2, names, r.so, r.eo)
        /\ Shows(t3, names, r.eo, y)
    BY <1>2, <1>3, <1>7
  <2> QED
    BY <2>1, <1>3, <1>5, <1>6, <1>9, <1>14, ThirdsLay
<1>16. PICK new : new = insort_style3(list, n, g, r)
  OBVIOUS
<1>17. Swapped(new, list, n, g, mid)
  BY <1>2, <1>4, <1>9, <1>16 DEF insort_style3, Swapped
<1>18. Lays(new, list, r)
  BY <1>1, <1>4, <1>13, <1>15, <1>16, <1>17, AroundLays
<1> QED
  BY <1>16, <1>18

-----------------------------------------------------------------------------
(* A range laid in two parts, one behind the other.                           *)
Parts(s, q, r) ==
    /\ s \in StyleRange /\ q \in StyleRange /\ r \in StyleRange
    /\ q.style = s.style /\ r.style = s.style
    /\ q.so = s.so /\ q.eo = r.so /\ r.eo = s.eo
    /\ q.so <= q.eo /\ r.so <= r.eo

LEMMA PartsStyles ==
    ASSUME NEW s, NEW q, NEW r, Parts(s, q, r), NEW c \in Nat
    PROVE  IsPut(StylesAt(<<s>>, c), StylesAt(<<q>>, c), StylesAt(<<r>>, c))
<1>1. /\ s \in StyleRange /\ q \in StyleRange /\ r \in StyleRange
      /\ q.style = s.style /\ r.style = s.style
      /\ q.so = s.so /\ q.eo = r.so /\ r.eo = s.eo /\ q.so <= q.eo /\ r.so <= r.eo
  BY DEF Parts
<1>2. /\ s.so \in Nat /\ s.eo \in Nat /\ q.eo \in Nat /\ s.style \in Styles
  BY <1>1, RangeEnds DEF StyleRange
<1>3. PICK X, Y, Z : /\ X = StylesAt(<<q>>, c) /\ Y = StylesAt(<<r>>, c)
                     /\ Z = StylesAt(<<s>>, c)
  OBVIOUS
<1>4. /\ X = IF s.so <= c /\ c < q.eo THEN <<s.style>> ELSE <<>>
      /\ Y = IF q.eo <= c /\ c < s.eo THEN <<s.style>> ELSE <<>>
      /\ Z = IF s.so <= c /\ c < s.eo THEN <<s.style>> ELSE <<>>
  BY <1>1, <1>3, StylesOne DEF Covers
<1>5. s.so <= q.eo /\ q.eo <= s.eo
  BY <1>1
<1>6. Z = X \o Y
  <2>1. CASE s.so <= c /\ c < q.eo
    <3>1. X = <<s.style>> /\ Y = <<>> /\ Z = <<s.style>>
      BY <2>1, <1>2, <1>4, <1>5
    <3> QED
      BY <3>1, <1>2
  <2>2. CASE q.eo <= c /\ c < s.eo
    <3>1. X = <<>> /\ Y = <<s.style>> /\ Z = <<s.style>>
      BY <2>2, <1>2, <1>4, <1>5
    <3> QED
      BY <3>1, <1>2
  <2>3. CASE c < s.so \/ s.eo <= c
    <3>1. X = <<>> /\ Y = <<>> /\ Z = <<>>
      BY <2>3, <1>2, <1>4, <1>5
    <3> QED
      BY <3>1
  <2>4. (s.so <= c /\ c < q.eo) \/ (q.eo <= c /\ c < s.eo) \/ c < s.so \/ s.eo <= c
    BY <1>2
  <2> QED
    BY <2>1, <2>2, <2>3, <2>4
<1> QED
  BY <1>3, <1>6 DEF IsPut

(* A range that is laid in two parts is laid.                                 *)
LEMMA LaysBoth ==
    ASSUME NEW list \in Seq(StyleRange), NEW m, NEW new, NEW s, NEW q, NEW r,
           Parts(s, q, r), ~Empty(q), ~Empty(r), Lays(m, list, q), Lays(new, m, r)
    PROVE  Lays(new, list, s)
<1>1. PICK qs, rs, ss : qs = <<q>> /\ rs = <<r>> /\ ss = <<s>>
  OBVIOUS
<1>2. /\ q \in StyleRange /\ r \in StyleRange /\ s \in StyleRange
      /\ q.so = s.so /\ q.eo = r.so /\ r.eo = s.eo /\ q.so <= q.eo /\ r.so <= r.eo
  BY DEF Parts
<1>3. q.so \in Nat /\ q.eo \in Nat /\ r.eo \in Nat /\ q.so < q.eo /\ r.so < r.eo
  BY <1>2, RangeEnds DEF Empty
<1>4. qs \in Seq(StyleRange) /\ rs \in Seq(StyleRange)
  BY <1>1, <1>2
<1> SUFFICES ASSUME NEW c \in Nat
             PROVE  /\ StylesAt(new, c) = StylesAt(list, c) \o StylesAt(ss, c)
                    /\ \A st : PointsAt(new, c, st)
                                 = PointsAt(list, c, st) + PointsAt(ss, c, st)
  BY <1>1 DEF Lays
<1>5. PICK L, Q, R : L = StylesAt(list, c) /\ Q = StylesAt(qs, c) /\ R = StylesAt(rs, c)
  OBVIOUS
<1>6. L \in Seq(Styles) /\ Q \in Seq(Styles) /\ R \in Seq(Styles)
  BY <1>4, <1>5, StylesAre
<1>7. StylesAt(ss, c) = Q \o R
  <2>1. IsPut(StylesAt(ss, c), Q, R)
    BY <1>1, <1>5, PartsStyles
  <2> QED
    BY <2>1 DEF IsPut
<1>8. StylesAt(new, c) = (L \o Q) \o R
  BY <1>1, <1>5 DEF Lays
<1>9. (L \o Q) \o R = L \o (Q \o R)
  <2>1. Groups(Styles, L, Q, R)
    BY <1>6, Grouping
  <2> QED
    BY <2>1 DEF Groups
<1>10. ASSUME NEW st
       PROVE  PointsAt(new, c, st) = PointsAt(list, c, st) + PointsAt(ss, c, st)
  <2>1. PointsAt(qs, c, st) = 0 /\ PointsAt(rs, c, st) = 0 /\ PointsAt(ss, c, st) = 0
    <3>1. q.so # q.eo /\ r.so # r.eo /\ s.so # s.eo
      BY <1>2, <1>3
    <3> QED
      BY <3>1, <1>1, <1>2, PointsOne
  <2>2. /\ PointsAt(m, c, st) = PointsAt(list, c, st) + PointsAt(qs, c, st)
        /\ PointsAt(new, c, st) = PointsAt(m, c, st) + PointsAt(rs, c, st)
    BY <1>1 DEF Lays
  <2>3. PointsAt(list, c, st) \in Nat
    BY PointsAre
  <2> QED
    BY <2>1, <2>2, <2>3
<1> QED
  BY <1>5, <1>7, <1>8, <1>9, <1>10

(* What list shows with old still to be laid is what new shows with rest      *)
(* still to be laid.                                                          *)
Moves(new, rest, list, old) ==
    \A c \in Nat :
        StylesAt(new, c) \o StylesAt(<<rest>>, c) = StylesAt(list, c) \o StylesAt(<<old>>, c)

LEMMA LaysMoves ==
    ASSUME NEW list \in Seq(StyleRange), NEW new, NEW s, NEW q, NEW r,
           Parts(s, q, r), Lays(new, list, q)
    PROVE  Moves(new, r, list, s)
<1>1. PICK qs, rs, ss : qs = <<q>> /\ rs = <<r>> /\ ss = <<s>>
  OBVIOUS
<1>2. q \in StyleRange /\ r \in StyleRange
  BY DEF Parts
<1>3. qs \in Seq(StyleRange) /\ rs \in Seq(StyleRange)
  BY <1>1, <1>2
<1> SUFFICES ASSUME NEW c \in Nat
             PROVE  StylesAt(new, c) \o StylesAt(rs, c) = StylesAt(list, c) \o StylesAt(ss, c)
  BY <1>1 DEF Moves
<1>4. PICK L, Q, R : L = StylesAt(list, c) /\ Q = StylesAt(qs, c) /\ R = StylesAt(rs, c)
  OBVIOUS
<1>5. L \in Seq(Styles) /\ Q \in Seq(Styles) /\ R \in Seq(Styles)
  BY <1>3, <1>4, StylesAre
<1>6. StylesAt(ss, c) = Q \o R
  <2>1. IsPut(StylesAt(ss, c), Q, R)
    BY <1>1, <1>4, PartsStyles
  <2> QED
    BY <2>1 DEF IsPut
<1>7. StylesAt(new, c) = L \o Q
  BY <1>1, <1>4 DEF Lays
<1>8. (L \o Q) \o R = L \o (Q \o R)
  <2>1. Groups(Styles, L, Q, R)
    BY <1>5, Grouping
  <2> QED
    BY <2>1 DEF Groups
<1> QED
  BY <1>4, <1>6, <1>7, <1>8

(* An empty range that is laid shows on no character.                         *)
LEMMA EmptyMoves ==
    ASSUME NEW list \in Seq(StyleRange), NEW new, NEW q \in StyleRange, NEW s,
           Empty(q), Lays(new, list, q)
    PROVE  Moves(new, s, list, s)
<1> SUFFICES ASSUME NEW c \in Nat PROVE StylesAt(new, c) = StylesAt(list, c)
  BY DEF Moves
<1>1. q.so \in Nat /\ q.eo \in Nat /\ q.so = q.eo
  BY RangeEnds DEF Empty
<1>2. StylesAt(<<q>>, c) = <<>>
  <2>1. ~Covers(q, c)
    BY <1>1 DEF Covers
  <2> QED
    BY <2>1, StylesOne
<1>3. StylesAt(list, c) \in Seq(Styles)
  BY StylesAre
<1>4. StylesAt(new, c) = StylesAt(list, c) \o <<>>
  BY <1>2 DEF Lays
<1> QED
  BY <1>3, <1>4, ConcatEmptySeq

LEMMA MovesTwice ==
    ASSUME NEW new, NEW rest, NEW m, NEW mid, NEW list, NEW old,
           Moves(m, mid, list, old), Moves(new, rest, m, mid)
    PROVE  Moves(new, rest, list, old)
  BY DEF Moves

-----------------------------------------------------------------------------
(* The empty ranges behind a node: those that the rest of a walk will meet.   *)
EmptyAt(r, p)      == r.so = p /\ r.eo = p
Stands(list, k, p) == \E r \in Behind(list, k) : EmptyAt(r, p)

(* Behind a group there are ranges that start where it ends, or later.        *)
LEMMA BehindGroup ==
    ASSUME NEW list, Block(list, 0, N), NEW n \in 1..Len(list),
           NEW g \in GroupEnds(list, n), NEW r \in Behind(list, g)
    PROVE  list[n].eo <= r.so
<1>1. PICK j \in (g + 1)..Len(list) : r = list[j]
  BY DEF Behind
<1> QED
  BY <1>1, AfterGroup

(* An empty range that stands from n on is the group's, or behind the group:  *)
(* it is never both.                                                          *)
LEMMA GroupStands ==
    ASSUME NEW list, Block(list, 0, N), NEW n \in 1..Len(list),
           NEW g \in GroupEnds(list, n), NEW p
    PROVE  /\ Stands(list, n - 1, p) <=> EmptyAt(list[n], p) \/ Stands(list, g, p)
           /\ ~(EmptyAt(list[n], p) /\ Stands(list, g, p))
<1>1. list \in Seq(StyleRange) /\ Len(list) \in Nat /\ n \in Nat
  BY DEF Block
<1>2. \A i \in 1..Len(list) : list[i].so \in Nat /\ list[i].eo \in Nat
  BY <1>1, ElementEnds
<1>3. /\ \A i \in 1..Len(list) : list[i].so <= list[i].eo
      /\ \A i, j \in 1..Len(list) : i < j => Precedes(list[i], list[j])
  BY DEF Block, Ordered
<1>4. /\ g \in n..Len(list) /\ g \in Nat
      /\ \A i \in n..g : SameRange(list[i], list[n])
      /\ g < Len(list) => ~SameRange(list[g + 1], list[n])
  BY <1>1 DEF GroupEnds
<1>5. Stands(list, n - 1, p) => EmptyAt(list[n], p) \/ Stands(list, g, p)
  <2> SUFFICES ASSUME Stands(list, n - 1, p), ~EmptyAt(list[n], p)
               PROVE  Stands(list, g, p)
    OBVIOUS
  <2>1. PICK i \in (n - 1 + 1)..Len(list) : EmptyAt(list[i], p)
    BY DEF Stands, Behind
  <2>2. i \in n..Len(list)
    BY <1>1, <2>1
  <2>3. i \notin n..g
    BY <1>4, <2>1 DEF SameRange, EmptyAt
  <2>4. i \in (g + 1)..Len(list)
    BY <1>1, <1>4, <2>2, <2>3
  <2> QED
    BY <2>1, <2>4 DEF Stands, Behind
<1>6. EmptyAt(list[n], p) => Stands(list, n - 1, p)
  <2>1. n \in (n - 1 + 1)..Len(list)
    BY <1>1
  <2> QED
    BY <2>1 DEF Stands, Behind
<1>7. Stands(list, g, p) => Stands(list, n - 1, p)
  <2>1. \A i \in (g + 1)..Len(list) : i \in (n - 1 + 1)..Len(list)
    BY <1>1, <1>4
  <2> QED
    BY <2>1 DEF Stands, Behind
<1>8. ASSUME EmptyAt(list[n], p), Stands(list, g, p)
      PROVE  FALSE
  <2>1. PICK j \in (g + 1)..Len(list) : EmptyAt(list[j], p)
    BY <1>8 DEF Stands, Behind
  <2>2. /\ j \in 1..Len(list) /\ g + 1 \in 1..Len(list) /\ g < Len(list)
        /\ n < g + 1 /\ (j = g + 1 \/ g + 1 < j)
    BY <1>1, <1>4, <2>1
  <2>3. ~SameRange(list[g + 1], list[n]) /\ ~SameRange(list[g + 1], list[j])
    BY <1>4, <1>8, <2>1, <2>2 DEF SameRange, EmptyAt
  <2>4. g + 1 < j
    BY <2>2, <2>3 DEF SameRange
  <2>5. list[n].eo <= list[g + 1].so /\ list[g + 1].eo <= list[j].so
    <3>1. Precedes(list[n], list[g + 1]) /\ Precedes(list[g + 1], list[j])
      BY <1>3, <2>2, <2>4
    <3> QED
      BY <3>1, <2>3 DEF Precedes, SameRange
  <2>6. list[g + 1].so <= list[g + 1].eo
    BY <1>3, <2>2
  <2>7. list[g + 1].so \in Nat /\ list[g + 1].eo \in Nat /\ list[n].eo \in Nat
    BY <1>2, <2>2
  <2>8. list[n].so = p /\ list[n].eo = p /\ list[j].so = p
    BY <1>8, <2>1 DEF EmptyAt
  <2>9. list[g + 1].so = p /\ list[g + 1].eo = p
    BY <2>5, <2>6, <2>7, <2>8
  <2> QED
    BY <2>3, <2>8, <2>9 DEF SameRange
<1> QED
  BY <1>5, <1>6, <1>7, <1>8

-----------------------------------------------------------------------------
(* Once the walk has laid a part of s1, nothing that is still before it       *)
(* starts before the rest of s1, and the rest is not empty: an empty range    *)
(* that a step passes without a copy of s1 is not inside s1.                  *)
Ahead ==
    pc = "loop" /\ old_so < s1.so =>
        /\ ~Empty(s1)
        /\ \A r \in Behind(styles, node - 1) : s1.so <= r.so

LEMMA PendingStands ==
    ASSUME IInv, pc = "loop", NEW p, NEW st
    PROVE  PointPending(p, st) <=>
             /\ s1.style = st
             /\ \/ Empty(s1) /\ s1.so = p
                \/ old_so < p /\ p < s1.eo /\ Stands(styles, node - 1, p)
<1>1. node - 1 + 1 = node
  BY DEF IInv, NothingLeftBehind
<1>2. Stands(styles, node - 1, p)
        <=> \E i \in node..Len(styles) : styles[i].so = p /\ styles[i].eo = p
  BY <1>1 DEF Stands, Behind, EmptyAt
<1> QED
  BY <1>2 DEF PointPending

-----------------------------------------------------------------------------
(* What a character and a position show during a call, and after it.          *)
LayersShow ==
    \A c \in Characters :
        layers[c] = IF pc = "loop" THEN StylesAt(styles, c) \o StylesAt(<<s1>>, c)
                                   ELSE StylesAt(styles, c)

LEMMA LayersNow == IInv => LayersShow
<1> SUFFICES ASSUME IInv, NEW c \in Characters
             PROVE  layers[c] = IF pc = "loop" THEN StylesAt(styles, c) \o StylesAt(<<s1>>, c)
                                               ELSE StylesAt(styles, c)
  BY DEF LayersShow
<1>1. styles \in Seq(StyleRange)
  BY DEF IInv, TypeOK
<1>2. layers[c] = StylesAt(styles, c) \o (IF Pending(c) THEN <<s1.style>> ELSE <<>>)
  BY DEF layers
<1>3. CASE pc = "loop"
  <2>1. s1 \in StyleRange
    BY <1>3 DEF IInv, NothingLeftBehind
  <2>2. Pending(c) <=> Covers(s1, c)
    BY <1>3 DEF Pending
  <2> QED
    BY <1>2, <1>3, <2>1, <2>2, StylesOne
<1>4. CASE pc # "loop"
  <2>1. ~Pending(c)
    BY <1>4 DEF Pending
  <2>2. StylesAt(styles, c) \in Seq(Styles)
    BY <1>1, StylesAre
  <2>3. StylesAt(styles, c) \o <<>> = StylesAt(styles, c)
    BY <2>2, ConcatEmptySeq
  <2> QED
    BY <1>2, <1>4, <2>1, <2>3
<1> QED
  BY <1>3, <1>4

LEMMA LayersNext == IInv' => LayersShow'
  BY LayersNow, PTL

(* Two states that show the same on each character and at each position.      *)
LEMMA LayersBecome ==
    ASSUME NEW f, f = [c \in Characters |-> f[c]], \A c \in Characters : layers'[c] = f[c]
    PROVE  layers' = f
  BY DEF layers

LEMMA PointsBecome ==
    ASSUME NEW f, f = [p \in Positions |-> f[p]],
           \A p \in Positions : f[p] = [st \in Styles |-> f[p][st]],
           \A p \in Positions, st \in Styles : points'[p][st] = f[p][st]
    PROVE  points' = f
<1>1. points' = [p \in Positions |-> points'[p]]
  BY DEF points
<1>2. \A p \in Positions : points'[p] = [st \in Styles |-> points'[p][st]]
  BY DEF points
<1>3. ASSUME NEW p \in Positions
      PROVE  points'[p] = f[p]
  BY <1>2
<1> QED
  BY <1>1, <1>3

LEMMA SameShown ==
    ASSUME \A c \in Characters : layers'[c] = layers[c],
           \A p \in Positions, st \in Styles : points'[p][st] = points[p][st]
    PROVE  layers' = layers /\ points' = points
<1>1. layers = [c \in Characters |-> layers[c]]
  BY DEF layers
<1>2. /\ points = [p \in Positions |-> points[p]]
      /\ \A p \in Positions : points[p] = [st \in Styles |-> points[p][st]]
  BY DEF points
<1>3. layers' = layers
  BY <1>1, LayersBecome
<1>4. points' = points
  BY <1>2, PointsBecome
<1> QED
  BY <1>3, <1>4

(* A step that returns shows what was promised: the rest of s1 is laid, and   *)
(* no empty range inside it is left to be wrapped.                            *)
NoneInside ==
    ~Empty(s1) => \A p \in Positions :
                    old_so < p /\ p < s1.eo => ~Stands(styles, node - 1, p)

LEMMA ReturnShows ==
    ASSUME IInv, IInv', Ahead, pc = "loop", NoneInside,
           NEW new, Return(new), Lays(new, styles, s1)
    PROVE  layers' = layers /\ points' = points
<1>1. styles' = new /\ pc' = "idle"
  BY DEF Return
<1>2. /\ styles \in Seq(StyleRange) /\ s1 \in StyleRange
      /\ s1.so \in Nat /\ s1.eo \in Nat /\ old_so \in Nat
  BY RangeEnds DEF IInv, TypeOK, NothingLeftBehind
<1>3. ASSUME NEW c \in Characters
      PROVE  layers'[c] = layers[c]
  <2>1. c \in Nat
    BY NAssumption DEF Characters
  <2>2. layers[c] = StylesAt(styles, c) \o StylesAt(<<s1>>, c)
    BY LayersNow DEF LayersShow
  <2>3. layers'[c] = StylesAt(new, c)
    BY <1>1, LayersNext DEF LayersShow
  <2> QED
    BY <2>1, <2>2, <2>3 DEF Lays
<1>4. ASSUME NEW p \in Positions, NEW st \in Styles
      PROVE  points'[p][st] = points[p][st]
  <2>1. p \in Nat
    BY NAssumption DEF Positions
  <2>2. ~PointPending(p, st)'
    BY <1>1 DEF PointPending
  <2>3. points'[p][st] = PointsAt(new, p, st) + 0
    BY <1>1, <2>2 DEF points
  <2>4. PointsAt(new, p, st) = PointsAt(styles, p, st) + PointsAt(<<s1>>, p, st)
    BY <2>1 DEF Lays
  <2>5. PointPending(p, st) <=> s1.so = p /\ s1.eo = p /\ s1.style = st
    <3>1. PointPending(p, st) <=> /\ s1.style = st
                                  /\ \/ Empty(s1) /\ s1.so = p
                                     \/ old_so < p /\ p < s1.eo /\ Stands(styles, node - 1, p)
      BY PendingStands
    <3>2. ~(old_so < p /\ p < s1.eo /\ Stands(styles, node - 1, p))
      <4>1. CASE Empty(s1)
        <5>1. ~(old_so < s1.so)
          BY <4>1 DEF Ahead
        <5>2. s1.so = s1.eo
          BY <4>1 DEF Empty
        <5> QED
          BY <5>1, <5>2, <1>2, <2>1
      <4>2. CASE ~Empty(s1)
        BY <4>2 DEF NoneInside
      <4> QED
        BY <4>1, <4>2
    <3> QED
      BY <3>1, <3>2 DEF Empty
  <2>6. PointsAt(<<s1>>, p, st) = IF PointPending(p, st) THEN 1 ELSE 0
    BY <1>2, <2>5, PointsOne
  <2>7. points[p][st] = PointsAt(styles, p, st) + (IF PointPending(p, st) THEN 1 ELSE 0)
    BY DEF points
  <2>8. PointsAt(new, p, st) \in Nat
    <3>1. new \in Seq(StyleRange)
      BY <1>1 DEF IInv, TypeOK
    <3> QED
      BY <3>1, PointsAre
  <2> QED
    BY <2>3, <2>4, <2>6, <2>7, <2>8
<1> QED
  BY <1>3, <1>4, SameShown

(* A step after which the loop goes on shows the same when what it laid and   *)
(* what is left of s1 amount to s1, and the point it added, if any, is the    *)
(* one that was to come for the group it passed.                              *)
Copied(p, st) == st = s1.style /\ old_so < p /\ p < s1.eo /\ EmptyAt(s2, p)

Adds(new) ==
    \A p \in Positions, st \in Styles :
        PointsAt(new, p, st) = PointsAt(styles, p, st) + (IF Copied(p, st) THEN 1 ELSE 0)

Passes(new, last) ==
    \A p : /\ Stands(styles, node - 1, p) <=> EmptyAt(s2, p) \/ Stands(new, last, p)
           /\ ~(EmptyAt(s2, p) /\ Stands(new, last, p))

LEMMA ContinueShows ==
    ASSUME IInv, IInv', pc = "loop", ~Empty(s1),
           NEW new, NEW last \in Int, NEW rest, Continue(new, last, rest),
           rest.style = s1.style, rest.eo = s1.eo, ~Empty(rest),
           Moves(new, rest, styles, s1), Adds(new), Passes(new, last)
    PROVE  layers' = layers /\ points' = points
<1>1. /\ styles' = new /\ pc' = "loop" /\ s1' = rest /\ old_so' = old_so
      /\ node' - 1 = last
  BY DEF Continue
<1>2. ASSUME NEW c \in Characters
      PROVE  layers'[c] = layers[c]
  <2>1. c \in Nat
    BY NAssumption DEF Characters
  <2>2. layers[c] = StylesAt(styles, c) \o StylesAt(<<s1>>, c)
    BY LayersNow DEF LayersShow
  <2>3. layers'[c] = StylesAt(new, c) \o StylesAt(<<rest>>, c)
    BY <1>1, LayersNext DEF LayersShow
  <2> QED
    BY <2>1, <2>2, <2>3 DEF Moves
<1>3. ASSUME NEW p \in Positions, NEW st \in Styles
      PROVE  points'[p][st] = points[p][st]
  <2>1. PointPending(p, st) <=> /\ s1.style = st /\ old_so < p /\ p < s1.eo
                                /\ Stands(styles, node - 1, p)
    BY PendingStands
  <2>2. PointPending(p, st)' <=> /\ s1.style = st /\ old_so < p /\ p < s1.eo
                                 /\ Stands(new, last, p)
    <3>1. (IInv /\ pc = "loop" => (PointPending(p, st) <=>
             /\ s1.style = st
             /\ \/ Empty(s1) /\ s1.so = p
                \/ old_so < p /\ p < s1.eo /\ Stands(styles, node - 1, p)))'
      BY PendingStands, PTL
    <3> QED
      BY <3>1, <1>1
  <2>3. /\ PointPending(p, st) <=> Copied(p, st) \/ PointPending(p, st)'
        /\ ~(Copied(p, st) /\ PointPending(p, st)')
    BY <2>1, <2>2 DEF Passes, Copied
  <2>4. PointsAt(new, p, st)
          = PointsAt(styles, p, st) + (IF Copied(p, st) THEN 1 ELSE 0)
    BY DEF Adds
  <2>5. points[p][st] = PointsAt(styles, p, st) + (IF PointPending(p, st) THEN 1 ELSE 0)
    BY DEF points
  <2>6. points'[p][st] = PointsAt(new, p, st) + (IF PointPending(p, st)' THEN 1 ELSE 0)
    BY <1>1 DEF points
  <2>7. PointsAt(styles, p, st) \in Nat
    BY PointsAre DEF IInv, TypeOK
  <2> QED
    BY <2>3, <2>4, <2>5, <2>6, <2>7
<1> QED
  BY <1>2, <1>3, SameShown

-----------------------------------------------------------------------------
(* The steps.  What is behind a group ends the room a range has to fit in.    *)
LEMMA GroupAllAfter ==
    ASSUME NEW list, Block(list, 0, N), NEW n \in 1..Len(list),
           NEW g \in GroupEnds(list, n), NEW p \in Nat, p <= list[n].eo
    PROVE  AllAfter(list, g, p)
<1>1. list \in Seq(StyleRange) /\ Len(list) \in Nat /\ g \in Nat /\ n \in 1..Len(list)
  BY DEF Block, GroupEnds
<1> SUFFICES ASSUME NEW j \in (g + 1)..Len(list)
             PROVE  p <= list[j].so
  BY DEF AllAfter
<1>2. list[n].eo <= list[j].so
  BY AfterGroup
<1>3. list[n].eo \in Nat
  BY <1>1, ElementEnds
<1>4. j \in 1..Len(list)
  BY <1>1
<1>5. list[j].so \in Nat
  BY <1>1, <1>4, ElementEnds
<1> QED
  BY <1>2, <1>3, <1>5

(* No node from the current one on starts before it, and an empty one does    *)
(* not start inside it.                                                       *)
LEMMA FromNode ==
    ASSUME IInv, AtNode, NEW i \in node..Len(styles)
    PROVE  /\ styles[i].so \in Nat
           /\ s2.so <= styles[i].so
           /\ Empty(styles[i]) /\ ~Empty(s2) => s2.eo <= styles[i].so
<1>1. /\ Block(styles, 0, N) /\ node \in 1..Len(styles)
      /\ s2.so \in Nat /\ s2.eo \in Nat /\ s2.so <= s2.eo
  BY AtNodeFacts
<1>2. styles \in Seq(StyleRange) /\ Len(styles) \in Nat
  BY <1>1 DEF Block
<1>3. i \in 1..Len(styles) /\ (i = node \/ node < i)
  BY <1>1, <1>2
<1>4. i = node \/ Precedes(s2, styles[i])
  BY <1>1, <1>3 DEF Block, Ordered, s2
<1>5. styles[i].so \in Nat /\ styles[i].eo \in Nat
  BY <1>2, <1>3, ElementEnds
<1> QED
  BY <1>1, <1>4, <1>5 DEF Precedes, SameRange, Empty, s2

(* A call does not return before every empty range inside s1 is wrapped.      *)
LEMMA NoneWaits ==
    ASSUME IInv, AtNode,
           s1.eo <= s2.so \/ (s1.eo <= s2.eo /\ s2.so < s2.eo)
    PROVE  NoneInside
<1>1. /\ node \in 1..Len(styles)
      /\ s1.eo \in Nat /\ s2.so \in Nat /\ s2.eo \in Nat
  BY AtNodeFacts
<1> SUFFICES ASSUME NEW p \in Positions, p < s1.eo, Stands(styles, node - 1, p)
             PROVE  FALSE
  BY DEF NoneInside
<1>2. p \in Nat
  BY NAssumption DEF Positions
<1>3. PICK i \in (node - 1 + 1)..Len(styles) : EmptyAt(styles[i], p)
  BY DEF Stands, Behind
<1>4. i \in node..Len(styles)
  BY <1>1, <1>3
<1>5. /\ styles[i].so = p /\ Empty(styles[i])
  BY <1>3 DEF EmptyAt, Empty
<1>6. s2.so <= p /\ (~Empty(s2) => s2.eo <= p)
  BY <1>4, <1>5, FromNode
<1> QED
  BY <1>1, <1>2, <1>6 DEF Empty

(* What 3b, 3c and 4a put in front of the group.                              *)
LEMMA FrontFacts ==
    ASSUME IInv, Overlap, s1.so < s2.so, NEW g \in GroupEnds(styles, node),
           NEW front, front = new_style_range(s1.style, s1.so, s2.so)
    PROVE  /\ front \in StyleRange /\ front.style = s1.style
           /\ front.so = s1.so /\ front.eo = s2.so
           /\ Block(Fronted, 0, N) /\ Lays(Fronted, styles, front)
           /\ node + 1 \in 1..Len(Fronted) /\ Fronted[node + 1] = s2
           /\ g + 1 \in GroupEnds(Fronted, node + 1)
           /\ Behind(Fronted, g + 1) = Behind(styles, g)
<1>1. /\ AtNode /\ Block(styles, 0, N) /\ node \in 1..Len(styles)
      /\ s1 \in StyleRange /\ s1.so \in Nat /\ s2.so \in Nat
      /\ \A i \in 1..(node - 1) : styles[i].eo <= s1.so
      /\ s2.so <= s2.eo /\ s2.eo <= N /\ s2.eo \in Nat
  BY AtNodeFacts DEF Overlap
<1>2. /\ styles \in Seq(StyleRange) /\ Len(styles) \in Nat
      /\ node \in 1..(Len(styles) + 1)
  BY <1>1 DEF Block
<1>3. front \in StyleRange /\ front.so = s1.so /\ front.eo = s2.so
  BY <1>1 DEF new_style_range, StyleRange
<1>4. front.style = s1.style
  BY DEF new_style_range
<1>5. Fronted = InsertAt(styles, node, front) /\ Fronted = lnode_add_before(styles, node, front)
  BY DEF Fronted, lnode_add_before
<1>6. /\ Block(Fronted, 0, N) /\ node + 1 \in 1..Len(Fronted)
      /\ Fronted[node + 1] = s2 /\ g + 1 \in GroupEnds(Fronted, node + 1)
  BY <1>1, <1>3, <1>5, AddBefore DEF s2
<1>7. Lays(Fronted, styles, front)
  <2>1. \A i \in node..Len(styles) : front.eo <= styles[i].so
    BY <1>1, <1>3, FromNode
  <2> QED
    BY <2>1, <1>2, <1>3, <1>5, InsertLays
<1>8. /\ Len(Fronted) = Len(styles) + 1
      /\ \A i \in node..Len(styles) : Fronted[i + 1] = styles[i]
  <2>1. \A i \in 1..(node - 1) : Precedes(styles[i], front)
    BY <1>1, <1>3 DEF Precedes
  <2>2. \A i \in node..Len(styles) : Precedes(front, styles[i])
    BY <1>1, <1>3, FromNode DEF Precedes
  <2>3. front.so <= front.eo /\ front.eo <= N
    BY <1>1, <1>3, NAssumption
  <2> DEFINE new == InsertAt(styles, node, front)
  <2>4. /\ Len(new) = Len(styles) + 1
        /\ \A i \in node..Len(styles) : new[i + 1] = styles[i]
    BY <1>1, <1>2, <1>3, <2>1, <2>2, <2>3, InsertBlock
  <2> QED
    BY <1>5, <2>4
<1>9. Behind(Fronted, g + 1) = Behind(styles, g)
  <2>0. g \in Nat /\ g \in node..Len(styles) /\ node \in Nat
    BY <1>1, <1>2 DEF GroupEnds
  <2>1. ASSUME NEW r \in Behind(Fronted, g + 1)
        PROVE  r \in Behind(styles, g)
    <3>1. PICK i \in (g + 1 + 1)..Len(Fronted) : r = Fronted[i]
      BY <2>1 DEF Behind
    <3>2. i - 1 \in (g + 1)..Len(styles) /\ i - 1 \in node..Len(styles) /\ (i - 1) + 1 = i
      BY <1>2, <1>8, <2>0, <3>1
    <3> QED
      BY <1>8, <3>1, <3>2 DEF Behind
  <2>2. ASSUME NEW r \in Behind(styles, g)
        PROVE  r \in Behind(Fronted, g + 1)
    <3>1. PICK i \in (g + 1)..Len(styles) : r = styles[i]
      BY <2>2 DEF Behind
    <3>2. i + 1 \in (g + 1 + 1)..Len(Fronted) /\ i \in node..Len(styles)
      BY <1>2, <1>8, <2>0, <3>1
    <3>3. r = Fronted[i + 1]
      BY <1>8, <3>1, <3>2
    <3> QED
      BY <3>2, <3>3 DEF Behind
  <2> QED
    BY <2>1, <2>2
<1> QED
  BY <1>3, <1>4, <1>6, <1>7, <1>9

(* The cases that end the call.                                               *)
LEMMA ReturningShows ==
    ASSUME IInv, IInv', Ahead,
           \/ Case5 \/ Case6 \/ Before \/ Case1 \/ Case2a \/ Case2b \/ Case2c
           \/ Case3b \/ Case4a
    PROVE  layers' = layers /\ points' = points
<1>1. AtNode /\ pc = "loop"
  BY DEF Case5, Case6, Before, Case1, Case2a, Case2b, Case2c, Case3b, Case4a, Overlap, AtNode
<1>2. /\ Block(styles, 0, N)
      /\ node \in 1..Len(styles)
      /\ s1 \in StyleRange /\ s2 \in StyleRange
      /\ s1.so \in Nat /\ s1.eo \in Nat /\ s2.so \in Nat /\ s2.eo \in Nat
      /\ s2.so <= s2.eo /\ s1.so <= s1.eo
  BY <1>1, AtNodeFacts
<1>3. styles \in Seq(StyleRange) /\ Len(styles) \in Nat
  BY <1>2 DEF Block
<1>4. ASSUME NEW g \in GroupEnds(styles, node)
      PROVE  g \in 1..Len(styles) /\ (s1.eo <= s2.eo => AllAfter(styles, g, s1.eo))
  <2>1. g \in 1..Len(styles)
    BY <1>2, <1>3 DEF GroupEnds
  <2>2. s1.eo <= s2.eo => AllAfter(styles, g, s1.eo)
    BY <1>2, GroupAllAfter DEF s2
  <2> QED
    BY <2>1, <2>2
<1>5. s1.eo <= s2.so \/ (s1.eo <= s2.eo /\ s2.so < s2.eo) => NoneInside
  BY <1>1, NoneWaits
<1>6. ASSUME NEW new, Return(new), Lays(new, styles, s1), NoneInside
      PROVE  layers' = layers /\ points' = points
  BY <1>1, <1>6, ReturnShows
<1>7. CASE Case5 \/ Case1
  <2>1. PICK g \in GroupEnds(styles, node) : Return(insort_style1(styles, g, s1))
    BY <1>7 DEF Case5, Case1, g2
  <2>2. s1.eo = s2.eo
    BY <1>7 DEF Case5, Case1, Empty, SameRange
  <2>3. Lays(insort_style1(styles, g, s1), styles, s1)
    BY <1>2, <1>3, <1>4, <2>2, Insort1Lays
  <2>4. NoneInside
    <3>1. CASE Case5
      BY <3>1 DEF Case5, NoneInside
    <3>2. CASE Case1
      <4>1. s2.so < s2.eo
        BY <3>2, <1>2 DEF Case1, Overlap, Empty, SameRange
      <4> QED
        BY <4>1, <2>2, <1>2, <1>5
    <3> QED
      BY <3>1, <3>2, <1>7
  <2> QED
    BY <2>1, <2>3, <2>4, <1>6
<1>8. CASE Case6 \/ Case2a
  <2>1. PICK g \in GroupEnds(styles, node) :
            Return(insort_style2(styles, node, g, s1.eo, <<s1>>, <<>>))
    BY <1>8 DEF Case6, Case2a, g2
  <2>2. s2.so < s1.eo /\ s1.eo < s2.eo
    BY <1>2, <1>8 DEF Case6, Case2a, Overlap, Empty
  <2>3. PICK a, b, p : a = <<s1>> /\ b = <<>> /\ p = s1.eo
    OBVIOUS
  <2>4. Lays(insort_style2(styles, node, g, p, a, b), styles, s1)
    <3>1. p \in Nat /\ styles[node].so < p /\ p < styles[node].eo /\ s1.eo <= p
      BY <1>2, <2>2, <2>3 DEF s2
    <3>2. AllAfter(styles, g, s1.eo)
      BY <1>2, <1>4, <2>2
    <3> QED
      BY <3>1, <3>2, <1>2, <1>3, <2>3, Insort2Lays
  <2>5. NoneInside
    BY <1>2, <1>5, <2>2
  <2> QED
    BY <2>1, <2>3, <2>4, <2>5, <1>6
<1>9. CASE Before
  <2>1. Return(InsertAt(styles, node, s1)) /\ s1.eo <= s2.so
    BY <1>9 DEF Before, lnode_add_before
  <2>2. \A i \in node..Len(styles) : s1.eo <= styles[i].so
    BY <1>1, <1>2, <2>1, FromNode
  <2>3. node \in 1..(Len(styles) + 1)
    BY <1>2, <1>3
  <2>4. Lays(InsertAt(styles, node, s1), styles, s1)
    BY <1>2, <1>3, <2>2, <2>3, InsertLays
  <2> QED
    BY <2>1, <2>4, <1>5, <1>6
<1>10. CASE Case2b
  <2>1. PICK g \in GroupEnds(styles, node) :
            Return(insort_style2(styles, node, g, s1.so, <<>>, <<s1>>))
    BY <1>10 DEF Case2b, g2
  <2>2. s2.so < s1.so /\ s1.so < s2.eo /\ s1.eo = s2.eo
    BY <1>2, <1>10 DEF Case2b, Overlap, Empty
  <2>3. PICK a, b, p : a = <<>> /\ b = <<s1>> /\ p = s1.so
    OBVIOUS
  <2>4. Lays(insort_style2(styles, node, g, p, a, b), styles, s1)
    <3>1. p \in Nat /\ styles[node].so < p /\ p < styles[node].eo /\ p <= s1.so
      BY <1>2, <2>2, <2>3 DEF s2
    <3>2. AllAfter(styles, g, s1.eo)
      BY <1>2, <1>4, <2>2
    <3> QED
      BY <3>1, <3>2, <1>2, <1>3, <2>3, Insort2Lays
  <2>5. NoneInside
    BY <1>2, <1>5, <2>2
  <2> QED
    BY <2>1, <2>3, <2>4, <2>5, <1>6
<1>11. CASE Case2c
  <2>1. PICK g \in GroupEnds(styles, node) : Return(insort_style3(styles, node, g, s1))
    BY <1>11 DEF Case2c, g2
  <2>2. s2.so < s1.so /\ s1.so < s1.eo /\ s1.eo < s2.eo
    BY <1>2, <1>11 DEF Case2c, Overlap, Empty
  <2>3. Lays(insort_style3(styles, node, g, s1), styles, s1)
    <3>1. AllAfter(styles, g, s1.eo)
      BY <1>2, <1>4, <2>2
    <3>2. styles[node].so < s1.so /\ s1.eo < styles[node].eo
      BY <2>2 DEF s2
    <3> QED
      BY <3>1, <3>2, <2>2, <1>2, <1>3, Insort3Lays
  <2>4. NoneInside
    BY <1>2, <1>5, <2>2
  <2> QED
    BY <2>1, <2>3, <2>4, <1>6
<1>12. CASE Case3b \/ Case4a
  <2>1. Overlap /\ s1.so < s2.so /\ s2.so < s1.eo /\ s1.eo <= s2.eo
    BY <1>2, <1>12 DEF Case3b, Case4a, Overlap
  <2>2. PICK front, rest : /\ front = new_style_range(s1.style, s1.so, s2.so)
                           /\ rest = [s1 EXCEPT !.so = s2.so]
    OBVIOUS
  <2>3. rest \in StyleRange /\ rest.so = s2.so /\ rest.eo = s1.eo /\ rest.style = s1.style
    BY <1>2, <2>2, MoveStart DEF StyleRange
  <2>4. ASSUME NEW g \in GroupEnds(styles, node)
        PROVE  /\ Parts(s1, front, rest) /\ ~Empty(front) /\ ~Empty(rest)
               /\ Block(Fronted, 0, N) /\ Lays(Fronted, styles, front)
               /\ node + 1 \in 1..Len(Fronted) /\ Fronted[node + 1] = s2
               /\ g + 1 \in GroupEnds(Fronted, node + 1)
               /\ AllAfter(Fronted, g + 1, rest.eo) /\ g + 1 \in 1..Len(Fronted)
    <3>1. /\ front \in StyleRange /\ front.style = s1.style
          /\ front.so = s1.so /\ front.eo = s2.so
          /\ Block(Fronted, 0, N) /\ Lays(Fronted, styles, front)
          /\ node + 1 \in 1..Len(Fronted) /\ Fronted[node + 1] = s2
          /\ g + 1 \in GroupEnds(Fronted, node + 1)
      BY <1>1, <2>1, <2>2, FrontFacts
    <3>2. Parts(s1, front, rest) /\ ~Empty(front) /\ ~Empty(rest)
      BY <3>1, <1>2, <2>1, <2>3 DEF Parts, Empty
    <3>3. AllAfter(Fronted, g + 1, rest.eo)
      BY <3>1, <1>2, <2>1, <2>3, GroupAllAfter
    <3>4. g + 1 \in 1..Len(Fronted)
      <4>1. Len(Fronted) \in Nat
        BY <3>1 DEF Block
      <4> QED
        BY <4>1, <3>1, <1>2 DEF GroupEnds
    <3> QED
      BY <3>1, <3>2, <3>3, <3>4
  <2>5. NoneInside
    BY <1>2, <1>5, <2>1
  <2>6. ASSUME NEW g \in GroupEnds(styles, node), NEW new, Return(new), Lays(new, Fronted, rest)
        PROVE  layers' = layers /\ points' = points
    <3>1. Lays(new, styles, s1)
      BY <1>3, <2>4, <2>6, LaysBoth
    <3> QED
      BY <3>1, <2>5, <2>6, <1>6
  <2>7. CASE Case3b
    <3>1. PICK g \in GroupEnds(styles, node) : Return(insort_style1(Fronted, g + 1, rest))
      BY <2>7, <2>2 DEF Case3b, g2
    <3>2. Lays(insort_style1(Fronted, g + 1, rest), Fronted, rest)
      BY <2>3, <2>4, Insort1Lays DEF Block
    <3> QED
      BY <3>1, <3>2, <2>6
  <2>8. CASE Case4a
    <3>1. PICK g \in GroupEnds(styles, node) :
              Return(insort_style2(Fronted, node + 1, g + 1, s1.eo, <<rest>>, <<>>))
      BY <2>8, <2>2 DEF Case4a, g2
    <3>2. s1.eo < s2.eo
      BY <2>8 DEF Case4a
    <3>3. PICK f, n, h, p, a, b : /\ f = Fronted /\ n = node + 1 /\ h = g + 1
                                  /\ p = s1.eo /\ a = <<rest>> /\ b = <<>>
      OBVIOUS
    <3>4. /\ f \in Seq(StyleRange) /\ n \in 1..Len(f) /\ h \in GroupEnds(f, n)
          /\ AllAfter(f, h, rest.eo) /\ p \in Nat
          /\ f[n].so < p /\ p < f[n].eo /\ rest.eo <= p
      BY <3>2, <3>3, <1>2, <2>1, <2>3, <2>4 DEF Block
    <3>5. Lays(insort_style2(f, n, h, p, a, b), f, rest)
      BY <3>3, <3>4, <2>3, Insort2Lays
    <3> QED
      BY <3>1, <3>3, <3>5, <2>6
  <2> QED
    BY <2>7, <2>8, <1>12
<1> QED
  BY <1>7, <1>8, <1>9, <1>10, <1>11, <1>12

-----------------------------------------------------------------------------
(* The cases after which the loop goes on.  When it goes on behind the group, *)
(* what stood from the node on is the group or stands behind it.              *)
LEMMA GroupPasses ==
    ASSUME IInv, AtNode, NEW g \in GroupEnds(styles, node), NEW new, NEW last,
           Behind(new, last) = Behind(styles, g)
    PROVE  /\ Passes(new, last)
           /\ \A r \in Behind(new, last) : s2.eo <= r.so
<1>1. Block(styles, 0, N) /\ node \in 1..Len(styles)
  BY AtNodeFacts
<1>2. \A p : Stands(new, last, p) <=> Stands(styles, g, p)
  BY DEF Stands
<1>3. Passes(new, last)
  <2> SUFFICES ASSUME NEW p
               PROVE  /\ Stands(styles, node - 1, p) <=> EmptyAt(s2, p) \/ Stands(new, last, p)
                      /\ ~(EmptyAt(s2, p) /\ Stands(new, last, p))
    BY DEF Passes
  <2> QED
    BY <1>1, <1>2, GroupStands DEF s2
<1>4. \A r \in Behind(new, last) : s2.eo <= r.so
  BY <1>1, BehindGroup DEF s2
<1> QED
  BY <1>3, <1>4

(* The copy of s1 that goes on top of an empty s2 is the only point added.    *)
LEMMA CopyAdds ==
    ASSUME NEW q \in StyleRange, q.style = s1.style, NEW new,
           \A p \in Positions : EmptyAt(q, p) <=> EmptyAt(s2, p) /\ old_so < p /\ p < s1.eo,
           \A p \in Nat : \A st :
              PointsAt(new, p, st) = PointsAt(styles, p, st) + PointsAt(<<q>>, p, st)
    PROVE  Adds(new)
<1> SUFFICES ASSUME NEW p \in Positions, NEW st \in Styles
             PROVE  PointsAt(new, p, st)
                      = PointsAt(styles, p, st) + (IF Copied(p, st) THEN 1 ELSE 0)
  BY DEF Adds
<1>1. p \in Nat
  BY NAssumption DEF Positions
<1>2. PointsAt(<<q>>, p, st) = IF q.so = p /\ q.eo = p /\ q.style = st THEN 1 ELSE 0
  BY PointsOne
<1>3. Copied(p, st) <=> q.so = p /\ q.eo = p /\ q.style = st
  BY DEF Copied, EmptyAt
<1> QED
  BY <1>1, <1>2, <1>3

LEMMA GoesOn ==
    ASSUME IInv, IInv', AtNode, ~Empty(s1), NEW g \in GroupEnds(styles, node),
           NEW new, NEW last \in Int, NEW rest, Continue(new, last, rest),
           rest.style = s1.style, rest.eo = s1.eo, ~Empty(rest), rest.so = s2.eo,
           Moves(new, rest, styles, s1), Adds(new), Behind(new, last) = Behind(styles, g)
    PROVE  Ahead' /\ layers' = layers /\ points' = points
<1>1. Passes(new, last) /\ \A r \in Behind(new, last) : s2.eo <= r.so
  BY GroupPasses
<1>2. layers' = layers /\ points' = points
  BY <1>1, ContinueShows DEF AtNode
<1>3. styles' = new /\ s1' = rest /\ node' - 1 = last
  BY DEF Continue
<1>4. Ahead'
  BY <1>1, <1>3 DEF Ahead, Empty
<1> QED
  BY <1>2, <1>4

(* A node that is passed as it is.                                            *)
LEMMA SkipShows ==
    ASSUME IInv, AtNode, Continue(styles, node, s1), ~(old_so < s1.so),
           \A p \in Positions : ~(EmptyAt(s2, p) /\ old_so < p /\ p < s1.eo)
    PROVE  Ahead' /\ layers' = layers /\ points' = points
<1>1. /\ styles' = styles /\ s1' = s1 /\ old_so' = old_so /\ pc' = pc /\ node' = node + 1
  BY DEF Continue
<1>2. Ahead'
  BY <1>1 DEF Ahead
<1>3. node \in 1..Len(styles) /\ Len(styles) \in Nat
  BY AtNodeFacts DEF Block
<1>4. ASSUME NEW c \in Characters
      PROVE  layers'[c] = layers[c]
  BY <1>1 DEF layers, Pending
<1>5. ASSUME NEW p \in Positions, NEW st \in Styles
      PROVE  points'[p][st] = points[p][st]
  <2>1. \A i : i \in node..Len(styles) <=> i = node \/ i \in (node + 1)..Len(styles)
    BY <1>3
  <2>2. old_so < p /\ p < s1.eo =>
          ((\E i \in node..Len(styles) : EmptyAt(styles[i], p))
             <=> (\E i \in (node + 1)..Len(styles) : EmptyAt(styles[i], p)))
    BY <2>1 DEF s2
  <2>3. PointPending(p, st) <=> /\ pc = "loop" /\ s1.style = st
                                /\ \/ Empty(s1) /\ s1.so = p
                                   \/ /\ old_so < p /\ p < s1.eo
                                      /\ \E i \in node..Len(styles) : EmptyAt(styles[i], p)
    BY DEF PointPending, EmptyAt
  <2>4. PointPending(p, st)' <=> /\ pc = "loop" /\ s1.style = st
                                 /\ \/ Empty(s1) /\ s1.so = p
                                    \/ /\ old_so < p /\ p < s1.eo
                                       /\ \E i \in (node + 1)..Len(styles) : EmptyAt(styles[i], p)
    BY <1>1 DEF PointPending, EmptyAt
  <2>5. PointPending(p, st)' <=> PointPending(p, st)
    BY <2>2, <2>3, <2>4
  <2> QED
    BY <1>1, <2>5 DEF points
<1> QED
  BY <1>2, <1>4, <1>5, SameShown

LEMMA ContinuingShows ==
    ASSUME IInv, IInv', Ahead, Case7 \/ Case3a \/ Case3c \/ Case4b \/ Past
    PROVE  Ahead' /\ layers' = layers /\ points' = points
<1>1. AtNode /\ pc = "loop"
  BY DEF Case7, Case3a, Case3c, Case4b, Past, Overlap, AtNode
<1>2. /\ Block(styles, 0, N)
      /\ node \in 1..Len(styles)
      /\ s1 \in StyleRange /\ s2 \in StyleRange
      /\ s1.so \in Nat /\ s1.eo \in Nat /\ s2.so \in Nat /\ s2.eo \in Nat
      /\ s2.so <= s2.eo /\ s2.eo <= N
      /\ old_so \in Nat /\ old_so <= s1.so /\ s1.so <= s1.eo /\ s1.eo <= N
  BY <1>1, AtNodeFacts
<1>3. styles \in Seq(StyleRange) /\ Len(styles) \in Nat
  BY <1>2 DEF Block
<1>4. ASSUME NEW g \in GroupEnds(styles, node)
      PROVE  g \in 1..Len(styles) /\ g \in Int /\ AllAfter(styles, g, s2.eo)
  <2>1. g \in 1..Len(styles) /\ g \in Int
    BY <1>2, <1>3 DEF GroupEnds
  <2>2. AllAfter(styles, g, s2.eo)
    BY <1>2, GroupAllAfter DEF s2
  <2> QED
    BY <2>1, <2>2
<1>5. PICK copy, rest : /\ copy = new_style_range(s1.style, s2.so, s2.eo)
                        /\ rest = [s1 EXCEPT !.so = s2.eo]
  OBVIOUS
<1>6. copy \in StyleRange /\ copy.so = s2.so /\ copy.eo = s2.eo /\ copy.style = s1.style
  BY <1>2, <1>5 DEF new_style_range, StyleRange
<1>7. rest \in StyleRange /\ rest.so = s2.eo /\ rest.eo = s1.eo /\ rest.style = s1.style
  BY <1>2, <1>5, MoveStart DEF StyleRange
<1>8. \A p \in Positions : p \in Nat
  BY NAssumption DEF Positions
<1>9. CASE Case7
  <2>1. ~Empty(s1) /\ s2.eo = s1.so /\ s2.so = s1.so /\ s1.so < s1.eo
    BY <1>2, <1>9 DEF Case7, Empty
  <2>2. CASE s1.so > old_so
    <3>1. PICK g \in GroupEnds(styles, node) :
              Continue(insort_style1(styles, g, copy), g + 1, s1)
      BY <1>5, <1>9, <2>2 DEF Case7, g2
    <3>2. PICK new, last : new = insort_style1(styles, g, copy) /\ last = g + 1
      OBVIOUS
    <3>3. last \in Int /\ Continue(new, last, s1)
      BY <1>4, <3>1, <3>2
    <3>4. Lays(new, styles, copy) /\ Behind(new, last) = Behind(styles, g)
      BY <1>3, <1>4, <1>6, <3>2, Insort1Lays
    <3>5. Moves(new, s1, styles, s1)
      BY <1>3, <1>6, <2>1, <3>4, EmptyMoves DEF Empty
    <3>6. Adds(new)
      <4>1. \A p \in Positions : EmptyAt(copy, p) <=> EmptyAt(s2, p) /\ old_so < p /\ p < s1.eo
        BY <1>2, <1>6, <1>8, <2>1, <2>2 DEF EmptyAt
      <4>2. \A p \in Nat : \A st :
              PointsAt(new, p, st) = PointsAt(styles, p, st) + PointsAt(<<copy>>, p, st)
        BY <3>4 DEF Lays
      <4> QED
        BY <4>1, <4>2, <1>6, CopyAdds
    <3> QED
      BY <1>1, <2>1, <3>3, <3>4, <3>5, <3>6, GoesOn
  <2>3. CASE ~(s1.so > old_so)
    <3>1. Continue(styles, node, s1) /\ ~(old_so < s1.so)
      BY <1>2, <1>9, <2>3 DEF Case7
    <3>2. \A p \in Positions : ~(EmptyAt(s2, p) /\ old_so < p /\ p < s1.eo)
      BY <1>8, <2>1, <2>3 DEF EmptyAt
    <3> QED
      BY <3>1, <3>2, <1>1, SkipShows
  <2> QED
    BY <2>2, <2>3
<1>10. CASE Case3a
  <2>1. PICK g \in GroupEnds(styles, node) :
            Continue(insort_style1(styles, g, copy), g + 1, rest)
    BY <1>5, <1>10 DEF Case3a, g2
  <2>2. /\ ~Empty(s1) /\ ~Empty(s2) /\ s1.so = s2.so /\ s2.eo < s1.eo
        /\ s2.so < s2.eo /\ ~Empty(rest)
    BY <1>2, <1>7, <1>10 DEF Case3a, Overlap, Empty
  <2>3. PICK new, last : new = insort_style1(styles, g, copy) /\ last = g + 1
    OBVIOUS
  <2>4. last \in Int /\ Continue(new, last, rest)
    BY <1>4, <2>1, <2>3
  <2>5. Lays(new, styles, copy) /\ Behind(new, last) = Behind(styles, g)
    BY <1>3, <1>4, <1>6, <2>3, Insort1Lays
  <2>6. Moves(new, rest, styles, s1)
    <3>1. Parts(s1, copy, rest)
      BY <1>2, <1>6, <1>7, <2>2 DEF Parts
    <3> QED
      BY <3>1, <1>3, <2>5, LaysMoves
  <2>7. Adds(new)
    <3>1. \A p \in Positions : EmptyAt(copy, p) <=> EmptyAt(s2, p) /\ old_so < p /\ p < s1.eo
      BY <1>6, <2>2 DEF EmptyAt, Empty
    <3>2. \A p \in Nat : \A st :
            PointsAt(new, p, st) = PointsAt(styles, p, st) + PointsAt(<<copy>>, p, st)
      BY <2>5 DEF Lays
    <3> QED
      BY <3>1, <3>2, <1>6, CopyAdds
  <2> QED
    BY <1>1, <1>7, <2>2, <2>4, <2>5, <2>6, <2>7, GoesOn
<1>11. CASE Case3c
  <2>1. PICK g \in GroupEnds(styles, node) :
            Continue(insort_style1(Fronted, g + 1, copy), g + 2, rest)
    BY <1>5, <1>11 DEF Case3c, g2
  <2>2. /\ Overlap /\ ~Empty(s1) /\ s1.so < s2.so /\ s2.eo < s1.eo /\ ~Empty(rest)
    BY <1>2, <1>7, <1>11 DEF Case3c, Overlap, Empty
  <2>3. PICK front, mid : /\ front = new_style_range(s1.style, s1.so, s2.so)
                          /\ mid = [s1 EXCEPT !.so = s2.so]
    OBVIOUS
  <2>4. mid \in StyleRange /\ mid.so = s2.so /\ mid.eo = s1.eo /\ mid.style = s1.style
    BY <1>2, <2>3, MoveStart DEF StyleRange
  <2>5. /\ front \in StyleRange /\ front.style = s1.style
        /\ front.so = s1.so /\ front.eo = s2.so
        /\ Block(Fronted, 0, N) /\ Lays(Fronted, styles, front)
        /\ node + 1 \in 1..Len(Fronted) /\ Fronted[node + 1] = s2
        /\ g + 1 \in GroupEnds(Fronted, node + 1)
        /\ Behind(Fronted, g + 1) = Behind(styles, g)
    BY <1>1, <2>2, <2>3, FrontFacts
  <2>6. PICK f, h, new, last : /\ f = Fronted /\ h = g + 1 /\ last = h + 1
                               /\ new = insort_style1(f, h, copy)
    OBVIOUS
  <2>7. last \in Int /\ last = g + 2 /\ Continue(new, last, rest)
    BY <1>4, <2>1, <2>6
  <2>8. f \in Seq(StyleRange) /\ h \in 1..Len(f) /\ AllAfter(f, h, copy.eo)
    <3>1. f \in Seq(StyleRange) /\ Len(f) \in Nat
      BY <2>5, <2>6 DEF Block
    <3>2. h \in 1..Len(f)
      BY <3>1, <1>2, <2>5, <2>6 DEF GroupEnds
    <3>3. AllAfter(f, h, copy.eo)
      BY <1>2, <1>6, <2>5, <2>6, GroupAllAfter
    <3> QED
      BY <3>1, <3>2, <3>3
  <2>9. Lays(new, f, copy) /\ Behind(new, last) = Behind(f, h)
    BY <1>6, <2>6, <2>8, Insort1Lays
  <2>10. Moves(new, rest, styles, s1)
    <3>1. Parts(s1, front, mid) /\ Parts(mid, copy, rest)
      BY <1>2, <1>6, <1>7, <2>2, <2>4, <2>5 DEF Parts
    <3>2. Moves(f, mid, styles, s1)
      BY <3>1, <1>3, <2>5, <2>6, LaysMoves
    <3>3. Moves(new, rest, f, mid)
      BY <3>1, <2>8, <2>9, LaysMoves
    <3> QED
      BY <3>2, <3>3, MovesTwice
  <2>11. Adds(new)
    <3>1. \A p \in Positions : EmptyAt(copy, p) <=> EmptyAt(s2, p) /\ old_so < p /\ p < s1.eo
      BY <1>2, <1>6, <1>8, <2>2 DEF EmptyAt
    <3>2. ASSUME NEW p \in Nat, NEW st
          PROVE  PointsAt(new, p, st) = PointsAt(styles, p, st) + PointsAt(<<copy>>, p, st)
      <4>1. PointsAt(new, p, st) = PointsAt(f, p, st) + PointsAt(<<copy>>, p, st)
        BY <2>9 DEF Lays
      <4>2. PointsAt(f, p, st) = PointsAt(styles, p, st) + PointsAt(<<front>>, p, st)
        BY <2>5, <2>6 DEF Lays
      <4>3. PointsAt(<<front>>, p, st) = 0
        <5>1. ~(front.so = p /\ front.eo = p)
          BY <1>2, <2>2, <2>5
        <5> QED
          BY <5>1, <2>5, PointsOne
      <4>4. PointsAt(styles, p, st) \in Nat
        BY <1>3, PointsAre
      <4> QED
        BY <4>1, <4>2, <4>3, <4>4
    <3> QED
      BY <3>1, <3>2, <1>6, CopyAdds
  <2>12. Behind(new, last) = Behind(styles, g)
    BY <2>5, <2>6, <2>9
  <2> QED
    BY <1>1, <1>7, <2>2, <2>7, <2>10, <2>11, <2>12, GoesOn
<1>12. CASE Case4b
  <2>1. PICK b, one, none, p2 : /\ b = new_style_range(s1.style, s1.so, s2.eo)
                                /\ one = <<b>> /\ none = <<>> /\ p2 = s1.so
    OBVIOUS
  <2>2. PICK g \in GroupEnds(styles, node) :
            Continue(insort_style2(styles, node, g, p2, none, one),
                     g + (g - node) + 2, rest)
    BY <1>5, <1>12, <2>1 DEF Case4b, g2
  <2>3. b \in StyleRange /\ b.so = s1.so /\ b.eo = s2.eo /\ b.style = s1.style
    BY <1>2, <2>1 DEF new_style_range, StyleRange
  <2>4. /\ ~Empty(s1) /\ ~Empty(rest) /\ s2.so < s1.so /\ s1.so < s2.eo /\ s2.eo < s1.eo
    BY <1>2, <1>7, <1>12 DEF Case4b, Overlap, Empty
  <2>5. PICK new, last : /\ new = insort_style2(styles, node, g, p2, none, one)
                         /\ last = g + (g - node) + 2
    OBVIOUS
  <2>6. last \in Int /\ Continue(new, last, rest)
    BY <1>2, <1>4, <2>2, <2>5
  <2>7. Lays(new, styles, b) /\ Behind(new, last) = Behind(styles, g)
    <3>1. p2 \in Nat /\ styles[node].so < p2 /\ p2 < styles[node].eo /\ p2 <= b.so
      BY <1>2, <2>1, <2>3, <2>4 DEF s2
    <3>2. AllAfter(styles, g, b.eo)
      BY <1>4, <2>3
    <3>3. none = <<>> /\ one = <<b>>
      BY <2>1
    <3> QED
      BY <3>1, <3>2, <3>3, <1>2, <1>3, <2>3, <2>5, Insort2Lays
  <2>8. Moves(new, rest, styles, s1)
    <3>1. Parts(s1, b, rest)
      BY <1>2, <1>7, <2>3, <2>4 DEF Parts
    <3> QED
      BY <3>1, <1>3, <2>7, LaysMoves
  <2>9. Adds(new)
    <3>1. \A p \in Positions : EmptyAt(b, p) <=> EmptyAt(s2, p) /\ old_so < p /\ p < s1.eo
      BY <1>2, <1>8, <2>3, <2>4 DEF EmptyAt
    <3>2. \A p \in Nat : \A st :
            PointsAt(new, p, st) = PointsAt(styles, p, st) + PointsAt(<<b>>, p, st)
      BY <2>7 DEF Lays
    <3> QED
      BY <3>1, <3>2, <2>3, CopyAdds
  <2> QED
    BY <1>1, <1>7, <2>4, <2>6, <2>7, <2>8, <2>9, GoesOn
<1>13. CASE Past
  <2>1. Continue(styles, node, s1) /\ s2.eo <= s1.so /\ s2.so < s1.so
    BY <1>13 DEF Past
  <2>2. ~(old_so < s1.so)
    <3>1. node \in (node - 1 + 1)..Len(styles)
      BY <1>2, <1>3
    <3>2. s2 \in Behind(styles, node - 1)
      BY <3>1 DEF Behind, s2
    <3> QED
      BY <3>2, <1>1, <1>2, <2>1 DEF Ahead
  <2>3. \A p \in Positions : ~(EmptyAt(s2, p) /\ old_so < p /\ p < s1.eo)
    BY <1>2, <1>8, <2>1, <2>2 DEF EmptyAt
  <2> QED
    BY <2>1, <2>2, <2>3, <1>1, SkipShows
<1> QED
  BY <1>9, <1>10, <1>11, <1>12, <1>13

(* The rest of s1 put at the end of the list.                                 *)
LEMMA AppendShows ==
    ASSUME IInv, IInv', Ahead, AppendRest
    PROVE  layers' = layers /\ points' = points
<1>1. pc = "loop" /\ node > Len(styles) /\ Return(Append(styles, s1))
  BY DEF AppendRest
<1>2. /\ styles \in Seq(StyleRange) /\ Len(styles) \in Nat
      /\ s1 \in StyleRange /\ node \in Nat
  BY <1>1 DEF IInv, TypeOK, NothingLeftBehind
<1>3. NoneInside
  <2>1. (node - 1 + 1)..Len(styles) = {}
    BY <1>1, <1>2
  <2> QED
    BY <2>1 DEF NoneInside, Stands, Behind
<1>4. PICK one, new : one = <<s1>> /\ new = Append(styles, s1)
  OBVIOUS
<1>5. Joins(new, styles, one)
  <2>1. new \in Seq(StyleRange) /\ one \in Seq(StyleRange)
    BY <1>2, <1>4
  <2>2. new = styles \o one
    BY <1>2, <1>4, AppendIsConcat
  <2> QED
    BY <2>1, <2>2, <1>2 DEF Joins
<1>6. Lays(new, styles, s1)
  <2> SUFFICES ASSUME NEW c \in Nat
               PROVE  /\ StylesAt(new, c) = StylesAt(styles, c) \o StylesAt(<<s1>>, c)
                      /\ \A st : PointsAt(new, c, st)
                                   = PointsAt(styles, c, st) + PointsAt(<<s1>>, c, st)
    BY DEF Lays
  <2>1. IsPut(StylesAt(new, c), StylesAt(styles, c), StylesAt(one, c))
    BY <1>5, JoinStyles
  <2>2. \A st : PointsAt(new, c, st) = PointsAt(styles, c, st) + PointsAt(one, c, st)
    BY <1>5, JoinPoints
  <2> QED
    BY <2>1, <2>2, <1>4 DEF IsPut
<1> QED
  BY <1>1, <1>3, <1>4, <1>6, ReturnShows

-----------------------------------------------------------------------------
(* Between the calls nothing is pending.                                      *)
LEMMA IdlePoints ==
    ASSUME IInv, pc = "idle", NEW p \in Positions
    PROVE  /\ \A st \in Styles : /\ points[p][st] = PointsAt(styles, p, st)
                                 /\ points[p][st] \in Nat
           /\ Layers!Tagged(p) <=> \E i \in 1..Len(styles) : EmptyAt(styles[i], p)
<1>1. styles \in Seq(StyleRange)
  BY DEF IInv, TypeOK
<1>2. ASSUME NEW st \in Styles
      PROVE  points[p][st] = PointsAt(styles, p, st) /\ points[p][st] \in Nat
  <2>1. PointsAt(styles, p, st) \in Nat
    BY <1>1, PointsAre
  <2>2. ~PointPending(p, st)
    BY DEF PointPending
  <2> QED
    BY <2>1, <2>2 DEF points
<1>3. \A i \in 1..Len(styles) : styles[i].style \in Styles
  BY <1>1, ElementEnds DEF StyleRange
<1>4. \A st : PointsAt(styles, p, st) > 0
                <=> \E i \in 1..Len(styles) :
                       styles[i].so = p /\ styles[i].eo = p /\ styles[i].style = st
  BY <1>1, PointsSome
<1>5. Layers!Tagged(p) <=> \E st \in Styles : PointsAt(styles, p, st) > 0
  BY <1>2 DEF Layers!Tagged
<1> QED
  BY <1>2, <1>3, <1>4, <1>5 DEF EmptyAt

(* What the call begins with: the whole range is still to be laid.            *)
Added(st, so, eo) ==
    /\ \A c \in Characters :
         layers'[c] = IF so <= c /\ c < eo THEN layers[c] \o <<st>> ELSE layers[c]
    /\ \A p \in Positions, x \in Styles :
         points'[p][x]
           = points[p][x] + (IF /\ x = st
                                /\ \/ so = eo /\ so = p
                                   \/ so < p /\ p < eo /\ Layers!Tagged(p)
                             THEN 1 ELSE 0)

LEMMA CallAdds ==
    ASSUME IInv, IInv', NEW st \in Styles, NEW so \in Positions, NEW eo \in Positions,
           so <= eo, Call(st, so, eo)
    PROVE  Added(st, so, eo)
<1>1. /\ pc = "idle" /\ pc' = "loop" /\ old_so' = so /\ node' = 1 /\ styles' = styles
      /\ s1'.style = st /\ s1'.so = so /\ s1'.eo = eo /\ s1' \in StyleRange
  BY DEF Call, new_style_range, IInv, NothingLeftBehind
<1>2. so \in Nat /\ eo \in Nat /\ \A p \in Positions : p \in Nat
  BY NAssumption DEF Positions
<1>3. \A c \in Characters : c \in Nat
  BY NAssumption DEF Characters
<1>4. styles \in Seq(StyleRange)
  BY DEF IInv, TypeOK
<1>5. ASSUME NEW c \in Characters
      PROVE  layers'[c] = IF so <= c /\ c < eo THEN layers[c] \o <<st>> ELSE layers[c]
  <2>1. layers[c] = StylesAt(styles, c)
    BY <1>1, LayersNow DEF LayersShow
  <2>2. layers'[c] = StylesAt(styles, c) \o StylesAt(<<s1'>>, c)
    BY <1>1, LayersNext DEF LayersShow
  <2>3. StylesAt(<<s1'>>, c) = IF so <= c /\ c < eo THEN <<st>> ELSE <<>>
    BY <1>1, StylesOne DEF Covers
  <2>4. StylesAt(styles, c) \o <<>> = StylesAt(styles, c)
    BY <1>4, StylesAre, ConcatEmptySeq
  <2> QED
    BY <2>1, <2>2, <2>3, <2>4
<1>6. ASSUME NEW p \in Positions, NEW x \in Styles
      PROVE  points'[p][x]
               = points[p][x] + (IF /\ x = st
                                    /\ \/ so = eo /\ so = p
                                       \/ so < p /\ p < eo /\ Layers!Tagged(p)
                                 THEN 1 ELSE 0)
  <2>1. points[p][x] = PointsAt(styles, p, x) /\ points[p][x] \in Nat
    BY <1>1, IdlePoints
  <2>2. Layers!Tagged(p) <=> \E i \in 1..Len(styles) : EmptyAt(styles[i], p)
    BY <1>1, IdlePoints
  <2>3. PointPending(p, x)' <=> /\ x = st
                                /\ \/ so = eo /\ so = p
                                   \/ so < p /\ p < eo /\ Layers!Tagged(p)
    BY <1>1, <2>2 DEF PointPending, EmptyAt, Empty
  <2>4. points'[p][x] = PointsAt(styles, p, x) + (IF PointPending(p, x)' THEN 1 ELSE 0)
    BY <1>1 DEF points
  <2> QED
    BY <2>1, <2>3, <2>4
<1> QED
  BY <1>5, <1>6 DEF Added

LEMMA CallShows ==
    ASSUME IInv, IInv', NEW st \in Styles, NEW so \in Positions, NEW eo \in Positions,
           so <= eo, Call(st, so, eo)
    PROVE  Layers!Cover(st, so, eo) \/ Layers!Stand(st, so)
<1>1. pc = "idle"
  BY DEF Call
<1>2. so \in Nat /\ eo \in Nat /\ \A p \in Positions : p \in Nat
  BY NAssumption DEF Positions
<1>3. \A c \in Characters : c \in Nat
  BY NAssumption DEF Characters
<1>4. styles \in Seq(StyleRange)
  BY DEF IInv, TypeOK
<1>5. ASSUME NEW c \in Characters
      PROVE  layers'[c] = IF so <= c /\ c < eo THEN layers[c] \o <<st>> ELSE layers[c]
  BY CallAdds DEF Added
<1>6. ASSUME NEW p \in Positions, NEW x \in Styles
      PROVE  points'[p][x]
               = points[p][x] + (IF /\ x = st
                                    /\ \/ so = eo /\ so = p
                                       \/ so < p /\ p < eo /\ Layers!Tagged(p)
                                 THEN 1 ELSE 0)
  <2>1. Added(st, so, eo)
    BY CallAdds
  <2> QED
    BY <2>1, Zenon DEF Added
<1>7. CASE so = eo
  <2>1. layers' = layers
    <3>1. layers = [c \in Characters |-> layers[c]]
      BY DEF layers
    <3>2. \A c \in Characters : layers'[c] = layers[c]
      BY <1>2, <1>3, <1>5, <1>7
    <3> QED
      BY <3>1, <3>2, LayersBecome
  <2>2. points' = Layers!AddPoint(st, {so})
    <3> DEFINE f == Layers!AddPoint(st, {so})
    <3>1. f = [p \in Positions |-> IF p \in {so} THEN [points[p] EXCEPT ![st] = @ + 1]
                                               ELSE points[p]]
      BY DEF Layers!AddPoint, Positions, Layers!Positions
    <3> HIDE DEF f
    <3>2. \A p \in Positions : points[p] = [x \in Styles |-> points[p][x]]
      BY DEF points
    <3>3. f = [p \in Positions |-> f[p]]
      BY <3>1
    <3>4. ASSUME NEW p \in Positions
          PROVE  f[p] = [x \in Styles |-> f[p][x]]
      BY <3>1, <3>2
    <3>5. ASSUME NEW p \in Positions, NEW x \in Styles
          PROVE  points'[p][x] = f[p][x]
      <4>1. f[p][x] = IF p = so /\ x = st THEN points[p][x] + 1 ELSE points[p][x]
        BY <3>1, <3>2
      <4>2. points[p][x] \in Nat
        BY <1>1, IdlePoints
      <4>3. ~(so < p /\ p < eo)
        BY <1>2, <1>7
      <4> QED
        BY <4>1, <4>2, <4>3, <1>6, <1>7
    <3>6. points' = f
      BY <3>3, <3>4, <3>5, PointsBecome
    <3> QED
      BY <3>6 DEF f
  <2> QED
    BY <2>1, <2>2 DEF Layers!Stand
<1>8. CASE so < eo
  <2>1. layers' = [c \in Layers!Characters |->
                     IF c \in so..(eo - 1) THEN Append(layers[c], st) ELSE layers[c]]
    <3> DEFINE f == [c \in Characters |->
                       IF c \in so..(eo - 1) THEN Append(layers[c], st) ELSE layers[c]]
    <3>1. f = [c \in Characters |-> f[c]]
      OBVIOUS
    <3>2. ASSUME NEW c \in Characters
          PROVE  layers'[c] = f[c]
      <4>1. c \in so..(eo - 1) <=> so <= c /\ c < eo
        BY <1>2, <1>3
      <4>2. layers[c] \in Seq(Styles)
        <5>1. layers[c] = StylesAt(styles, c)
          BY <1>1, LayersNow DEF LayersShow
        <5> QED
          BY <5>1, <1>4, StylesAre
      <4>3. Append(layers[c], st) = layers[c] \o <<st>>
        BY <4>2, AppendIsConcat
      <4> QED
        BY <4>1, <4>3, <1>5
    <3> HIDE DEF f
    <3>3. layers' = f
      BY <3>1, <3>2, LayersBecome
    <3> QED
      BY <3>3 DEF f, Characters, Layers!Characters
  <2>2. points' = Layers!AddPoint(st, {p \in (so + 1)..(eo - 1) : Layers!Tagged(p)})
    <3> DEFINE P == {p \in (so + 1)..(eo - 1) : Layers!Tagged(p)}
               f == Layers!AddPoint(st, P)
    <3>1. f = [p \in Positions |-> IF p \in P THEN [points[p] EXCEPT ![st] = @ + 1]
                                            ELSE points[p]]
      BY DEF Layers!AddPoint, Positions, Layers!Positions
    <3>2. \A p \in Positions : p \in P <=> so < p /\ p < eo /\ Layers!Tagged(p)
      BY <1>2
    <3> HIDE DEF f, P
    <3>3. \A p \in Positions : points[p] = [x \in Styles |-> points[p][x]]
      BY DEF points
    <3>4. f = [p \in Positions |-> f[p]]
      BY <3>1
    <3>5. ASSUME NEW p \in Positions
          PROVE  f[p] = [x \in Styles |-> f[p][x]]
      BY <3>1, <3>3
    <3>6. ASSUME NEW p \in Positions, NEW x \in Styles
          PROVE  points'[p][x] = f[p][x]
      <4>1. f[p][x] = IF p \in P /\ x = st THEN points[p][x] + 1 ELSE points[p][x]
        BY <3>1, <3>3
      <4>2. points[p][x] \in Nat
        BY <1>1, IdlePoints
      <4>3. p \in P <=> so < p /\ p < eo /\ Layers!Tagged(p)
        BY <3>2
      <4>4. so # eo
        BY <1>2, <1>8
      <4> QED
        BY <4>1, <4>2, <4>3, <4>4, <1>6
    <3>7. points' = f
      BY <3>4, <3>5, <3>6, PointsBecome
    <3> QED
      BY <3>7 DEF f, P
  <2> QED
    BY <2>1, <2>2, <1>8 DEF Layers!Cover
<1> QED
  BY <1>2, <1>7, <1>8

(* The empty list shows nothing.                                              *)
LEMMA NothingShown ==
    ASSUME styles = <<>>, pc = "idle"
    PROVE  /\ layers = [c \in Characters |-> <<>>]
           /\ points = [p \in Positions |-> [st \in Styles |-> 0]]
<1>1. styles \in Seq(StyleRange) /\ \A i \in 1..Len(styles) : FALSE
  OBVIOUS
<1>2. ASSUME NEW c
      PROVE  StylesAt(styles, c) = <<>>
  BY <1>1, StylesNone
<1>3. ASSUME NEW p, NEW st
      PROVE  PointsAt(styles, p, st) = 0
  BY <1>1, PointsNone
<1>4. /\ \A c : ~Pending(c)
      /\ \A p, st : ~PointPending(p, st)
  BY DEF Pending, PointPending
<1>5. <<>> \o <<>> = <<>>
  OBVIOUS
<1>6. layers = [c \in Characters |-> <<>>]
  <2>1. \A c : StylesAt(styles, c) \o (IF Pending(c) THEN <<s1.style>> ELSE <<>>) = <<>>
    BY <1>2, <1>4, <1>5
  <2> QED
    BY <2>1 DEF layers
<1>7. points = [p \in Positions |-> [st \in Styles |-> 0]]
  <2>1. \A p, st : PointsAt(styles, p, st) + (IF PointPending(p, st) THEN 1 ELSE 0) = 0
    BY <1>3, <1>4
  <2> QED
    BY <2>1 DEF points
<1> QED
  BY <1>6, <1>7

LEMMA NothingShownNext ==
    ASSUME styles' = <<>>, pc' = "idle"
    PROVE  /\ layers' = [c \in Characters |-> <<>>]
           /\ points' = [p \in Positions |-> [st \in Styles |-> 0]]
<1>1. (styles = <<>> /\ pc = "idle" =>
         /\ layers = [c \in Characters |-> <<>>]
         /\ points = [p \in Positions |-> [st \in Styles |-> 0]])'
  BY NothingShown, PTL
<1> QED
  BY <1>1 DEF Characters, Positions

LEMMA NextLays ==
    ASSUME IInv, IInv', Ahead, Next
    PROVE  Ahead' /\ [Layers!Next]_(Layers!vars)
<1>1. ASSUME layers' = layers /\ points' = points
      PROVE  UNCHANGED Layers!vars
  BY <1>1 DEF Layers!vars
<1>2. pc' = "idle" => Ahead'
  BY DEF Ahead
<1>3. ASSUME NEW st \in Styles, NEW so \in Positions, NEW eo \in Positions,
             so <= eo, Call(st, so, eo)
      PROVE  Ahead' /\ Layers!Next
  <2>1. Layers!Cover(st, so, eo) \/ Layers!Stand(st, so)
    BY <1>3, CallShows
  <2>2. old_so' = so /\ s1'.so = so
    BY <1>3 DEF Call, new_style_range
  <2>3. ~(so < so)
    BY NAssumption DEF Positions
  <2>4. Ahead'
    BY <2>2, <2>3 DEF Ahead
  <2> QED
    BY <2>1, <2>4 DEF Layers!Next, Layers!Positions, Positions
<1>4. CASE \/ Case5 \/ Case6 \/ Before \/ Case1 \/ Case2a \/ Case2b \/ Case2c
           \/ Case3b \/ Case4a
  <2>1. layers' = layers /\ points' = points
    BY <1>4, ReturningShows
  <2>2. pc' = "idle"
    BY <1>4 DEF Case5, Case6, Before, Case1, Case2a, Case2b, Case2c, Case3b, Case4a, Return
  <2> QED
    BY <2>1, <2>2, <1>1, <1>2
<1>5. CASE Case7 \/ Case3a \/ Case3c \/ Case4b \/ Past
  BY <1>1, <1>5, ContinuingShows
<1>6. CASE AppendRest
  <2>1. layers' = layers /\ points' = points
    BY <1>6, AppendShows
  <2>2. pc' = "idle"
    BY <1>6 DEF AppendRest, Return
  <2> QED
    BY <2>1, <2>2, <1>1, <1>2
<1>7. CASE Clear
  <2>1. styles' = <<>> /\ pc' = "idle"
    BY <1>7 DEF Clear, locals
  <2>2. /\ layers' = [c \in Characters |-> <<>>]
        /\ points' = [p \in Positions |-> [st \in Styles |-> 0]]
    BY <2>1, NothingShownNext
  <2> QED
    BY <2>1, <2>2, <1>2 DEF Layers!Next, Layers!Clear, Layers!Characters, Characters,
                            Layers!Positions, Positions
<1> QED
  BY <1>3, <1>4, <1>5, <1>6, <1>7 DEF Next, Step

(* insert_style lays a style on top of what is there, over the characters of *)
(* its range and no other, however it has to cut the ranges: for every text  *)
(* length, every set of styles and every sequence of calls, the list is a    *)
(* representation of StyleLayers, each call one step of it.                  *)
THEOREM ImplementsLayers == Spec => LaysStyles
<1>1. Init => Ahead /\ Layers!Init
  <2> SUFFICES ASSUME Init
               PROVE  Ahead /\ Layers!Init
    OBVIOUS
  <2>1. Ahead
    BY DEF Init, Ahead
  <2>2. Layers!Init
    BY NothingShown DEF Init, Layers!Init, Layers!Characters, Characters,
                        Layers!Positions, Positions
  <2> QED
    BY <2>1, <2>2
<1>2. IInv /\ IInv' /\ Ahead /\ [Next]_vars => Ahead' /\ [Layers!Next]_(Layers!vars)
  <2>1. CASE Next
    BY <2>1, NextLays
  <2>2. CASE UNCHANGED vars
    <3>1. UNCHANGED Layers!vars
      BY <2>2 DEF vars, Layers!vars, layers, points, Pending, PointPending
    <3> QED
      BY <3>1, <2>2 DEF vars, Ahead
  <2> QED
    BY <2>1, <2>2
<1> QED
  BY <1>1, <1>2, Inductive, PTL DEF Spec, LaysStyles, Layers!Spec
-----------------------------------------------------------------------------
(* For those who call insert_style: what a step shows, and what it shows of  *)
(* the ranges that nothing is shown behind some position.                    *)
LEMMA StepShows ==
    ASSUME IInv, Ahead, Step
    PROVE  IInv' /\ Ahead' /\ layers' = layers /\ points' = points
<1>1. IInv'
  BY NextInv DEF Next
<1>2. CASE \/ Case5 \/ Case6 \/ Before \/ Case1 \/ Case2a \/ Case2b \/ Case2c
           \/ Case3b \/ Case4a
  <2>1. layers' = layers /\ points' = points
    BY <1>1, <1>2, ReturningShows
  <2>2. pc' = "idle"
    BY <1>2 DEF Case5, Case6, Before, Case1, Case2a, Case2b, Case2c, Case3b, Case4a, Return
  <2> QED
    BY <1>1, <2>1, <2>2 DEF Ahead
<1>3. CASE Case7 \/ Case3a \/ Case3c \/ Case4b \/ Past
  BY <1>1, <1>3, ContinuingShows
<1>4. CASE AppendRest
  <2>1. layers' = layers /\ points' = points
    BY <1>1, <1>4, AppendShows
  <2>2. pc' = "idle"
    BY <1>4 DEF AppendRest, Return
  <2> QED
    BY <1>1, <2>1, <2>2 DEF Ahead
<1> QED
  BY <1>2, <1>3, <1>4 DEF Step

LEMMA CallAhead ==
    ASSUME NEW st, NEW so \in Positions, NEW eo, Call(st, so, eo)
    PROVE  Ahead'
<1>1. old_so' = so /\ s1'.so = so
  BY DEF Call, new_style_range
<1>2. ~(so < so)
  BY NAssumption DEF Positions
<1> QED
  BY <1>1, <1>2 DEF Ahead

LEMMA StylesSome ==
    ASSUME NEW s \in Seq(StyleRange), NEW c, NEW i \in 1..Len(s), Covers(s[i], c)
    PROVE  StylesAt(s, c) # <<>>
<1> DEFINE w == Worn(s, c)
<1>1. w \in Seq(Seq(Styles)) /\ Len(w) = Len(s) /\ w[i] = <<s[i].style>>
  BY WornType
<1>2. s[i].style \in Styles /\ Len(s) \in Nat
  <2>1. s[i] \in StyleRange
    OBVIOUS
  <2> QED
    BY <2>1 DEF StyleRange
<1> HIDE DEF w
<1>3. i - 1 \in Nat /\ i - 1 < Len(w) /\ (i - 1) + 1 = i /\ i \in 0..Len(w)
  BY <1>1, <1>2
<1>4. FlattenSeq(SubSeq(w, 1, i)) = FlattenSeq(SubSeq(w, 1, i - 1)) \o w[i]
  <2>1. FlattenSeq(SubSeq(w, 1, (i - 1) + 1)) = FlattenSeq(SubSeq(w, 1, i - 1)) \o w[(i - 1) + 1]
    BY <1>1, <1>3, FlattenPart
  <2> QED
    BY <1>3, <2>1
<1>5. PICK rest \in Seq(Styles) : FlattenSeq(w) = FlattenSeq(SubSeq(w, 1, i)) \o rest
  BY <1>1, <1>3, FlattenBegins
<1>6. FlattenSeq(SubSeq(w, 1, i - 1)) \in Seq(Styles)
  <2>1. SubSeq(w, 1, i - 1) \in Seq(Seq(Styles))
    BY <1>1, <1>3
  <2> QED
    BY <2>1, FlattenType
<1>7. PICK x \in Seq(Styles), y \in Seq(Styles) :
        x = FlattenSeq(SubSeq(w, 1, i - 1)) /\ y = <<s[i].style>>
  <2>1. <<s[i].style>> \in Seq(Styles)
    BY <1>2
  <2> QED
    BY <1>6, <2>1
<1>8. Len(y) = 1 /\ FlattenSeq(w) = (x \o y) \o rest
  BY <1>1, <1>4, <1>5, <1>7
<1>9. x \o y \in Seq(Styles) /\ Len(x \o y) >= 1
  BY <1>7, <1>8, ConcatProperties
<1>10. Len((x \o y) \o rest) >= 1
  <2>1. Len((x \o y) \o rest) = Len(x \o y) + Len(rest) /\ Len(rest) \in Nat /\ Len(x \o y) \in Nat
    BY <1>9, ConcatProperties
  <2> QED
    BY <1>9, <2>1
<1>11. FlattenSeq(w) # <<>>
  BY <1>8, <1>10
<1> QED
  BY <1>11, StylesAre DEF w

(* Nothing is shown from position len on.                                     *)
ShowsWithin(len) ==
    /\ \A c \in Characters : c >= len => layers[c] = <<>>
    /\ \A p \in Positions : p > len => ~Layers!Tagged(p)

LEMMA RangesWithin ==
    ASSUME IInv, pc = "idle", NEW len \in 0..N
    PROVE  ShowsWithin(len) <=> \A i \in 1..Len(styles) : styles[i].eo <= len
<1>1. styles \in Seq(StyleRange) /\ \A c \in Characters : layers[c] = StylesAt(styles, c)
  BY LayersNow DEF IInv, TypeOK, LayersShow
<1>2. \A i \in 1..Len(styles) :
        /\ styles[i].so \in Nat /\ styles[i].eo \in Nat
        /\ styles[i].so <= styles[i].eo /\ styles[i].eo <= N
  <2> SUFFICES ASSUME NEW i \in 1..Len(styles)
               PROVE  /\ styles[i].so \in Nat /\ styles[i].eo \in Nat
                      /\ styles[i].so <= styles[i].eo /\ styles[i].eo <= N
    OBVIOUS
  <2>1. styles[i] \in StyleRange
    BY <1>1
  <2> QED
    BY <2>1 DEF IInv, SortedDisjoint, Ordered, StyleRange
<1>3. \A p \in Positions :
        Layers!Tagged(p) <=> \E i \in 1..Len(styles) : EmptyAt(styles[i], p)
  BY IdlePoints
<1>4. len \in Nat /\ N \in Nat
  BY NAssumption
<1>5. ASSUME ShowsWithin(len), NEW i \in 1..Len(styles) PROVE styles[i].eo <= len
  <2> SUFFICES ASSUME styles[i].eo > len PROVE FALSE
    BY <1>2, <1>4
  <2>1. CASE styles[i].so = styles[i].eo
    <3>1. styles[i].eo \in Positions
      BY <1>2, <1>4 DEF Positions
    <3>2. EmptyAt(styles[i], styles[i].eo)
      BY <2>1 DEF EmptyAt
    <3> QED
      BY <1>3, <1>5, <3>1, <3>2 DEF ShowsWithin
  <2>2. CASE styles[i].so < styles[i].eo
    <3> DEFINE c == styles[i].eo - 1
    <3>1. c \in Characters /\ c >= len /\ styles[i].so <= c /\ c < styles[i].eo
      BY <1>2, <1>4, <2>2 DEF Characters
    <3> HIDE DEF c
    <3>2. Covers(styles[i], c)
      BY <3>1 DEF Covers
    <3>3. StylesAt(styles, c) # <<>>
      BY <1>1, <3>2, StylesSome
    <3> QED
      BY <1>1, <1>5, <3>1, <3>3 DEF ShowsWithin
  <2> QED
    BY <1>2, <2>1, <2>2
<1>6. ASSUME \A i \in 1..Len(styles) : styles[i].eo <= len PROVE ShowsWithin(len)
  <2>1. ASSUME NEW c \in Characters, c >= len PROVE layers[c] = <<>>
    <3>1. \A i \in 1..Len(styles) : ~Covers(styles[i], c)
      BY <1>2, <1>4, <1>6, <2>1 DEF Covers, Characters
    <3> QED
      BY <1>1, <3>1, StylesNone
  <2>2. ASSUME NEW p \in Positions, p > len PROVE ~Layers!Tagged(p)
    <3>1. \A i \in 1..Len(styles) : ~EmptyAt(styles[i], p)
      BY <1>2, <1>4, <1>6, <2>2 DEF EmptyAt, Positions
    <3> QED
      BY <1>3, <3>1
  <2> QED
    BY <2>1, <2>2 DEF ShowsWithin
<1> QED
  BY <1>5, <1>6

LEMMA CallWithin ==
    ASSUME IInv, IInv', pc = "idle", NEW st \in Styles, NEW so \in Positions,
           NEW eo \in Positions, so <= eo, Call(st, so, eo),
           NEW len \in 0..N, eo <= len, ShowsWithin(len)
    PROVE  ShowsWithin(len)'
<1>1. Added(st, so, eo)
  BY CallAdds
<1>2. len \in Nat /\ so \in Nat /\ eo \in Nat
  BY NAssumption DEF Positions
<1>3. ASSUME NEW c \in Characters, c >= len PROVE layers'[c] = <<>>
  <2>1. ~(c < eo)
    BY <1>2, <1>3, NAssumption DEF Characters
  <2> QED
    BY <1>1, <1>3, <2>1 DEF Added, ShowsWithin
<1>4. ASSUME NEW p \in Positions, p > len PROVE ~Layers!Tagged(p)'
  <2>1. ~(so = eo /\ so = p) /\ ~(p < eo)
    BY <1>2, <1>4, NAssumption DEF Positions
  <2>2. ~Layers!Tagged(p)
    BY <1>4 DEF ShowsWithin
  <2>3. \A x \in Styles : points'[p][x] = points[p][x] + 0
    BY <1>1, <2>1 DEF Added
  <2>4. \A x \in Styles : points[p][x] \in Nat
    BY IdlePoints
  <2>5. \A x \in Styles : points'[p][x] = points[p][x]
    BY <2>3, <2>4
  <2> QED
    BY <2>2, <2>5 DEF Layers!Tagged
<1> QED
  BY <1>3, <1>4 DEF ShowsWithin, Characters, Positions

LEMMA StutterShows ==
    ASSUME UNCHANGED vars
    PROVE  layers' = layers /\ points' = points
<1>1. styles' = styles /\ s1' = s1 /\ old_so' = old_so /\ node' = node /\ pc' = pc
  BY DEF vars
<1>2. ASSUME NEW c \in Characters PROVE layers'[c] = layers[c]
  <2>1. Pending(c)' <=> Pending(c)
    BY <1>1 DEF Pending, Covers
  <2>2. layers'[c] = StylesAt(styles', c) \o (IF Pending(c)' THEN <<s1'.style>> ELSE <<>>)
    BY <1>2 DEF layers
  <2>3. layers[c] = StylesAt(styles, c) \o (IF Pending(c) THEN <<s1.style>> ELSE <<>>)
    BY <1>2 DEF layers
  <2> QED
    BY <1>1, <2>1, <2>2, <2>3
<1>3. ASSUME NEW p \in Positions, NEW st \in Styles PROVE points'[p][st] = points[p][st]
  <2>1. PointPending(p, st)' <=> PointPending(p, st)
    BY <1>1 DEF PointPending, Empty
  <2>2. points'[p][st] = PointsAt(styles', p, st) + (IF PointPending(p, st)' THEN 1 ELSE 0)
    BY <1>3 DEF points
  <2>3. points[p][st] = PointsAt(styles, p, st) + (IF PointPending(p, st) THEN 1 ELSE 0)
    BY <1>3 DEF points
  <2> QED
    BY <1>1, <2>1, <2>2, <2>3
<1> QED
  BY <1>2, <1>3, SameShown

(* RangesWithin, of the list a step leaves.                                  *)
EndsShow ==
    \A len \in 0..N : ShowsWithin(len) <=> \A i \in 1..Len(styles) : styles[i].eo <= len

LEMMA EndsShowNext == IInv' /\ pc' = "idle" => EndsShow'
<1>1. IInv /\ pc = "idle" => EndsShow
  BY RangesWithin DEF EndsShow
<1>2. (IInv /\ pc = "idle" => EndsShow)'
  BY <1>1, PTL
<1> QED
  BY <1>2

(* Two lists of the same styles show the same, if the ranges that cover c in  *)
(* one cover d in the other.                                                 *)
LEMMA StylesSame ==
    ASSUME NEW s, NEW t, NEW c, NEW d, Len(t) = Len(s),
           \A i \in 1..Len(s) :
              t[i].style = s[i].style /\ (Covers(t[i], d) <=> Covers(s[i], c))
    PROVE  StylesAt(t, d) = StylesAt(s, c)
<1>1. Worn(t, d) = Worn(s, c)
  BY DEF Worn
<1>2. StylesAt(t, d) = FlattenSeq(Worn(t, d)) /\ StylesAt(s, c) = FlattenSeq(Worn(s, c))
  BY DEF StylesAt, Worn
<1> QED
  BY <1>1, <1>2
==============================================================================
