----------------------------- MODULE LList_proofs -----------------------------
(***************************************************************************)
(* Proofs about the linked list (LList): whatever calls are made, in       *)
(* whatever order, for any memory and any data, the nodes are the chain of *)
(* a sequence of nodes, and the list implements a sequence of values with  *)
(* an iterator (CursorList).                                               *)
(*                                                                         *)
(* The sequence of nodes is not in the state of the code.  It is the       *)
(* witness the invariant speaks of: every call that puts a node in or takes *)
(* one out does so to the witness at one index.                            *)
(***************************************************************************)
EXTENDS LList, Inductions, SequenceTheorems

(* What is at index i of the first m places of s.                            *)
At(s, m, i) == IF i \in 1..m THEN s[i] ELSE NULL

(* The nodes w hold the values v, and are chained in both directions.        *)
Linked(w, v, m, mem, fst, lst) ==
    /\ m \in Nat /\ w \in [1..m -> LNode] /\ v \in [1..m -> Data]
    /\ \A i, j \in 1..m : w[i] = w[j] => i = j
    /\ mem = [n \in DOMAIN mem |-> mem[n]] /\ DOMAIN mem = {w[i] : i \in 1..m}
    /\ \A i \in 1..m : mem[w[i]] = Node(v[i], At(w, m, i + 1), At(w, m, i - 1))
    /\ fst = At(w, m, 1) /\ lst = At(w, m, m)

(* x put in at index i, and what is at index i taken out.                    *)
Put(s, m, i, x) == [k \in 1..(m + 1) |-> IF k < i THEN s[k] ELSE IF k = i THEN x ELSE s[k - 1]]
Cut(s, m, i)    == [k \in 1..(m - 1) |-> IF k < i THEN s[k] ELSE s[k + 1]]

-----------------------------------------------------------------------------
(* The memory and the ends of the list after the code of an insertion.       *)
PutIn(mem, n, d, p, q) == Malloc(SetNext(SetPrevious(mem, q, n), p, n), n, Node(d, q, p))
TakenOut(mem, n, p, q) == Freed(SetNext(SetPrevious(mem, q, p), p, q), n)

(* What the two assignments do to a node of the memory.                      *)
LEMMA TwoPointers ==
    ASSUME NEW w, NEW v, NEW m, NEW mem, NEW fst, NEW lst, Linked(w, v, m, mem, fst, lst),
           NEW p \in DOMAIN mem \cup {NULL}, NEW q \in DOMAIN mem \cup {NULL}, NEW a, NEW b
    PROVE  LET new == SetNext(SetPrevious(mem, q, a), p, b)
           IN  /\ DOMAIN new = DOMAIN mem
               /\ \A n \in DOMAIN mem :
                    new[n] = Node(mem[n].data, IF n = p THEN b ELSE mem[n].next,
                                  IF n = q THEN a ELSE mem[n].previous)
<1> DEFINE one == SetPrevious(mem, q, a)
           new == SetNext(one, p, b)
<1>1. NULL \notin DOMAIN mem
  BY NullAssumption DEF Linked
<1>2. \A n \in DOMAIN mem : mem[n] = Node(mem[n].data, mem[n].next, mem[n].previous)
  <2> SUFFICES ASSUME NEW n \in DOMAIN mem
               PROVE  mem[n] = Node(mem[n].data, mem[n].next, mem[n].previous)
    OBVIOUS
  <2>1. PICK i \in 1..m : n = w[i]
    BY DEF Linked
  <2>2. mem[n] = Node(v[i], At(w, m, i + 1), At(w, m, i - 1))
    BY <2>1 DEF Linked
  <2> QED
    BY <2>2 DEF Node
<1>3. /\ DOMAIN one = DOMAIN mem
      /\ \A n \in DOMAIN mem : one[n] = Node(mem[n].data, mem[n].next, IF n = q THEN a ELSE mem[n].previous)
  <2>1. mem = [n \in DOMAIN mem |-> mem[n]]
    BY DEF Linked
  <2>2. CASE q = NULL
    BY <1>1, <1>2, <2>2 DEF SetPrevious
  <2>3. CASE q \in DOMAIN mem
    <3>1. one = [mem EXCEPT ![q] = [mem[q] EXCEPT !.previous = a]]
      BY <1>1, <2>3 DEF SetPrevious
    <3>2. [mem[q] EXCEPT !.previous = a] = Node(mem[q].data, mem[q].next, a)
      BY <1>2, <2>3 DEF Node
    <3> HIDE DEF one
    <3> QED
      BY <1>2, <2>1, <2>3, <3>1, <3>2
  <2> QED
    BY <2>2, <2>3
<1>4. /\ DOMAIN new = DOMAIN one
      /\ \A n \in DOMAIN mem : new[n] = Node(mem[n].data, IF n = p THEN b ELSE mem[n].next, one[n].previous)
  <2> HIDE DEF one
  <2> QED
    BY <1>1, <1>3 DEF SetNext, Node
<1> HIDE DEF one, new
<1>5. SUFFICES /\ DOMAIN new = DOMAIN mem
               /\ \A n \in DOMAIN mem :
                    new[n] = Node(mem[n].data, IF n = p THEN b ELSE mem[n].next,
                                  IF n = q THEN a ELSE mem[n].previous)
  BY DEF new, one
<1> QED
  BY <1>3, <1>4 DEF Node

LEMMA PutLinked ==
    ASSUME NEW w, NEW v, NEW m, NEW mem, NEW fst, NEW lst, Linked(w, v, m, mem, fst, lst),
           NEW n \in LNode \ DOMAIN mem, NEW d \in Data, NEW i \in 1..(m + 1)
    PROVE  LET p == At(w, m, i - 1)
               q == At(w, m, i)
           IN  Linked(Put(w, m, i, n), Put(v, m, i, d), m + 1, PutIn(mem, n, d, p, q),
                      IF p = NULL THEN n ELSE fst, IF q = NULL THEN n ELSE lst)
<1> DEFINE p == At(w, m, i - 1)
           q == At(w, m, i)
           two == SetNext(SetPrevious(mem, q, n), p, n)
           new == PutIn(mem, n, d, p, q)
           w2 == Put(w, m, i, n)
           v2 == Put(v, m, i, d)
<1>1. /\ m \in Nat /\ i \in Nat /\ w \in [1..m -> LNode] /\ v \in [1..m -> Data]
      /\ \A j, k \in 1..m : w[j] = w[k] => j = k
      /\ DOMAIN mem = {w[j] : j \in 1..m}
      /\ \A j \in 1..m : mem[w[j]] = Node(v[j], At(w, m, j + 1), At(w, m, j - 1))
      /\ fst = At(w, m, 1) /\ lst = At(w, m, m)
  BY DEF Linked
<1>2. NULL \notin LNode
  BY NullAssumption
<1>3. p \in DOMAIN mem \cup {NULL} /\ q \in DOMAIN mem \cup {NULL}
  BY <1>1 DEF At
<1>4. /\ DOMAIN two = DOMAIN mem
      /\ \A x \in DOMAIN mem : two[x] = Node(mem[x].data, IF x = p THEN n ELSE mem[x].next,
                                             IF x = q THEN n ELSE mem[x].previous)
  BY <1>3, TwoPointers
<1>5. /\ DOMAIN new = DOMAIN mem \cup {n} /\ new = [x \in DOMAIN new |-> new[x]]
      /\ new[n] = Node(d, q, p)
      /\ \A x \in DOMAIN mem : new[x] = two[x]
  <2> HIDE DEF two, p, q
  <2>1. new = Malloc(two, n, Node(d, q, p))
    BY DEF new, two, PutIn
  <2> QED
    BY <1>4, <2>1 DEF Malloc
<1>6. w2 \in [1..(m + 1) -> LNode] /\ v2 \in [1..(m + 1) -> Data]
  BY <1>1 DEF Put
<1>7. \A k \in 1..(m + 1) : /\ k < i => k \in 1..m /\ w2[k] = w[k] /\ v2[k] = v[k]
                            /\ k = i => w2[k] = n /\ v2[k] = d
                            /\ k > i => k - 1 \in 1..m /\ w2[k] = w[k - 1] /\ v2[k] = v[k - 1]
  BY <1>1 DEF Put
<1> HIDE DEF new, two, w2, v2
<1>8. \A j \in 1..m : w[j] # n
  BY <1>1
<1>9. \A j, k \in 1..(m + 1) : w2[j] = w2[k] => j = k
  <2> SUFFICES ASSUME NEW j \in 1..(m + 1), NEW k \in 1..(m + 1), w2[j] = w2[k] PROVE j = k
    OBVIOUS
  <2>1. CASE j < i
    <3>1. j \in 1..m /\ w2[j] = w[j] /\ w[j] # n
      BY <1>1, <1>7, <1>8, <2>1
    <3>2. k < i
      <4>1. k # i
        BY <1>7, <3>1
      <4>2. ~ k > i
        <5>1. ASSUME k > i PROVE FALSE
          <6>1. k - 1 \in 1..m /\ w[j] = w[k - 1]
            BY <1>7, <3>1, <5>1
          <6>2. j = k - 1
            BY <1>1, <3>1, <6>1
          <6> QED
            BY <1>1, <2>1, <5>1, <6>2
        <5> QED
          BY <5>1
      <4> QED
        BY <1>1, <4>1, <4>2
    <3>3. k \in 1..m /\ w2[k] = w[k]
      BY <1>7, <3>2
    <3> QED
      BY <1>1, <3>1, <3>3
  <2>2. CASE j = i
    BY <1>1, <1>7, <1>8, <2>2
  <2>3. CASE j > i
    <3>1. k > i
      BY <1>1, <1>7, <1>8, <2>3
    <3>2. w[j - 1] = w[k - 1] /\ j - 1 \in 1..m /\ k - 1 \in 1..m
      BY <1>7, <2>3, <3>1
    <3>3. j - 1 = k - 1
      BY <1>1, <3>2
    <3> QED
      BY <3>3
  <2> QED
    BY <1>1, <2>1, <2>2, <2>3
<1>10. DOMAIN new = {w2[j] : j \in 1..(m + 1)}
  <2>1. \A j \in 1..m : IF j < i THEN j \in 1..(m + 1) /\ w[j] = w2[j]
                        ELSE j + 1 \in 1..(m + 1) /\ w[j] = w2[j + 1]
    BY <1>1, <1>7
  <2>2. i \in 1..(m + 1) /\ w2[i] = n
    BY <1>7
  <2>3. \A x \in DOMAIN new : \E j \in 1..(m + 1) : x = w2[j]
    BY <1>1, <1>5, <2>1, <2>2
  <2>4. \A j \in 1..(m + 1) : w2[j] \in DOMAIN new
    BY <1>1, <1>5, <1>7
  <2> QED
    BY <2>3, <2>4
<1>11. ASSUME NEW j \in 1..(m + 1)
       PROVE  new[w2[j]] = Node(v2[j], At(w2, m + 1, j + 1), At(w2, m + 1, j - 1))
  <2>1. CASE j = i
    <3>1. At(w2, m + 1, j + 1) = q /\ At(w2, m + 1, j - 1) = p
      BY <1>1, <1>7, <2>1 DEF At
    <3> QED
      BY <1>5, <1>7, <2>1, <3>1
  <2>2. CASE j < i
    <3>1. j \in 1..m /\ w2[j] = w[j] /\ v2[j] = v[j] /\ w[j] \in DOMAIN mem
      BY <1>1, <1>7, <2>2
    <3>2. new[w[j]] = Node(v[j], IF w[j] = p THEN n ELSE At(w, m, j + 1), IF w[j] = q THEN n ELSE At(w, m, j - 1))
      <4>1. new[w[j]] = Node(mem[w[j]].data, IF w[j] = p THEN n ELSE mem[w[j]].next,
                                             IF w[j] = q THEN n ELSE mem[w[j]].previous)
        BY <1>4, <1>5, <3>1
      <4>2. mem[w[j]] = Node(v[j], At(w, m, j + 1), At(w, m, j - 1))
        BY <1>1, <3>1
      <4> QED
        BY <4>1, <4>2 DEF Node
    <3>3. w[j] # q
      BY <1>1, <1>2, <3>1, <2>2 DEF At
    <3>4. At(w2, m + 1, j - 1) = At(w, m, j - 1)
      BY <1>1, <1>7, <2>2, <3>1 DEF At
    <3>5. At(w2, m + 1, j + 1) = IF w[j] = p THEN n ELSE At(w, m, j + 1)
      <4>1. CASE j + 1 = i
        BY <1>1, <1>7, <3>1, <4>1 DEF At
      <4>2. CASE j + 1 < i
        <5>1. j + 1 \in 1..m /\ w2[j + 1] = w[j + 1]
          BY <1>1, <1>7, <4>2
        <5>2. i - 1 \in 1..m /\ j # i - 1
          BY <1>1, <4>2, <5>1
        <5>3. w[j] # p
          BY <1>1, <1>2, <5>2, <3>1 DEF At
        <5> QED
          BY <1>1, <5>1, <5>3 DEF At
      <4> QED
        BY <1>1, <2>2, <4>1, <4>2
    <3> QED
      BY <3>1, <3>2, <3>3, <3>4, <3>5
  <2>3. CASE j > i
    <3> DEFINE k == j - 1
    <3>1. k \in 1..m /\ w2[j] = w[k] /\ v2[j] = v[k] /\ w[k] \in DOMAIN mem
      BY <1>1, <1>7, <2>3
    <3>2. new[w[k]] = Node(v[k], IF w[k] = p THEN n ELSE At(w, m, k + 1), IF w[k] = q THEN n ELSE At(w, m, k - 1))
      <4>1. new[w[k]] = Node(mem[w[k]].data, IF w[k] = p THEN n ELSE mem[w[k]].next,
                                             IF w[k] = q THEN n ELSE mem[w[k]].previous)
        BY <1>4, <1>5, <3>1
      <4>2. mem[w[k]] = Node(v[k], At(w, m, k + 1), At(w, m, k - 1))
        BY <1>1, <3>1
      <4> QED
        BY <4>1, <4>2 DEF Node
    <3>3. w[k] # p
      BY <1>1, <1>2, <3>1, <2>3 DEF At
    <3>4. At(w2, m + 1, j + 1) = At(w, m, k + 1)
      BY <1>1, <1>7, <2>3, <3>1 DEF At
    <3>5. At(w2, m + 1, j - 1) = IF w[k] = q THEN n ELSE At(w, m, k - 1)
      <4>1. CASE k = i
        BY <1>1, <1>7, <3>1, <4>1 DEF At
      <4>2. CASE k > i
        <5>1. k - 1 \in 1..m /\ w2[j - 1] = w[k - 1] /\ j - 1 \in 1..(m + 1)
          BY <1>1, <1>7, <4>2
        <5>2. i \in 1..m /\ k # i
          BY <1>1, <4>2, <3>1
        <5>3. w[k] # q
          BY <1>1, <1>2, <5>2, <3>1 DEF At
        <5> QED
          BY <1>1, <5>1, <5>3 DEF At
      <4> QED
        BY <1>1, <2>3, <4>1, <4>2
    <3> QED
      BY <3>1, <3>2, <3>3, <3>4, <3>5
  <2> QED
    BY <1>1, <2>1, <2>2, <2>3
<1>12. (IF p = NULL THEN n ELSE fst) = At(w2, m + 1, 1)
  BY <1>1, <1>2, <1>7 DEF At
<1>13. (IF q = NULL THEN n ELSE lst) = At(w2, m + 1, m + 1)
  BY <1>1, <1>2, <1>7 DEF At
<1>14. Linked(w2, v2, m + 1, new, IF p = NULL THEN n ELSE fst, IF q = NULL THEN n ELSE lst)
  <2> HIDE DEF p, q
  <2>1. m + 1 \in Nat
    BY <1>1
  <2>2. new = [x \in DOMAIN new |-> new[x]]
    BY <1>5
  <2> QED
    BY <1>6, <1>9, <1>10, <1>11, <1>12, <1>13, <2>1, <2>2 DEF Linked
<1> QED
  BY <1>14 DEF w2, v2, new

LEMMA CutLinked ==
    ASSUME NEW w, NEW v, NEW m, NEW mem, NEW fst, NEW lst, Linked(w, v, m, mem, fst, lst),
           NEW i \in 1..m
    PROVE  LET p == At(w, m, i - 1)
               q == At(w, m, i + 1)
           IN  Linked(Cut(w, m, i), Cut(v, m, i), m - 1, TakenOut(mem, w[i], p, q),
                      IF p = NULL THEN q ELSE fst, IF q = NULL THEN p ELSE lst)
<1> DEFINE n == w[i]
           p == At(w, m, i - 1)
           q == At(w, m, i + 1)
           two == SetNext(SetPrevious(mem, q, p), p, q)
           new == TakenOut(mem, n, p, q)
           w2 == Cut(w, m, i)
           v2 == Cut(v, m, i)
<1>1. /\ m \in Nat /\ i \in Nat /\ w \in [1..m -> LNode] /\ v \in [1..m -> Data]
      /\ \A j, k \in 1..m : w[j] = w[k] => j = k
      /\ DOMAIN mem = {w[j] : j \in 1..m}
      /\ \A j \in 1..m : mem[w[j]] = Node(v[j], At(w, m, j + 1), At(w, m, j - 1))
      /\ fst = At(w, m, 1) /\ lst = At(w, m, m)
  BY DEF Linked
<1>2. NULL \notin LNode
  BY NullAssumption
<1>3. p \in DOMAIN mem \cup {NULL} /\ q \in DOMAIN mem \cup {NULL}
  BY <1>1 DEF At
<1>4. /\ DOMAIN two = DOMAIN mem
      /\ \A x \in DOMAIN mem : two[x] = Node(mem[x].data, IF x = p THEN q ELSE mem[x].next,
                                             IF x = q THEN p ELSE mem[x].previous)
  BY <1>3, TwoPointers
<1>5. /\ DOMAIN new = DOMAIN mem \ {n} /\ new = [x \in DOMAIN new |-> new[x]]
      /\ \A x \in DOMAIN mem \ {n} : new[x] = two[x]
  <2> HIDE DEF two, p, q, n
  <2>1. new = Freed(two, n)
    BY DEF new, two, TakenOut
  <2> QED
    BY <1>4, <2>1 DEF Freed, Restrict
<1>6. w2 \in [1..(m - 1) -> LNode] /\ v2 \in [1..(m - 1) -> Data]
  <2>1. ASSUME NEW k \in 1..(m - 1) PROVE k \in 1..m /\ k + 1 \in 1..m
    BY <1>1
  <2>2. ASSUME NEW k \in 1..(m - 1)
        PROVE  /\ (IF k < i THEN w[k] ELSE w[k + 1]) \in LNode
               /\ (IF k < i THEN v[k] ELSE v[k + 1]) \in Data
    BY <1>1, <2>1
  <2> QED
    BY <2>2 DEF Cut
<1>7. \A k \in 1..(m - 1) : /\ k < i => k \in 1..m /\ w2[k] = w[k] /\ v2[k] = v[k]
                            /\ k >= i => k + 1 \in 1..m /\ w2[k] = w[k + 1] /\ v2[k] = v[k + 1]
  BY <1>1 DEF Cut
<1> HIDE DEF new, two, w2, v2
<1>8. \A j \in 1..m : w[j] = n => j = i
  BY <1>1
<1>9. \A j, k \in 1..(m - 1) : w2[j] = w2[k] => j = k
  <2> DEFINE old(j) == IF j < i THEN j ELSE j + 1
  <2>1. \A j \in 1..(m - 1) : old(j) \in 1..m /\ w2[j] = w[old(j)]
    BY <1>1, <1>7
  <2>2. \A j, k \in 1..(m - 1) : old(j) = old(k) => j = k
    BY <1>1
  <2> HIDE DEF old
  <2> QED
    BY <1>1, <2>1, <2>2
<1>10. DOMAIN new = {w2[j] : j \in 1..(m - 1)}
  <2>1. \A j \in 1..m : j # i => IF j < i THEN j \in 1..(m - 1) /\ w[j] = w2[j]
                                 ELSE j - 1 \in 1..(m - 1) /\ w[j] = w2[j - 1]
    BY <1>1, <1>7
  <2>2. \A x \in DOMAIN new : \E j \in 1..(m - 1) : x = w2[j]
    <3> SUFFICES ASSUME NEW x \in DOMAIN new PROVE \E j \in 1..(m - 1) : x = w2[j]
      OBVIOUS
    <3>1. PICK j \in 1..m : x = w[j] /\ j # i
      BY <1>1, <1>5
    <3> QED
      BY <2>1, <3>1
  <2>3. \A j \in 1..(m - 1) : w2[j] \in DOMAIN new
    <3> SUFFICES ASSUME NEW j \in 1..(m - 1) PROVE w2[j] \in DOMAIN mem /\ w2[j] # n
      BY <1>5
    <3>1. CASE j < i
      BY <1>1, <1>7, <1>8, <3>1
    <3>2. CASE j >= i
      BY <1>1, <1>7, <1>8, <3>2
    <3> QED
      BY <1>1, <3>1, <3>2
  <2> QED
    BY <2>2, <2>3
<1>11. ASSUME NEW j \in 1..(m - 1)
       PROVE  new[w2[j]] = Node(v2[j], At(w2, m - 1, j + 1), At(w2, m - 1, j - 1))
  <2>1. ASSUME NEW k \in 1..m, k # i
        PROVE  new[w[k]] = Node(v[k], IF w[k] = p THEN q ELSE At(w, m, k + 1), IF w[k] = q THEN p ELSE At(w, m, k - 1))
    <3>1. w[k] \in DOMAIN mem /\ w[k] # n
      BY <1>1, <2>1
    <3>2. new[w[k]] = Node(mem[w[k]].data, IF w[k] = p THEN q ELSE mem[w[k]].next,
                                           IF w[k] = q THEN p ELSE mem[w[k]].previous)
      BY <1>4, <1>5, <3>1
    <3>3. mem[w[k]] = Node(v[k], At(w, m, k + 1), At(w, m, k - 1))
      BY <1>1
    <3> QED
      BY <3>2, <3>3 DEF Node
  <2>2. CASE j < i
    <3>1. j \in 1..m /\ j # i /\ w2[j] = w[j] /\ v2[j] = v[j]
      BY <1>1, <1>7, <2>2
    <3>2. w[j] # q
      <4>1. q = NULL \/ (i + 1 \in 1..m /\ q = w[i + 1])
        BY <1>1 DEF At
      <4>2. w[j] # NULL
        BY <1>1, <1>2, <3>1
      <4>3. j # i + 1
        BY <1>1, <2>2
      <4> QED
        BY <1>1, <3>1, <4>1, <4>2, <4>3
    <3>3. At(w2, m - 1, j - 1) = At(w, m, j - 1)
      BY <1>1, <1>7, <2>2, <3>1 DEF At
    <3>4. At(w2, m - 1, j + 1) = IF w[j] = p THEN q ELSE At(w, m, j + 1)
      <4>1. CASE j + 1 = i
        <5>1. w[j] = p
          BY <1>1, <3>1, <4>1 DEF At
        <5>2. At(w2, m - 1, i) = q
          BY <1>1, <1>7 DEF At
        <5> QED
          BY <4>1, <5>1, <5>2
      <4>2. CASE j + 1 < i
        <5>1. j + 1 \in 1..(m - 1) /\ w2[j + 1] = w[j + 1]
          BY <1>1, <1>7, <4>2
        <5>2. i - 1 \in 1..m /\ j # i - 1
          BY <1>1, <4>2, <5>1
        <5>3. w[j] # p
          BY <1>1, <1>2, <5>2, <3>1 DEF At
        <5> QED
          BY <1>1, <5>1, <5>3 DEF At
      <4> QED
        BY <1>1, <2>2, <4>1, <4>2
    <3>5. new[w[j]] = Node(v[j], IF w[j] = p THEN q ELSE At(w, m, j + 1), At(w, m, j - 1))
      BY <2>1, <3>1, <3>2
    <3> QED
      BY <3>1, <3>3, <3>4, <3>5
  <2>3. CASE j >= i
    <3> DEFINE k == j + 1
    <3>1. k \in 1..m /\ k # i /\ w2[j] = w[k] /\ v2[j] = v[k]
      BY <1>1, <1>7, <2>3
    <3>2. w[k] # p
      BY <1>1, <1>2, <3>1, <2>3 DEF At
    <3>3. At(w2, m - 1, j + 1) = At(w, m, k + 1)
      BY <1>1, <1>7, <2>3, <3>1 DEF At
    <3>4. At(w2, m - 1, j - 1) = IF w[k] = q THEN p ELSE At(w, m, k - 1)
      <4>1. CASE j = i
        <5>1. w[k] = q
          BY <1>1, <3>1, <4>1 DEF At
        <5>2. At(w2, m - 1, i - 1) = p
          BY <1>1, <1>7 DEF At
        <5> QED
          BY <4>1, <5>1, <5>2
      <4>2. CASE j > i
        <5>1. j - 1 \in 1..(m - 1) /\ w2[j - 1] = w[k - 1] /\ k - 1 \in 1..m
          <6>1. j - 1 \in 1..(m - 1) /\ j - 1 >= i /\ (j - 1) + 1 = k - 1 /\ k - 1 \in 1..m
            BY <1>1, <4>2
          <6> QED
            BY <1>7, <6>1
        <5>2. k # i + 1
          BY <1>1, <4>2
        <5>3. w[k] # q
          BY <1>1, <1>2, <5>2, <3>1 DEF At
        <5> QED
          BY <1>1, <5>1, <5>3 DEF At
      <4> QED
        BY <1>1, <2>3, <4>1, <4>2
    <3>5. new[w[k]] = Node(v[k], At(w, m, k + 1), IF w[k] = q THEN p ELSE At(w, m, k - 1))
      BY <2>1, <3>1, <3>2
    <3> QED
      BY <3>1, <3>3, <3>4, <3>5
  <2> QED
    BY <1>1, <2>2, <2>3
<1>12. (IF p = NULL THEN q ELSE fst) = At(w2, m - 1, 1)
  BY <1>1, <1>2, <1>7 DEF At
<1>13. (IF q = NULL THEN p ELSE lst) = At(w2, m - 1, m - 1)
  BY <1>1, <1>2, <1>7 DEF At
<1>14. Linked(w2, v2, m - 1, new, IF p = NULL THEN q ELSE fst, IF q = NULL THEN p ELSE lst)
  <2> HIDE DEF p, q, n
  <2>1. m - 1 \in Nat
    BY <1>1
  <2>2. new = [x \in DOMAIN new |-> new[x]]
    BY <1>5
  <2> QED
    BY <1>6, <1>9, <1>10, <1>11, <1>12, <1>13, <2>1, <2>2 DEF Linked
<1> QED
  BY <1>14 DEF w2, v2, new

-----------------------------------------------------------------------------
(* The two walks, of any memory from any node.                               *)
Ahead(mem, fst) ==
    CHOOSE f : f = [k \in Nat |-> IF k = 0 THEN fst
                                  ELSE IF f[k - 1] \in DOMAIN mem THEN mem[f[k - 1]].next ELSE NULL]

Behind(mem, lst) ==
    CHOOSE f : f = [k \in Nat |-> IF k = 0 THEN lst
                                  ELSE IF f[k - 1] \in DOMAIN mem THEN mem[f[k - 1]].previous ELSE NULL]

(* A walk by any pointer: next or previous.                                  *)
IsWalk(f, start, D, to) ==
    f = [k \in Nat |-> IF k = 0 THEN start ELSE IF f[k - 1] \in D THEN to[f[k - 1]] ELSE NULL]

LEMMA WalkExists ==
    ASSUME NEW start, NEW D, NEW to
    PROVE  \E f : IsWalk(f, start, D, to)
<1> DEFINE S == {start, NULL} \cup {to[n] : n \in D}
           step == [p \in Nat \X S |-> IF p[2] \in D THEN to[p[2]] ELSE NULL]
<1>1. step \in [Nat \X S -> S] /\ start \in S
  OBVIOUS
<1>2. \A k \in Nat, x \in S : step[<<k, x>>] = IF x \in D THEN to[x] ELSE NULL
  OBVIOUS
<1> HIDE DEF step, S
<1>3. PICK f \in [Nat -> S] : Recurses(f, start, step)
  BY <1>1, Recursion
<1>4. ASSUME NEW k \in Nat, k # 0 PROVE f[k] = IF f[k - 1] \in D THEN to[f[k - 1]] ELSE NULL
  <2>1. k - 1 \in Nat /\ (k - 1) + 1 = k
    BY <1>4
  <2>2. f[(k - 1) + 1] = step[<<k - 1, f[k - 1]>>]
    BY <1>3, <2>1 DEF Recurses
  <2>3. f[k - 1] \in S
    BY <1>3, <2>1
  <2> QED
    BY <1>2, <2>1, <2>2, <2>3
<1>5. f = [k \in Nat |-> IF k = 0 THEN start ELSE IF f[k - 1] \in D THEN to[f[k - 1]] ELSE NULL]
  BY <1>3, <1>4 DEF Recurses
<1> QED
  BY <1>5 DEF IsWalk

LEMMA AheadWalks ==
    ASSUME NEW mem, NEW fst
    PROVE  /\ Ahead(mem, fst)[0] = fst
           /\ \A k \in Nat : Ahead(mem, fst)[k + 1] =
                IF Ahead(mem, fst)[k] \in DOMAIN mem THEN mem[Ahead(mem, fst)[k]].next ELSE NULL
<1> DEFINE to == [n \in DOMAIN mem |-> mem[n].next]
           Is(f) == f = [k \in Nat |-> IF k = 0 THEN fst
                                       ELSE IF f[k - 1] \in DOMAIN mem THEN mem[f[k - 1]].next ELSE NULL]
<1>1. PICK f : IsWalk(f, fst, DOMAIN mem, to)
  <2> HIDE DEF to
  <2> QED
    BY WalkExists
<1>2. Is(f)
  <2>1. \A n \in DOMAIN mem : to[n] = mem[n].next
    OBVIOUS
  <2> HIDE DEF to
  <2> QED
    BY <1>1, <2>1 DEF IsWalk
<1>3. Is(Ahead(mem, fst))
  BY <1>2 DEF Ahead
<1> DEFINE g == Ahead(mem, fst)
<1>4. g = [k \in Nat |-> IF k = 0 THEN fst ELSE IF g[k - 1] \in DOMAIN mem THEN mem[g[k - 1]].next ELSE NULL]
  BY <1>3
<1> HIDE DEF g, Is
<1>5. g[0] = fst /\ \A k \in Nat : g[k + 1] = IF g[k] \in DOMAIN mem THEN mem[g[k]].next ELSE NULL
  BY <1>4
<1> QED
  BY <1>5 DEF g

LEMMA BehindWalks ==
    ASSUME NEW mem, NEW lst
    PROVE  /\ Behind(mem, lst)[0] = lst
           /\ \A k \in Nat : Behind(mem, lst)[k + 1] =
                IF Behind(mem, lst)[k] \in DOMAIN mem THEN mem[Behind(mem, lst)[k]].previous ELSE NULL
<1> DEFINE to == [n \in DOMAIN mem |-> mem[n].previous]
           Is(f) == f = [k \in Nat |-> IF k = 0 THEN lst
                                       ELSE IF f[k - 1] \in DOMAIN mem THEN mem[f[k - 1]].previous ELSE NULL]
<1>1. PICK f : IsWalk(f, lst, DOMAIN mem, to)
  <2> HIDE DEF to
  <2> QED
    BY WalkExists
<1>2. Is(f)
  <2>1. \A n \in DOMAIN mem : to[n] = mem[n].previous
    OBVIOUS
  <2> HIDE DEF to
  <2> QED
    BY <1>1, <2>1 DEF IsWalk
<1>3. Is(Behind(mem, lst))
  BY <1>2 DEF Behind
<1> DEFINE g == Behind(mem, lst)
<1>4. g = [k \in Nat |-> IF k = 0 THEN lst ELSE IF g[k - 1] \in DOMAIN mem THEN mem[g[k - 1]].previous ELSE NULL]
  BY <1>3
<1> HIDE DEF g, Is
<1>5. g[0] = lst /\ \A k \in Nat : g[k + 1] = IF g[k] \in DOMAIN mem THEN mem[g[k]].previous ELSE NULL
  BY <1>4
<1> QED
  BY <1>5 DEF g

(* On a chain, the walk from the first node meets w, and the one from the    *)
(* last meets it backwards.                                                  *)
LEMMA WalksMeetAll ==
    ASSUME NEW w, NEW v, NEW m, NEW mem, NEW fst, NEW lst, Linked(w, v, m, mem, fst, lst)
    PROVE  \A k \in 0..m : /\ Ahead(mem, fst)[k] = At(w, m, k + 1)
                           /\ Behind(mem, lst)[k] = At(w, m, m - k)
<1> DEFINE f == Ahead(mem, fst)
           b == Behind(mem, lst)
           T == {k \in Nat : k <= m => f[k] = At(w, m, k + 1) /\ b[k] = At(w, m, m - k)}
<1>1. /\ m \in Nat /\ w \in [1..m -> LNode]
      /\ DOMAIN mem = {w[j] : j \in 1..m}
      /\ \A j \in 1..m : mem[w[j]] = Node(v[j], At(w, m, j + 1), At(w, m, j - 1))
      /\ fst = At(w, m, 1) /\ lst = At(w, m, m)
  BY DEF Linked
<1>2. f[0] = fst /\ \A k \in Nat : f[k + 1] = IF f[k] \in DOMAIN mem THEN mem[f[k]].next ELSE NULL
  BY AheadWalks
<1>3. b[0] = lst /\ \A k \in Nat : b[k + 1] = IF b[k] \in DOMAIN mem THEN mem[b[k]].previous ELSE NULL
  BY BehindWalks
<1> HIDE DEF f, b
<1>4. 0 \in T
  BY <1>1, <1>2, <1>3
<1>5. ASSUME NEW k \in Nat, k \in T PROVE k + 1 \in T
  <2> SUFFICES ASSUME k + 1 <= m PROVE f[k + 1] = At(w, m, k + 2) /\ b[k + 1] = At(w, m, m - (k + 1))
    BY <1>1
  <2>1. k + 1 \in 1..m /\ m - k \in 1..m
    BY <1>1
  <2>2. f[k] = w[k + 1] /\ b[k] = w[m - k]
    BY <1>1, <1>5, <2>1 DEF At
  <2>3. f[k] \in DOMAIN mem /\ b[k] \in DOMAIN mem
    BY <1>1, <2>1, <2>2
  <2>4. mem[w[k + 1]].next = At(w, m, (k + 1) + 1) /\ mem[w[m - k]].previous = At(w, m, (m - k) - 1)
    <3>1. /\ mem[w[k + 1]] = Node(v[k + 1], At(w, m, (k + 1) + 1), At(w, m, (k + 1) - 1))
          /\ mem[w[m - k]] = Node(v[m - k], At(w, m, (m - k) + 1), At(w, m, (m - k) - 1))
      BY <1>1, <2>1
    <3> QED
      BY <3>1 DEF Node
  <2>5. (k + 1) + 1 = k + 2 /\ (m - k) - 1 = m - (k + 1)
    BY <1>1
  <2> QED
    BY <1>2, <1>3, <2>2, <2>3, <2>4, <2>5
<1>6. T = Nat
  <2>1. T \in SUBSET Nat
    OBVIOUS
  <2> HIDE DEF T
  <2> QED
    BY <1>4, <1>5, <2>1, SetInduction
<1> QED
  BY <1>1, <1>6 DEF f, b

(* The values, and the index of a node, are those of the sequence.           *)
LEMMA ReadsAs ==
    ASSUME NEW w, NEW v, NEW m, NEW mem, NEW fst, NEW lst, Linked(w, v, m, mem, fst, lst)
    PROVE  /\ [i \in 1..m |-> mem[Ahead(mem, fst)[i - 1]].data] = v
           /\ \A i \in 1..m : 1 + (CHOOSE k \in 0..(m - 1) : Ahead(mem, fst)[k] = w[i]) = i
<1>1. /\ m \in Nat /\ w \in [1..m -> LNode] /\ v \in [1..m -> Data]
      /\ \A j, k \in 1..m : w[j] = w[k] => j = k
      /\ \A j \in 1..m : mem[w[j]] = Node(v[j], At(w, m, j + 1), At(w, m, j - 1))
  BY DEF Linked
<1> DEFINE f == Ahead(mem, fst)
<1>2. \A k \in 0..m : f[k] = At(w, m, k + 1)
  BY WalksMeetAll
<1> HIDE DEF f
<1>3. \A i \in 1..m : f[i - 1] = w[i]
  BY <1>1, <1>2 DEF At
<1>4. ASSUME NEW i \in 1..m PROVE mem[f[i - 1]].data = v[i]
  <2>1. mem[w[i]] = Node(v[i], At(w, m, i + 1), At(w, m, i - 1))
    BY <1>1
  <2>2. mem[w[i]].data = v[i]
    BY <2>1 DEF Node
  <2> QED
    BY <1>3, <2>2
<1>5. [i \in 1..m |-> mem[f[i - 1]].data] = v
  BY <1>1, <1>4
<1>6. ASSUME NEW i \in 1..m PROVE 1 + (CHOOSE k \in 0..(m - 1) : f[k] = w[i]) = i
  <2> DEFINE c == CHOOSE k \in 0..(m - 1) : f[k] = w[i]
  <2>1. i - 1 \in 0..(m - 1) /\ f[i - 1] = w[i]
    BY <1>1, <1>3
  <2>2. c \in 0..(m - 1) /\ f[c] = w[i]
    BY <2>1
  <2> HIDE DEF c
  <2>3. c + 1 \in 1..m /\ f[(c + 1) - 1] = f[c]
    BY <1>1, <2>2
  <2>4. w[c + 1] = w[i]
    BY <1>3, <2>2, <2>3
  <2>5. c + 1 = i
    BY <1>1, <2>3, <2>4
  <2> QED
    BY <2>2, <2>5 DEF c
<1> QED
  BY <1>5, <1>6 DEF f

-----------------------------------------------------------------------------
(* Put, Cut and their like are the operators of the abstract sequence.       *)
LEMMA PutIsInsertAt ==
    ASSUME NEW S, NEW m \in Nat, NEW s \in [1..m -> S], NEW i \in 1..(m + 1), NEW x \in S
    PROVE  AsSequence!InsertAt(s, i, x) = Put(s, m, i, x)
<1> DEFINE pre  == SubSeq(s, 1, i - 1)
           post == SubSeq(s, i, m)
           head == pre \o <<x>>
           new  == head \o post
<1>1. s \in Seq(S) /\ Len(s) = m /\ i \in Nat
  OBVIOUS
<1>2. /\ pre \in Seq(S) /\ Len(pre) = i - 1
      /\ \A k \in 1..(i - 1) : pre[k] = s[k]
  BY <1>1
<1>3. /\ post \in Seq(S) /\ Len(post) = m - i + 1
      /\ \A k \in 1..Len(post) : post[k] = s[i + k - 1]
  BY <1>1
<1> HIDE DEF pre, post
<1>4. /\ head \in Seq(S) /\ Len(head) = i
      /\ head[i] = x
      /\ \A k \in 1..(i - 1) : head[k] = s[k]
  BY <1>1, <1>2
<1>5. AsSequence!InsertAt(s, i, x) = new
  BY <1>1 DEF AsSequence!InsertAt, pre, post
<1> HIDE DEF head
<1>6. /\ new \in Seq(S) /\ Len(new) = i + Len(post)
      /\ \A k \in 1..i : new[k] = head[k]
      /\ \A k \in 1..Len(post) : new[i + k] = post[k]
  <2>1. /\ new \in Seq(S) /\ Len(new) = Len(head) + Len(post)
        /\ \A k \in 1..Len(head) : new[k] = head[k]
        /\ \A k \in 1..Len(post) : new[Len(head) + k] = post[k]
    <3>1. /\ new \in Seq(S) /\ Len(new) = Len(head) + Len(post)
          /\ \A k \in 1..(Len(head) + Len(post)) :
               new[k] = IF k <= Len(head) THEN head[k] ELSE post[k - Len(head)]
      BY <1>3, <1>4, ConcatProperties
    <3> HIDE DEF new
    <3>2. Len(head) \in Nat /\ Len(post) \in Nat
      BY <1>1, <1>3, <1>4
    <3>3. ASSUME NEW k \in 1..Len(post) PROVE new[Len(head) + k] = post[k]
      <4>1. Len(head) + k \in 1..(Len(head) + Len(post)) /\ ~(Len(head) + k <= Len(head))
        BY <3>2
      <4>2. (Len(head) + k) - Len(head) = k
        BY <3>2
      <4> QED
        BY <3>1, <4>1, <4>2
    <3> QED
      BY <3>1, <3>2, <3>3
  <2> HIDE DEF new
  <2> QED
    BY <1>4, <2>1
<1> HIDE DEF new
<1>7. Len(new) = m + 1
  BY <1>1, <1>3, <1>6
<1>8. ASSUME NEW k \in 1..(m + 1) PROVE new[k] = Put(s, m, i, x)[k]
  <2>1. CASE k <= i
    BY <1>1, <1>4, <1>6, <2>1 DEF Put
  <2>2. CASE k > i
    <3>1. k - i \in 1..Len(post) /\ i + (k - i) = k /\ i + (k - i) - 1 = k - 1
      BY <1>1, <1>3, <2>2
    <3>2. new[i + (k - i)] = post[k - i] /\ post[k - i] = s[i + (k - i) - 1]
      BY <1>3, <1>6, <3>1
    <3>3. new[k] = s[k - 1]
      BY <3>1, <3>2
    <3> QED
      BY <1>1, <2>2, <3>3 DEF Put
  <2> QED
    BY <1>1, <2>1, <2>2
<1>9. new = [k \in 1..(m + 1) |-> new[k]]
  BY <1>6, <1>7
<1>10. Put(s, m, i, x) = [k \in 1..(m + 1) |-> Put(s, m, i, x)[k]]
  BY DEF Put
<1> QED
  BY <1>5, <1>8, <1>9, <1>10

LEMMA CutIsRemoveAt ==
    ASSUME NEW S, NEW m \in Nat, NEW s \in [1..m -> S], NEW i \in 1..m
    PROVE  AsSequence!RemoveAt(s, i) = Cut(s, m, i)
<1> DEFINE pre  == SubSeq(s, 1, i - 1)
           post == SubSeq(s, i + 1, m)
           new  == pre \o post
<1>1. s \in Seq(S) /\ Len(s) = m /\ i \in Nat
  OBVIOUS
<1>2. /\ pre \in Seq(S) /\ Len(pre) = i - 1
      /\ \A k \in 1..(i - 1) : pre[k] = s[k]
  BY <1>1
<1>3. /\ post \in Seq(S) /\ Len(post) = m - i
      /\ \A k \in 1..Len(post) : post[k] = s[i + 1 + k - 1]
  BY <1>1
<1> HIDE DEF pre, post
<1>5. AsSequence!RemoveAt(s, i) = new
  BY <1>1 DEF AsSequence!RemoveAt, pre, post
<1>6. /\ new \in Seq(S) /\ Len(new) = Len(pre) + Len(post)
      /\ \A k \in 1..Len(pre) : new[k] = pre[k]
      /\ \A k \in 1..Len(post) : new[Len(pre) + k] = post[k]
  <2>1. /\ new \in Seq(S) /\ Len(new) = Len(pre) + Len(post)
        /\ \A k \in 1..(Len(pre) + Len(post)) :
             new[k] = IF k <= Len(pre) THEN pre[k] ELSE post[k - Len(pre)]
    BY <1>2, <1>3, ConcatProperties
  <2> HIDE DEF new
  <2>2. Len(pre) \in Nat /\ Len(post) \in Nat
    BY <1>1, <1>2, <1>3
  <2>3. ASSUME NEW k \in 1..Len(post) PROVE new[Len(pre) + k] = post[k]
    <3>1. Len(pre) + k \in 1..(Len(pre) + Len(post)) /\ ~(Len(pre) + k <= Len(pre))
      BY <2>2
    <3>2. (Len(pre) + k) - Len(pre) = k
      BY <2>2
    <3> QED
      BY <2>1, <3>1, <3>2
  <2> QED
    BY <2>1, <2>2, <2>3
<1> HIDE DEF new
<1>7. Len(new) = m - 1
  BY <1>1, <1>2, <1>3, <1>6
<1>8. ASSUME NEW k \in 1..(m - 1) PROVE new[k] = Cut(s, m, i)[k]
  <2>1. CASE k < i
    BY <1>1, <1>2, <1>6, <2>1 DEF Cut
  <2>2. CASE k >= i
    <3> DEFINE j == k - (i - 1)
    <3>1. j \in 1..Len(post) /\ (i - 1) + j = k /\ i + 1 + j - 1 = k + 1
      BY <1>1, <1>3, <2>2
    <3>2. new[(i - 1) + j] = post[j] /\ post[j] = s[i + 1 + j - 1]
      BY <1>2, <1>3, <1>6, <3>1
    <3>3. new[k] = s[k + 1]
      BY <3>1, <3>2
    <3> QED
      BY <1>1, <2>2, <3>3 DEF Cut
  <2> QED
    BY <1>1, <2>1, <2>2
<1>9. new = [k \in 1..(m - 1) |-> new[k]]
  BY <1>6, <1>7
<1>10. Cut(s, m, i) = [k \in 1..(m - 1) |-> Cut(s, m, i)[k]]
  BY DEF Cut
<1> QED
  BY <1>5, <1>8, <1>9, <1>10

-----------------------------------------------------------------------------
(* The iterator stands before the c-th node, behind the last one, or, if     *)
(* c = 0, nowhere.                                                           *)
PlaceOf(w, m, e, l, c) ==
    IF l THEN c = 0 ELSE IF e = NULL THEN c = m + 1 ELSE c \in 1..m /\ w[c] = e

(* The state is that of the nodes w with the values v and an iterator at c.  *)
Stands(w, v, c) ==
    /\ Linked(w, v, size, nodes, first, last)
    /\ entry \in LNode \cup {NULL} /\ lost \in BOOLEAN
    /\ PlaceOf(w, size, entry, lost, c)

Results == Data \cup {NULL, Died} \cup (-1)..Cardinality(LNode)

IInv == (\E w, v, c : Stands(w, v, c)) /\ result \in Results

(* What the state stands for, seen through the pointers.                     *)
LEMMA Seen ==
    ASSUME NEW w, NEW v, NEW c, Stands(w, v, c)
    PROVE  /\ size \in Nat /\ c \in 0..(size + 1)
           /\ Values = v /\ Len(v) = size /\ v \in Seq(Data)
           /\ Cursor = c
           /\ Live = {w[i] : i \in 1..size}
           /\ \A i \in 1..size : Index(w[i]) = i
<1> DEFINE f == Ahead(nodes, first)
<1>1. /\ size \in Nat /\ w \in [1..size -> LNode] /\ v \in [1..size -> Data]
      /\ \A j, k \in 1..size : w[j] = w[k] => j = k
      /\ Live = {w[j] : j \in 1..size}
  BY DEF Stands, Linked, Live
<1>2. FromFirst = f
  BY DEF FromFirst, Next, Live, Ahead
<1>3. /\ [i \in 1..size |-> nodes[f[i - 1]].data] = v
      /\ \A i \in 1..size : 1 + (CHOOSE k \in 0..(size - 1) : f[k] = w[i]) = i
  BY ReadsAs DEF Stands
<1> HIDE DEF f
<1>4. Values = v
  BY <1>2, <1>3 DEF Values
<1>5. \A i \in 1..size : Index(w[i]) = i
  BY <1>2, <1>3 DEF Index
<1>6. c \in 0..(size + 1)
  BY <1>1 DEF Stands, PlaceOf
<1>7. Cursor = c
  BY <1>1, <1>5 DEF Stands, PlaceOf, Cursor
<1> QED
  BY <1>1, <1>4, <1>5, <1>6, <1>7

LEMMA SeenNext ==
    ASSUME NEW w, NEW v, NEW c, Stands(w, v, c)'
    PROVE  /\ size' \in Nat /\ c \in 0..(size' + 1)
           /\ Values' = v /\ Len(v) = size' /\ v \in Seq(Data)
           /\ Cursor' = c
           /\ Live' = {w[i] : i \in 1..size'}
           /\ \A i \in 1..size' : Index(w[i])' = i
<1> DEFINE f == Ahead(nodes', first')
<1>1. /\ size' \in Nat /\ w \in [1..size' -> LNode] /\ v \in [1..size' -> Data]
      /\ \A j, k \in 1..size' : w[j] = w[k] => j = k
      /\ Live' = {w[j] : j \in 1..size'}
  BY DEF Stands, Linked, Live
<1>2. FromFirst' = f
  BY DEF FromFirst, Next, Live, Ahead
<1>3. /\ [i \in 1..size' |-> nodes'[f[i - 1]].data] = v
      /\ \A i \in 1..size' : 1 + (CHOOSE k \in 0..(size' - 1) : f[k] = w[i]) = i
  <2>1. Linked(w, v, size', nodes', first', last')
    BY DEF Stands
  <2> QED
    BY <2>1, ReadsAs
<1> HIDE DEF f
<1>4. Values' = v
  BY <1>2, <1>3 DEF Values
<1>5. \A i \in 1..size' : Index(w[i])' = i
  BY <1>2, <1>3 DEF Index
<1>6. c \in 0..(size' + 1)
  BY <1>1 DEF Stands, PlaceOf
<1>7. Cursor' = c
  BY <1>1, <1>5 DEF Stands, PlaceOf, Cursor
<1>8. Len(v) = size' /\ v \in Seq(Data)
  BY <1>1
<1> QED
  BY <1>1, <1>4, <1>5, <1>6, <1>7, <1>8, Zenon

(* The list after d was put in at index i, or what is at index i taken out.  *)
PutsIn(w, i, n, d) ==
    LET p == At(w, size, i - 1)
        q == At(w, size, i)
    IN  /\ nodes' = PutIn(nodes, n, d, p, q)
        /\ first' = IF p = NULL THEN n ELSE first
        /\ last' = IF q = NULL THEN n ELSE last
        /\ size' = size + 1

TakesOut(w, i) ==
    LET p == At(w, size, i - 1)
        q == At(w, size, i + 1)
    IN  /\ nodes' = TakenOut(nodes, w[i], p, q)
        /\ first' = IF p = NULL THEN q ELSE first
        /\ last' = IF q = NULL THEN p ELSE last
        /\ size' = size - 1

(* A call that puts d in at index i is the insertion of the abstract list.   *)
LEMMA Inserts ==
    ASSUME NEW w, NEW v, NEW c, Stands(w, v, c), Alive,
           NEW n \in Free, NEW d \in Data, NEW i \in 1..(size + 1),
           PutsIn(w, i, n, d), Done(NULL)
    PROVE  (\E w2, v2, c2 : Stands(w2, v2, c2))' /\ AsSequence!Insert(i, d)
<1>0. PICK w2, v2, c2 : /\ w2 = Put(w, size, i, n) /\ v2 = Put(v, size, i, d)
                        /\ c2 = IF c >= i THEN c + 1 ELSE c
  OBVIOUS
<1>1. /\ size \in Nat /\ w \in [1..size -> LNode] /\ v \in [1..size -> Data] /\ i \in Nat
  BY DEF Stands, Linked
<1>2. Linked(w2, v2, size', nodes', first', last')
  BY <1>0, PutLinked DEF PutsIn, Stands, Free, Live
<1>3. PlaceOf(w2, size', entry', lost', c2)
  <2>1. size' = size + 1 /\ entry' = entry /\ lost' = lost
    BY DEF PutsIn, Done
  <2>2. CASE lost
    BY <1>0, <1>1, <2>1, <2>2 DEF Stands, PlaceOf
  <2>3. CASE ~lost /\ entry = NULL
    BY <1>0, <1>1, <2>1, <2>3 DEF Stands, PlaceOf
  <2>4. CASE ~lost /\ entry # NULL
    <3>1. c \in 1..size /\ w[c] = entry
      BY <2>4 DEF Stands, PlaceOf
    <3>2. c2 \in 1..(size + 1) /\ w2[c2] = w[c]
      BY <1>0, <1>1, <3>1 DEF Put
    <3> QED
      BY <2>1, <2>4, <3>1, <3>2 DEF PlaceOf
  <2> QED
    BY <2>2, <2>3, <2>4
<1>4. Stands(w2, v2, c2)'
  <2> QED
    BY <1>2, <1>3 DEF Stands, Done
<1>5. Values = v /\ Cursor = c /\ Len(v) = size /\ Alive
  BY Seen
<1>6. Values' = v2 /\ Cursor' = c2
  <2> QED
    BY <1>4, SeenNext
<1>7. AsSequence!InsertAt(v, i, d) = v2
  BY <1>0, <1>1, PutIsInsertAt
<1>8. AsSequence!Insert(i, d)
  <2> QED
    BY <1>0, <1>5, <1>6, <1>7 DEF AsSequence!Insert, AsSequence!Alive, Alive, Done
<1> QED
  BY <1>4, <1>8

(* The nodes after one was taken out, whatever becomes of the iterator.      *)
LEMMA TakesOutLinked ==
    ASSUME NEW w, NEW v, NEW c, Stands(w, v, c), NEW i \in 1..size, TakesOut(w, i)
    PROVE  /\ Linked(Cut(w, size, i), Cut(v, size, i), size', nodes', first', last')
           /\ AsSequence!RemoveAt(v, i) = Cut(v, size, i)
           /\ \A k \in 1..size : k # i => LET j == IF k > i THEN k - 1 ELSE k
                                          IN  j \in 1..size' /\ Cut(w, size, i)[j] = w[k]
<1>1. /\ size \in Nat /\ w \in [1..size -> LNode] /\ v \in [1..size -> Data] /\ i \in Nat
  BY DEF Stands, Linked
<1>2. Linked(Cut(w, size, i), Cut(v, size, i), size', nodes', first', last')
  BY CutLinked DEF TakesOut, Stands
<1>3. AsSequence!RemoveAt(v, i) = Cut(v, size, i)
  BY <1>1, CutIsRemoveAt
<1>4. size' = size - 1
  BY DEF TakesOut
<1>5. ASSUME NEW k \in 1..size, k # i
      PROVE  LET j == IF k > i THEN k - 1 ELSE k IN j \in 1..size' /\ Cut(w, size, i)[j] = w[k]
  BY <1>1, <1>4, <1>5 DEF Cut
<1> QED
  BY <1>2, <1>3, <1>5

LEMMA Deletes ==
    ASSUME NEW w, NEW v, NEW c, Stands(w, v, c), Alive,
           NEW i \in 1..size, TakesOut(w, i), NEW res \in {v[i], NULL, 1}, Took(w[i], res)
    PROVE  (\E w2, v2, c2 : Stands(w2, v2, c2))' /\ AsSequence!Delete(i)
<1>0. PICK w2, v2, c2 : /\ w2 = Cut(w, size, i) /\ v2 = Cut(v, size, i)
                        /\ c2 = IF c = i THEN 0 ELSE IF c > i THEN c - 1 ELSE c
  OBVIOUS
<1>1. /\ size \in Nat /\ w \in [1..size -> LNode] /\ v \in [1..size -> Data] /\ i \in Nat
      /\ \A j, k \in 1..size : w[j] = w[k] => j = k
  BY DEF Stands, Linked
<1>2. /\ Linked(w2, v2, size', nodes', first', last')
      /\ AsSequence!RemoveAt(v, i) = v2
      /\ \A k \in 1..size : k # i => LET j == IF k > i THEN k - 1 ELSE k
                                     IN  j \in 1..size' /\ w2[j] = w[k]
  BY <1>0, TakesOutLinked
<1>3. PlaceOf(w2, size', entry', lost', c2)
  <2>1. size' = size - 1 /\ entry' = entry /\ lost' = (lost \/ entry = w[i]) /\ lost \in BOOLEAN
    BY DEF TakesOut, Took, Stands
  <2>2. CASE lost
    <3>1. c = 0 /\ lost'
      BY <2>1, <2>2 DEF Stands, PlaceOf
    <3>2. c2 = 0
      BY <1>0, <1>1, <3>1
    <3> QED
      BY <3>1, <3>2 DEF PlaceOf
  <2>3. CASE ~lost /\ entry = NULL
    <3>1. entry # w[i]
      BY <1>1, <2>3, NullAssumption
    <3> QED
      BY <1>0, <1>1, <2>1, <2>3, <3>1 DEF Stands, PlaceOf
  <2>4. CASE ~lost /\ entry # NULL
    <3>1. c \in 1..size /\ w[c] = entry
      BY <2>4 DEF Stands, PlaceOf
    <3>2. CASE c = i
      BY <1>0, <2>1, <3>1, <3>2 DEF PlaceOf
    <3>3. CASE c # i
      <4>1. entry # w[i]
        BY <1>1, <3>1, <3>3
      <4>2. c2 \in 1..size' /\ w2[c2] = w[c]
        BY <1>0, <1>1, <1>2, <3>1, <3>3
      <4> QED
        BY <2>1, <2>4, <3>1, <4>1, <4>2 DEF PlaceOf
    <3> QED
      BY <3>2, <3>3
  <2> QED
    BY <2>2, <2>3, <2>4
<1>4. Stands(w2, v2, c2)'
  <2> QED
    BY <1>2, <1>3 DEF Stands, Took
<1>5. Values = v /\ Cursor = c /\ Len(v) = size
  BY Seen
<1>6. Values' = v2 /\ Cursor' = c2
  <2> QED
    BY <1>4, SeenNext
<1>7. AsSequence!Delete(i)
  <2> QED
    BY <1>0, <1>2, <1>5, <1>6 DEF AsSequence!Delete, AsSequence!Alive, Alive, Took
<1> QED
  BY <1>4, <1>7

LEMMA DeletesPassed ==
    ASSUME NEW w, NEW v, NEW c, Stands(w, v, c), Alive, ~lost,
           c \in 2..(size + 1), TakesOut(w, c - 1), Done(NULL)
    PROVE  (\E w2, v2, c2 : Stands(w2, v2, c2))' /\ AsSequence!RemovePassed
<1> DEFINE i == c - 1
<1>0. PICK w2, v2 : w2 = Cut(w, size, i) /\ v2 = Cut(v, size, i)
  OBVIOUS
<1>1. /\ size \in Nat /\ w \in [1..size -> LNode] /\ v \in [1..size -> Data] /\ i \in 1..size
      /\ c \in Nat
  BY DEF Stands, Linked
<1>2. /\ Linked(w2, v2, size', nodes', first', last')
      /\ AsSequence!RemoveAt(v, i) = v2
      /\ \A k \in 1..size : k # i => LET j == IF k > i THEN k - 1 ELSE k
                                     IN  j \in 1..size' /\ w2[j] = w[k]
  BY <1>0, <1>1, TakesOutLinked
<1>3. PlaceOf(w2, size', entry', lost', i)
  <2>1. size' = size - 1 /\ entry' = entry /\ lost' = lost
    BY DEF TakesOut, Done
  <2>2. CASE entry = NULL
    BY <1>0, <1>1, <2>1, <2>2 DEF Stands, PlaceOf
  <2>3. CASE entry # NULL
    <3>1. c \in 1..size /\ w[c] = entry
      BY <2>3 DEF Stands, PlaceOf
    <3>2. i \in 1..size' /\ w2[i] = w[c]
      BY <1>0, <1>1, <1>2, <3>1
    <3> QED
      BY <2>1, <2>3, <3>1, <3>2 DEF PlaceOf
  <2> QED
    BY <2>2, <2>3
<1>4. Stands(w2, v2, i)'
  <2> QED
    BY <1>2, <1>3 DEF Stands, Done
<1>5. Values = v /\ Cursor = c /\ Len(v) = size
  BY Seen
<1>6. Values' = v2 /\ Cursor' = c - 1
  <2> QED
    BY <1>4, SeenNext
<1>7. AsSequence!RemovePassed
  <2> QED
    BY <1>0, <1>2, <1>5, <1>6 DEF AsSequence!RemovePassed, AsSequence!Alive, Alive, Done
<1> QED
  BY <1>4, <1>7

-----------------------------------------------------------------------------
(* The pointers of a state, by index.                                        *)
LEMMA Neighbours ==
    ASSUME NEW w, NEW v, NEW c, Stands(w, v, c), NEW i \in 1..size
    PROVE  /\ w[i] \in Live /\ w[i] \in LNode /\ w[i] # NULL
           /\ Next(w[i]) = At(w, size, i + 1) /\ Previous(w[i]) = At(w, size, i - 1)
           /\ nodes[w[i]].data = v[i] /\ v[i] \in Data
<1>1. /\ size \in Nat /\ w \in [1..size -> LNode] /\ v \in [1..size -> Data]
      /\ Live = {w[j] : j \in 1..size}
      /\ nodes[w[i]] = Node(v[i], At(w, size, i + 1), At(w, size, i - 1))
  BY DEF Stands, Linked, Live
<1>2. w[i] \in Live /\ w[i] \in LNode /\ w[i] # NULL /\ v[i] \in Data
  BY <1>1, NullAssumption
<1>3. /\ nodes[w[i]].next = At(w, size, i + 1) /\ nodes[w[i]].previous = At(w, size, i - 1)
      /\ nodes[w[i]].data = v[i]
  BY <1>1 DEF Node
<1> QED
  BY <1>2, <1>3 DEF Next, Previous

LEMMA Ends ==
    ASSUME NEW w, NEW v, NEW c, Stands(w, v, c)
    PROVE  /\ size \in Nat
           /\ first = At(w, size, 1) /\ last = At(w, size, size)
           /\ size = 0 => first = NULL /\ last = NULL
           /\ size > 0 => /\ 1 \in 1..size /\ size \in 1..size
                          /\ first = w[1] /\ last = w[size]
BY DEF Stands, Linked, At

LEMMA IsSomewhere ==
    ASSUME NEW w, NEW v, NEW c, Stands(w, v, c), NEW n \in Live
    PROVE  \E i \in 1..size : n = w[i]
BY DEF Stands, Linked, Live

LEMMA Walks ==
    ASSUME NEW w, NEW v, NEW c, Stands(w, v, c)
    PROVE  \A k \in 0..size : FromFirst[k] = At(w, size, k + 1) /\ FromLast[k] = At(w, size, size - k)
<1>1. FromFirst = Ahead(nodes, first)
  BY DEF FromFirst, Next, Live, Ahead
<1>2. FromLast = Behind(nodes, last)
  BY DEF FromLast, Previous, Live, Behind
<1> QED
  BY <1>1, <1>2, WalksMeetAll DEF Stands

LEMMA EntryAt ==
    ASSUME NEW w, NEW v, NEW c, Stands(w, v, c), NEW index \in 0..(size - 1)
    PROVE  llist_get_entry(index) = w[index + 1]
<1>1. size \in Nat
  BY Ends
<1>2. FromFirst[index] = At(w, size, index + 1) /\ FromLast[size - 1 - index] = At(w, size, size - (size - 1 - index))
  BY <1>1, Walks
<1>3. size - (size - 1 - index) = index + 1 /\ index + 1 \in 1..size
  BY <1>1
<1> QED
  BY <1>2, <1>3 DEF llist_get_entry, At

(* Where a value is, from either end.                                        *)
LEMMA Places ==
    ASSUME NEW w, NEW v, NEW c, Stands(w, v, c), NEW d
    PROVE  /\ AheadOf(d) = {k \in 0..(size - 1) : v[k + 1] = d}
           /\ BehindOf(d) = {k \in 0..(size - 1) : v[size - k] = d}
<1>1. size \in Nat
  BY Ends
<1>2. ASSUME NEW k \in 0..(size - 1)
      PROVE  nodes[FromFirst[k]].data = v[k + 1] /\ nodes[FromLast[k]].data = v[size - k]
  <2>1. k + 1 \in 1..size /\ size - k \in 1..size
    BY <1>1
  <2>2. FromFirst[k] = w[k + 1] /\ FromLast[k] = w[size - k]
    BY <1>1, <2>1, Walks DEF At
  <2> QED
    BY <2>1, <2>2, Neighbours
<1> QED
  BY <1>2 DEF AheadOf, BehindOf

LEMMA MinOf ==
    ASSUME NEW S \in SUBSET Nat, S # {}
    PROVE  Min(S) \in S /\ \A n \in S : Min(S) <= n
<1>1. \E m \in S : \A n \in S : m <= n
  BY LeastNumber
<1> QED
  BY <1>1 DEF Min

-----------------------------------------------------------------------------
(* What each piece of code does, as an insertion or a removal at an index.   *)
LEMMA AddFirstPuts ==
    ASSUME NEW w, NEW v, NEW c, Stands(w, v, c), NEW n, NEW d, AddFirst(n, d)
    PROVE  PutsIn(w, 1, n, d) /\ 1 \in 1..(size + 1)
<1>1. /\ size \in Nat
      /\ size = 0 => first = NULL /\ last = NULL
      /\ size > 0 => first = w[1] /\ 1 \in 1..size
  BY Ends
<1>2. size > 0 => w[1] # NULL
  BY <1>1, Neighbours
<1>3. At(w, size, 1 - 1) = NULL /\ At(w, size, 1) = first
  BY <1>1 DEF At
<1>4. CASE size = 0
  BY <1>1, <1>3, <1>4 DEF AddFirst, PutsIn, PutIn, SetNext, SetPrevious
<1>5. CASE size > 0
  BY <1>1, <1>2, <1>3, <1>5 DEF AddFirst, PutsIn, PutIn, SetNext
<1> QED
  BY <1>1, <1>4, <1>5

LEMMA AddLastPuts ==
    ASSUME NEW w, NEW v, NEW c, Stands(w, v, c), NEW n, NEW d, AddLast(n, d)
    PROVE  PutsIn(w, size + 1, n, d) /\ size + 1 \in 1..(size + 1)
<1>1. /\ size \in Nat
      /\ size = 0 => first = NULL /\ last = NULL
      /\ size > 0 => last = w[size] /\ size \in 1..size
  BY Ends
<1>2. size > 0 => w[size] # NULL
  BY <1>1, Neighbours
<1>3. At(w, size, (size + 1) - 1) = last /\ At(w, size, size + 1) = NULL
  BY <1>1 DEF At
<1>4. CASE size = 0
  BY <1>1, <1>3, <1>4 DEF AddLast, PutsIn, PutIn, SetNext, SetPrevious
<1>5. CASE size > 0
  BY <1>1, <1>2, <1>3, <1>5 DEF AddLast, PutsIn, PutIn, SetPrevious
<1> QED
  BY <1>1, <1>4, <1>5

LEMMA LinkPuts ==
    ASSUME NEW w, NEW i, NEW n, NEW d, Link(n, d, At(w, size, i - 1), At(w, size, i))
    PROVE  PutsIn(w, i, n, d)
BY DEF Link, PutsIn, PutIn

LEMMA RemoveFirstTakes ==
    ASSUME NEW w, NEW v, NEW c, Stands(w, v, c), size > 0, RemoveFirstNode
    PROVE  TakesOut(w, 1)
<1>1. size \in Nat /\ first = w[1] /\ 1 \in 1..size
  BY Ends
<1>2. Next(w[1]) = At(w, size, 1 + 1)
  BY <1>1, Neighbours
<1>3. At(w, size, 1 - 1) = NULL
  BY <1>1 DEF At
<1> QED
  BY <1>1, <1>2, <1>3 DEF RemoveFirstNode, TakesOut, TakenOut, SetNext

LEMMA RemoveLastTakes ==
    ASSUME NEW w, NEW v, NEW c, Stands(w, v, c), size > 0, RemoveLastNode
    PROVE  TakesOut(w, size)
<1>1. size \in Nat /\ last = w[size] /\ size \in 1..size
  BY Ends
<1>2. Previous(w[size]) = At(w, size, size - 1)
  BY <1>1, Neighbours
<1>3. At(w, size, size + 1) = NULL
  BY <1>1 DEF At
<1> QED
  BY <1>1, <1>2, <1>3 DEF RemoveLastNode, TakesOut, TakenOut, SetPrevious

LEMMA RemoveEntryTakes ==
    ASSUME NEW w, NEW v, NEW c, Stands(w, v, c), NEW i \in 1..size, llist_remove_entry(w[i])
    PROVE  TakesOut(w, i)
<1> DEFINE p == At(w, size, i - 1)
           q == At(w, size, i + 1)
<1>1. /\ size \in Nat /\ size > 0 /\ first = w[1] /\ last = w[size]
      /\ w \in [1..size -> LNode] /\ \A j, k \in 1..size : w[j] = w[k] => j = k
  <2>1. Linked(w, v, size, nodes, first, last)
    BY DEF Stands
  <2>2. w \in [1..size -> LNode] /\ \A j, k \in 1..size : w[j] = w[k] => j = k
    BY <2>1 DEF Linked
  <2>3. size \in Nat /\ (size > 0 => first = w[1] /\ last = w[size])
    BY Ends
  <2>4. size > 0
    BY <2>3
  <2> QED
    BY <2>2, <2>3, <2>4
<1>2. Next(w[i]) = q /\ Previous(w[i]) = p
  BY Neighbours
<1>3. w[i] = first <=> i = 1
  BY <1>1
<1>4. w[i] = last <=> i = size
  BY <1>1
<1>5. /\ i = 1 => p = NULL
      /\ i = size => q = NULL
      /\ i # 1 => p # NULL
      /\ i # size => q # NULL
  BY <1>1, NullAssumption DEF At
<1>6. size' = size - 1
  BY DEF llist_remove_entry
<1> HIDE DEF p, q
<1>7. /\ nodes' = TakenOut(nodes, w[i], p, q)
      /\ first' = IF p = NULL THEN q ELSE first
      /\ last' = IF q = NULL THEN p ELSE last
  <2>1. CASE size = 1
    <3>1. i = 1 /\ i = size
      BY <2>1
    <3>2. p = NULL /\ q = NULL
      BY <1>5, <3>1
    <3> QED
      BY <2>1, <3>2 DEF llist_remove_entry, TakenOut, SetNext, SetPrevious
  <2>2. CASE size # 1 /\ i = 1
    BY <1>1, <1>2, <1>3, <1>5, <2>2 DEF llist_remove_entry, TakenOut, SetNext
  <2>3. CASE size # 1 /\ i # 1 /\ i = size
    BY <1>2, <1>3, <1>4, <1>5, <2>3 DEF llist_remove_entry, TakenOut, SetPrevious
  <2>4. CASE size # 1 /\ i # 1 /\ i # size
    BY <1>2, <1>3, <1>4, <1>5, <2>4 DEF llist_remove_entry, TakenOut
  <2> QED
    BY <2>1, <2>2, <2>3, <2>4
<1> QED
  BY <1>6, <1>7 DEF TakesOut, p, q

-----------------------------------------------------------------------------
(* The calls, each a step of the abstract list.                              *)
NextStands == (\E w, v, c : Stands(w, v, c))'

LEMMA AddFirstCall ==
    ASSUME NEW w, NEW v, NEW c, Stands(w, v, c), NEW d \in Data, llist_add_first(d)
    PROVE  NextStands /\ result' = NULL /\ AsSequence!Insert(1, d)
<1>1. PICK n \in Free : AddFirst(n, d)
  BY DEF llist_add_first
<1>2. Alive /\ Done(NULL)
  BY DEF llist_add_first
<1>3. PutsIn(w, 1, n, d) /\ 1 \in 1..(size + 1)
  BY <1>1, AddFirstPuts
<1> QED
  BY <1>2, <1>3, Inserts DEF NextStands, Done

LEMMA AddLastCall ==
    ASSUME NEW w, NEW v, NEW c, Stands(w, v, c), NEW d \in Data, llist_add_last(d)
    PROVE  NextStands /\ result' = NULL /\ AsSequence!Insert(size + 1, d)
<1>1. PICK n \in Free : AddLast(n, d)
  BY DEF llist_add_last
<1>2. Alive /\ Done(NULL)
  BY DEF llist_add_last
<1>3. PutsIn(w, size + 1, n, d) /\ size + 1 \in 1..(size + 1)
  BY <1>1, AddLastPuts
<1> QED
  BY <1>2, <1>3, Inserts DEF NextStands, Done

LEMMA AddAtCall ==
    ASSUME NEW w, NEW v, NEW c, Stands(w, v, c), NEW d \in Data, NEW index \in 0..size,
           llist_add_at(index, d)
    PROVE  NextStands /\ result' = NULL /\ AsSequence!Insert(index + 1, d)
<1>1. size \in Nat
  BY Ends
<1>2. PICK n \in Free : IF index = size THEN AddLast(n, d)
                        ELSE Link(n, d, Previous(llist_get_entry(index)), llist_get_entry(index))
  BY <1>1 DEF llist_add_at
<1>3. Alive /\ Done(NULL)
  BY DEF llist_add_at
<1>4. PutsIn(w, index + 1, n, d) /\ index + 1 \in 1..(size + 1)
  <2>1. CASE index = size
    BY <1>2, <2>1, AddLastPuts
  <2>2. CASE index # size
    <3>1. index \in 0..(size - 1) /\ index + 1 \in 1..size
      BY <1>1, <2>2
    <3>2. llist_get_entry(index) = w[index + 1]
      BY <3>1, EntryAt
    <3>3. Previous(w[index + 1]) = At(w, size, (index + 1) - 1)
      BY <3>1, Neighbours
    <3>4. w[index + 1] = At(w, size, index + 1)
      BY <3>1 DEF At
    <3>5. Link(n, d, At(w, size, (index + 1) - 1), At(w, size, index + 1))
      BY <1>2, <2>2, <3>2, <3>3, <3>4
    <3>6. PutsIn(w, index + 1, n, d)
      BY <3>5, LinkPuts
    <3> QED
      BY <1>1, <3>1, <3>6
  <2> QED
    BY <2>1, <2>2
<1> QED
  BY <1>3, <1>4, Inserts DEF NextStands, Done

LEMMA AddBeforeCall ==
    ASSUME NEW w, NEW v, NEW c, Stands(w, v, c), NEW d \in Data, NEW i \in 1..size,
           lnode_add_before(w[i], d)
    PROVE  NextStands /\ result' = NULL /\ AsSequence!Insert(i, d)
<1>1. size \in Nat
  BY Ends
<1>2. Alive /\ Done(NULL)
  BY DEF lnode_add_before
<1>3. PICK n \in Free : IF Previous(w[i]) = NULL THEN AddFirst(n, d) ELSE Link(n, d, Previous(w[i]), w[i])
  BY DEF lnode_add_before
<1>4. Previous(w[i]) = At(w, size, i - 1) /\ w[i] = At(w, size, i)
  BY Neighbours DEF At
<1>5. PutsIn(w, i, n, d) /\ i \in 1..(size + 1)
  <2>1. CASE Previous(w[i]) = NULL
    <3>1. i = 1
      <4>1. ASSUME i # 1 PROVE FALSE
        <5>1. i - 1 \in 1..size
          BY <1>1, <4>1
        <5>2. w[i - 1] # NULL
          BY <5>1, Neighbours
        <5> QED
          BY <1>4, <2>1, <5>1, <5>2 DEF At
      <4> QED
        BY <4>1
    <3> QED
      BY <1>3, <2>1, <3>1, AddFirstPuts
  <2>2. CASE Previous(w[i]) # NULL
    <3>1. Link(n, d, At(w, size, i - 1), At(w, size, i))
      BY <1>3, <1>4, <2>2
    <3>2. PutsIn(w, i, n, d)
      BY <3>1, LinkPuts
    <3> QED
      BY <1>1, <3>2
  <2> QED
    BY <2>1, <2>2
<1> QED
  BY <1>2, <1>5, Inserts DEF NextStands, Done

LEMMA AddAfterCall ==
    ASSUME NEW w, NEW v, NEW c, Stands(w, v, c), NEW d \in Data, NEW i \in 1..size,
           lnode_add_after(w[i], d)
    PROVE  NextStands /\ result' = NULL /\ AsSequence!Insert(i + 1, d)
<1>1. size \in Nat
  BY Ends
<1>2. Alive /\ Done(NULL)
  BY DEF lnode_add_after
<1>3. PICK n \in Free : IF Next(w[i]) = NULL THEN AddLast(n, d) ELSE Link(n, d, w[i], Next(w[i]))
  BY DEF lnode_add_after
<1>4. Next(w[i]) = At(w, size, i + 1) /\ w[i] = At(w, size, (i + 1) - 1)
  BY Neighbours DEF At
<1>5. PutsIn(w, i + 1, n, d) /\ i + 1 \in 1..(size + 1)
  <2>1. CASE Next(w[i]) = NULL
    <3>1. i = size
      <4>1. ASSUME i # size PROVE FALSE
        <5>1. i + 1 \in 1..size
          BY <1>1, <4>1
        <5>2. w[i + 1] # NULL
          BY <5>1, Neighbours
        <5> QED
          BY <1>4, <2>1, <5>1, <5>2 DEF At
      <4> QED
        BY <4>1
    <3> QED
      BY <1>3, <2>1, <3>1, AddLastPuts
  <2>2. CASE Next(w[i]) # NULL
    <3>1. Link(n, d, At(w, size, (i + 1) - 1), At(w, size, i + 1))
      BY <1>3, <1>4, <2>2
    <3>2. PutsIn(w, i + 1, n, d)
      BY <3>1, LinkPuts
    <3> QED
      BY <1>1, <3>2
  <2> QED
    BY <2>1, <2>2
<1> QED
  BY <1>2, <1>5, Inserts DEF NextStands, Done

LEMMA IteratorAddCall ==
    ASSUME NEW w, NEW v, NEW c, Stands(w, v, c), NEW d \in Data, llist_iterator_add(d)
    PROVE  NextStands /\ result' = NULL /\ AsSequence!Insert(c, d)
<1>1. size \in Nat
  BY Ends
<1>2. Alive /\ ~lost /\ Done(NULL)
  BY DEF llist_iterator_add
<1>3. PICK n \in Free : IF entry = NULL THEN AddLast(n, d) ELSE Link(n, d, Previous(entry), entry)
  BY DEF llist_iterator_add
<1>4. PutsIn(w, c, n, d) /\ c \in 1..(size + 1)
  <2>1. CASE entry = NULL
    <3>1. c = size + 1
      BY <1>2, <2>1 DEF Stands, PlaceOf
    <3> QED
      BY <1>3, <2>1, <3>1, AddLastPuts
  <2>2. CASE entry # NULL
    <3>1. c \in 1..size /\ w[c] = entry
      BY <1>2, <2>2 DEF Stands, PlaceOf
    <3>2. Previous(w[c]) = At(w, size, c - 1) /\ w[c] = At(w, size, c)
      BY <3>1, Neighbours DEF At
    <3>3. Link(n, d, At(w, size, c - 1), At(w, size, c))
      BY <1>3, <2>2, <3>1, <3>2
    <3>4. PutsIn(w, c, n, d)
      BY <3>3, LinkPuts
    <3> QED
      BY <1>1, <3>1, <3>4
  <2> QED
    BY <2>1, <2>2
<1> QED
  BY <1>2, <1>4, Inserts DEF NextStands, Done

-----------------------------------------------------------------------------
LEMMA RemoveFirstCall ==
    ASSUME NEW w, NEW v, NEW c, Stands(w, v, c), llist_remove_first, size > 0
    PROVE  NextStands /\ result' = v[1] /\ AsSequence!Delete(1)
<1>1. size \in Nat /\ 1 \in 1..size /\ first = w[1]
  BY Ends
<1>2. Alive /\ RemoveFirstNode /\ Took(w[1], nodes[w[1]].data)
  BY <1>1 DEF llist_remove_first
<1>3. nodes[w[1]].data = v[1]
  BY <1>1, Neighbours
<1>4. TakesOut(w, 1)
  BY <1>2, RemoveFirstTakes
<1> QED
  BY <1>1, <1>2, <1>3, <1>4, Deletes DEF NextStands, Took

LEMMA RemoveLastCall ==
    ASSUME NEW w, NEW v, NEW c, Stands(w, v, c), llist_remove_last, size > 0
    PROVE  NextStands /\ result' = v[size] /\ AsSequence!Delete(size)
<1>1. size \in Nat /\ size \in 1..size /\ last = w[size]
  BY Ends
<1>2. Alive /\ RemoveLastNode /\ Took(w[size], nodes[w[size]].data)
  BY <1>1 DEF llist_remove_last
<1>3. nodes[w[size]].data = v[size]
  BY <1>1, Neighbours
<1>4. TakesOut(w, size)
  BY <1>2, RemoveLastTakes
<1> QED
  BY <1>1, <1>2, <1>3, <1>4, Deletes DEF NextStands, Took

LEMMA RemoveAtCall ==
    ASSUME NEW w, NEW v, NEW c, Stands(w, v, c), NEW index \in 0..(size - 1), llist_remove_at(index)
    PROVE  NextStands /\ result' = v[index + 1] /\ AsSequence!Delete(index + 1)
<1>1. size \in Nat /\ index + 1 \in 1..size
  BY Ends
<1>2. llist_get_entry(index) = w[index + 1]
  BY EntryAt
<1>3. nodes[w[index + 1]].data = v[index + 1]
  BY <1>1, Neighbours
<1>4. Alive /\ llist_remove_entry(w[index + 1]) /\ Took(w[index + 1], v[index + 1])
  BY <1>1, <1>2, <1>3 DEF llist_remove_at
<1>5. TakesOut(w, index + 1)
  BY <1>1, <1>4, RemoveEntryTakes
<1> QED
  BY <1>1, <1>4, <1>5, Deletes DEF NextStands, Took

LEMMA NodeRemoveCall ==
    ASSUME NEW w, NEW v, NEW c, Stands(w, v, c), NEW i \in 1..size, lnode_remove(w[i])
    PROVE  NextStands /\ result' = NULL /\ AsSequence!Delete(i)
<1>1. Alive /\ llist_remove_entry(w[i]) /\ Took(w[i], NULL)
  BY DEF lnode_remove
<1>2. TakesOut(w, i)
  BY <1>1, RemoveEntryTakes
<1> QED
  BY <1>1, <1>2, Deletes DEF NextStands, Took

(* A call that leaves the list and its iterator as they are.                 *)
LEMMA Stays ==
    ASSUME NEW w, NEW v, NEW c, Stands(w, v, c), UNCHANGED <<list, entry, lost>>
    PROVE  NextStands /\ Values' = Values /\ Cursor' = Cursor
<1>1. Stands(w, v, c)'
  BY DEF Stands, list
<1>2. Values = v /\ Cursor = c
  BY Seen
<1>3. Values' = v /\ Cursor' = c
  BY <1>1, SeenNext
<1> QED
  BY <1>1, <1>2, <1>3 DEF NextStands

(* A call that returns the value at index pos, or NULL if there is none.     *)
LEMMA Gets ==
    ASSUME NEW w, NEW v, NEW c, Stands(w, v, c), Alive, NEW pos \in 0..(size + 1),
           NEW res, Nothing(res), res = IF pos \in 1..size THEN v[pos] ELSE NULL
    PROVE  NextStands /\ result' = res /\ res \in Data \cup {NULL} /\ AsSequence!Get(pos)
<1>1. UNCHANGED <<list, entry, lost>> /\ result' = res
  BY DEF Nothing, Done
<1>2. NextStands /\ Values' = Values /\ Cursor' = Cursor
  BY <1>1, Stays
<1>3. Values = v /\ Len(v) = size /\ v \in Seq(Data)
  BY Seen
<1>4. res \in Data \cup {NULL}
  <2>1. pos \in 1..size => v[pos] \in Data
    BY Neighbours
  <2> QED
    BY <2>1
<1>5. AsSequence!Get(pos)
  BY <1>1, <1>2, <1>3 DEF AsSequence!Get, AsSequence!Alive, Alive
<1> QED
  BY <1>1, <1>2, <1>4, <1>5

LEMMA IteratorRemoveCall ==
    ASSUME NEW w, NEW v, NEW c, Stands(w, v, c), llist_iterator_remove
    PROVE  /\ NextStands /\ result' \in {NULL, Died}
           /\ AsSequence!Misuse \/ AsSequence!RemovePassed
<1>1. size \in Nat /\ Alive /\ ~lost
  BY Ends DEF llist_iterator_remove
<1>2. CASE first = entry
  <2>1. UNCHANGED <<list, entry, lost>> /\ result' = Died
    BY <1>2 DEF llist_iterator_remove, Nothing, Done
  <2>2. c = 1
    <3>1. CASE size = 0
      BY <1>1, <1>2, <3>1, Ends DEF Stands, PlaceOf
    <3>2. CASE size > 0
      <4>1. first = w[1] /\ 1 \in 1..size /\ first # NULL
        BY <3>2, Ends, Neighbours
      <4>2. c \in 1..size /\ w[c] = w[1]
        BY <1>1, <1>2, <4>1 DEF Stands, PlaceOf
      <4> QED
        BY <4>1, <4>2 DEF Stands, Linked
    <3> QED
      BY <1>1, <3>1, <3>2
  <2>3. Cursor = 1
    BY <2>2, Seen
  <2>4. NextStands /\ Values' = Values /\ Cursor' = Cursor
    BY <2>1, Stays
  <2> QED
    BY <1>1, <2>1, <2>3, <2>4 DEF AsSequence!Misuse, AsSequence!Alive, Alive
<1>3. CASE first # entry
  <2>1. /\ llist_remove_entry(IF entry = NULL THEN last ELSE Previous(entry))
        /\ Done(NULL)
    BY <1>3 DEF llist_iterator_remove
  <2>2. /\ c \in 2..(size + 1) /\ c - 1 \in 1..size
        /\ (IF entry = NULL THEN last ELSE Previous(entry)) = w[c - 1]
    <3>1. CASE entry = NULL
      <4>1. size # 0
        BY <1>3, <3>1, Ends
      <4>2. c = size + 1 /\ last = w[size]
        BY <1>1, <3>1, <4>1, Ends DEF Stands, PlaceOf
      <4>3. c - 1 = size
        BY <1>1, <4>2
      <4> QED
        BY <1>1, <3>1, <4>1, <4>2, <4>3
    <3>2. CASE entry # NULL
      <4>1. c \in 1..size /\ w[c] = entry
        BY <1>1, <3>2 DEF Stands, PlaceOf
      <4>2. c # 1
        BY <1>1, <1>3, <4>1, Ends
      <4>3. c - 1 \in 1..size
        BY <1>1, <4>1, <4>2
      <4>4. Previous(entry) = w[c - 1]
        BY <4>1, <4>3, Neighbours DEF At
      <4> QED
        BY <1>1, <3>2, <4>1, <4>2, <4>3, <4>4
    <3> QED
      BY <3>1, <3>2
  <2>3. TakesOut(w, c - 1)
    BY <2>1, <2>2, RemoveEntryTakes
  <2> QED
    BY <1>1, <2>1, <2>2, <2>3, DeletesPassed DEF NextStands, Done
<1> QED
  BY <1>2, <1>3

-----------------------------------------------------------------------------
LEMMA ClearCall ==
    ASSUME NEW w, NEW v, NEW c, Stands(w, v, c), llist_clear
    PROVE  NextStands /\ result' = NULL /\ AsSequence!Clear
<1>0. PICK c2 : c2 = IF c = size + 1 THEN 1 ELSE 0
  OBVIOUS
<1>1. /\ Alive /\ nodes' = <<>> /\ first' = NULL /\ last' = NULL /\ size' = 0
      /\ lost' = (lost \/ entry # NULL) /\ result' = NULL /\ entry' = entry
  BY DEF llist_clear
<1>2. Linked(<<>>, <<>>, 0, <<>>, NULL, NULL)
  BY DEF Linked, At
<1>3. size \in Nat
  BY Ends
<1>4. lost' \in BOOLEAN /\ entry' \in LNode \cup {NULL} /\ PlaceOf(<<>>, 0, entry', lost', c2)
  <2>1. CASE lost
    <3>1. c = 0 /\ lost'
      BY <1>1, <2>1 DEF Stands, PlaceOf
    <3>2. c2 = 0
      BY <1>0, <1>3, <3>1
    <3> QED
      BY <1>1, <3>1, <3>2 DEF PlaceOf, Stands
  <2>2. CASE ~lost /\ entry = NULL
    BY <1>0, <1>1, <2>2 DEF PlaceOf, Stands
  <2>3. CASE ~lost /\ entry # NULL
    <3>1. c \in 1..size /\ lost'
      BY <1>1, <2>3 DEF Stands, PlaceOf
    <3>2. c2 = 0
      BY <1>0, <1>3, <3>1
    <3> QED
      BY <1>1, <3>1, <3>2 DEF PlaceOf, Stands
  <2> QED
    BY <2>1, <2>2, <2>3
<1>5. Stands(<<>>, <<>>, c2)'
  BY <1>1, <1>2, <1>4 DEF Stands
<1>6. Values = v /\ Len(v) = size /\ Cursor = c
  BY Seen
<1>7. Values' = <<>> /\ Cursor' = c2
  BY <1>5, SeenNext
<1>8. AsSequence!Clear
  BY <1>0, <1>1, <1>6, <1>7 DEF AsSequence!Clear, AsSequence!Alive, Alive
<1> QED
  BY <1>1, <1>5, <1>8 DEF NextStands

LEMMA ReverseCall ==
    ASSUME NEW w, NEW v, NEW c, Stands(w, v, c), llist_reverse
    PROVE  NextStands /\ result' = NULL /\ AsSequence!TurnAround
<1>0. PICK v2 : v2 = [i \in 1..size |-> v[(size - i) + 1]]
  OBVIOUS
<1> DEFINE Place(n) == CHOOSE j \in 0..(size - 1) : FromFirst[j] = n
<1>1. /\ Alive /\ first' = first /\ last' = last /\ size' = size
      /\ result' = NULL /\ entry' = entry /\ lost' = lost
      /\ nodes' = [n \in Live |-> [nodes[n] EXCEPT !.data = nodes[FromFirst[size - 1 - Place(n)]].data]]
  BY DEF llist_reverse, Done
<1>2. /\ size \in Nat /\ w \in [1..size -> LNode] /\ v \in [1..size -> Data]
      /\ \A j, k \in 1..size : w[j] = w[k] => j = k
      /\ Live = {w[j] : j \in 1..size} /\ Live = DOMAIN nodes
      /\ \A j \in 1..size : nodes[w[j]] = Node(v[j], At(w, size, j + 1), At(w, size, j - 1))
  BY DEF Stands, Linked, Live
<1>3. ASSUME NEW i \in 1..size PROVE nodes'[w[i]] = Node(v2[i], At(w, size, i + 1), At(w, size, i - 1))
  <2>1. 1 + Place(w[i]) = i /\ Place(w[i]) \in Int
    <3>1. Index(w[i]) = i
      BY Seen
    <3>2. i - 1 \in 0..(size - 1) /\ FromFirst[i - 1] = w[i]
      <4>1. i - 1 \in 0..(size - 1) /\ i - 1 \in 0..size /\ (i - 1) + 1 = i
        BY <1>2
      <4>2. FromFirst[i - 1] = At(w, size, (i - 1) + 1)
        BY <4>1, Walks
      <4> QED
        BY <4>1, <4>2 DEF At
    <3>3. Place(w[i]) \in 0..(size - 1)
      BY <3>2
    <3> QED
      BY <3>1, <3>3 DEF Index
  <2> HIDE DEF Place
  <2>2. size - 1 - Place(w[i]) = size - i /\ size - i \in 0..(size - 1) /\ (size - i) + 1 \in 1..size
    BY <1>2, <2>1
  <2>3. FromFirst[size - i] = w[(size - i) + 1]
    BY <1>2, <2>2, Walks DEF At
  <2>4. nodes[w[(size - i) + 1]].data = v[(size - i) + 1]
    BY <2>2, Neighbours
  <2>5. nodes'[w[i]] = [nodes[w[i]] EXCEPT !.data = v2[i]]
    BY <1>0, <1>1, <1>2, <2>2, <2>3, <2>4
  <2>6. nodes[w[i]] = Node(v[i], At(w, size, i + 1), At(w, size, i - 1))
    BY <1>2
  <2> QED
    BY <2>5, <2>6 DEF Node
<1>4. DOMAIN nodes' = {w[j] : j \in 1..size} /\ nodes' = [n \in DOMAIN nodes' |-> nodes'[n]]
  BY <1>1, <1>2
<1>5. v2 \in [1..size -> Data]
  BY <1>0, <1>2
<1>6. Linked(w, v2, size', nodes', first', last')
  BY <1>1, <1>2, <1>3, <1>4, <1>5, Ends DEF Linked
<1>7. Stands(w, v2, c)'
  BY <1>1, <1>6 DEF Stands
<1>8. Values = v /\ Len(v) = size /\ Cursor = c
  BY Seen
<1>9. Values' = v2 /\ Cursor' = c
  BY <1>7, SeenNext
<1>10. AsSequence!TurnAround
  BY <1>0, <1>1, <1>8, <1>9 DEF AsSequence!TurnAround, AsSequence!Reverse, AsSequence!Alive, Alive
<1> QED
  BY <1>1, <1>7, <1>10 DEF NextStands

-----------------------------------------------------------------------------
(* The iterator.                                                             *)
LEMMA RestartCall ==
    ASSUME NEW w, NEW v, NEW c, Stands(w, v, c), llist_iterator_restart
    PROVE  NextStands /\ result' = NULL /\ AsSequence!Restart
<1>1. Alive /\ entry' = first /\ lost' = FALSE /\ result' = NULL /\ UNCHANGED list
  BY DEF llist_iterator_restart
<1>2. /\ size \in Nat
      /\ size = 0 => first = NULL
      /\ size > 0 => first = w[1] /\ 1 \in 1..size
  BY Ends
<1>3. size > 0 => w[1] # NULL /\ w[1] \in LNode
  BY <1>2, Neighbours
<1>4. entry' \in LNode \cup {NULL} /\ PlaceOf(w, size, entry', lost', 1)
  BY <1>1, <1>2, <1>3 DEF PlaceOf
<1>5. Stands(w, v, 1)'
  BY <1>1, <1>4 DEF Stands, list
<1>6. Values' = v /\ Values = v /\ Cursor' = 1
  BY <1>5, Seen, SeenNext
<1> QED
  BY <1>1, <1>5, <1>6 DEF NextStands, AsSequence!Restart, AsSequence!Alive, Alive

LEMMA NextCall ==
    ASSUME NEW w, NEW v, NEW c, Stands(w, v, c), llist_iterator_next
    PROVE  NextStands /\ result' \in Data /\ AsSequence!Forward
<1>1. Alive /\ ~lost /\ entry # NULL /\ result' = nodes[entry].data /\ entry' = Next(entry) /\ UNCHANGED <<list, lost>>
  BY DEF llist_iterator_next
<1>2. c \in 1..size /\ w[c] = entry /\ size \in Nat
  BY <1>1, Ends DEF Stands, PlaceOf
<1>3. entry' = At(w, size, c + 1) /\ result' = v[c] /\ v[c] \in Data
  BY <1>1, <1>2, Neighbours
<1>4. entry' \in LNode \cup {NULL} /\ PlaceOf(w, size, entry', lost', c + 1)
  <2>1. CASE c = size
    <3>1. entry' = NULL
      BY <1>2, <1>3, <2>1 DEF At
    <3> QED
      BY <1>1, <1>2, <2>1, <3>1 DEF PlaceOf
  <2>2. CASE c < size
    <3>1. c + 1 \in 1..size
      BY <1>2, <2>2
    <3>2. entry' = w[c + 1] /\ w[c + 1] # NULL /\ w[c + 1] \in LNode
      BY <1>3, <3>1, Neighbours DEF At
    <3> QED
      BY <1>1, <3>1, <3>2 DEF PlaceOf
  <2> QED
    BY <1>2, <2>1, <2>2
<1>5. Stands(w, v, c + 1)'
  BY <1>1, <1>4 DEF Stands, list
<1>6. Values' = v /\ Values = v /\ Len(v) = size /\ Cursor = c /\ Cursor' = c + 1
  BY <1>5, Seen, SeenNext
<1> QED
  BY <1>1, <1>2, <1>3, <1>5, <1>6 DEF NextStands, AsSequence!Forward, AsSequence!Alive, Alive

LEMMA PreviousCall ==
    ASSUME NEW w, NEW v, NEW c, Stands(w, v, c), llist_iterator_previous
    PROVE  NextStands /\ result' \in Data /\ AsSequence!Back
<1> DEFINE n == IF entry = NULL THEN last ELSE Previous(entry)
<1>1. Alive /\ ~lost /\ n # NULL /\ entry' = n /\ result' = nodes[n].data /\ UNCHANGED <<list, lost>>
  BY DEF llist_iterator_previous
<1>2. c - 1 \in 1..size /\ n = w[c - 1] /\ size \in Nat /\ c \in 2..(size + 1)
  <2>1. CASE entry = NULL
    <3>1. c = size + 1 /\ size # 0 /\ size \in Nat
      BY <1>1, <2>1, Ends DEF Stands, PlaceOf
    <3>2. n = w[size] /\ c - 1 = size
      BY <2>1, <3>1, Ends
    <3> QED
      BY <3>1, <3>2
  <2>2. CASE entry # NULL
    <3>1. c \in 1..size /\ w[c] = entry /\ size \in Nat
      BY <1>1, <2>2, Ends DEF Stands, PlaceOf
    <3>2. n = At(w, size, c - 1)
      BY <2>2, <3>1, Neighbours
    <3>3. c - 1 \in 1..size
      BY <1>1, <3>1, <3>2 DEF At
    <3> QED
      BY <3>1, <3>2, <3>3 DEF At
  <2> QED
    BY <2>1, <2>2
<1> HIDE DEF n
<1>3. result' = v[c - 1] /\ v[c - 1] \in Data /\ n \in LNode
  BY <1>1, <1>2, Neighbours
<1>4. PlaceOf(w, size, entry', lost', c - 1)
  BY <1>1, <1>2 DEF PlaceOf
<1>5. Stands(w, v, c - 1)'
  BY <1>1, <1>3, <1>4 DEF Stands, list
<1>6. Values' = v /\ Values = v /\ Len(v) = size /\ Cursor = c /\ Cursor' = c - 1
  BY <1>5, Seen, SeenNext
<1> QED
  BY <1>1, <1>2, <1>3, <1>5, <1>6 DEF NextStands, AsSequence!Back, AsSequence!Alive, Alive

-----------------------------------------------------------------------------
(* The list is as long as there are nodes, and there is memory for them.     *)
LEMMA Counted ==
    ASSUME NEW w, NEW v, NEW c, Stands(w, v, c)
    PROVE  /\ size = Cardinality(Live) /\ size <= Cardinality(LNode)
           /\ size \in Nat /\ Cardinality(LNode) \in Nat \ {0}
<1>1. /\ size \in Nat /\ w \in [1..size -> LNode]
      /\ \A j, k \in 1..size : w[j] = w[k] => j = k
      /\ Live = {w[j] : j \in 1..size}
  BY DEF Stands, Linked, Live
<1>2. w \in Bijection(1..size, Live)
  <2>1. w \in [1..size -> Live]
    BY <1>1
  <2>2. \A n \in Live : \E j \in 1..size : w[j] = n
    BY <1>1
  <2> QED
    BY <1>1, <2>1, <2>2 DEF Bijection, Injection, Surjection, IsInjective
<1>3. IsFiniteSet(1..size) /\ Cardinality(1..size) = size
  BY <1>1, FS_Interval
<1>4. Cardinality(Live) = size
  BY <1>2, <1>3, FS_Bijection DEF ExistsBijection
<1>5. Live \in SUBSET LNode
  BY <1>1
<1>6. Cardinality(Live) <= Cardinality(LNode)
  BY <1>5, FS_Subset, MemoryAssumption
<1>7. Cardinality(LNode) \in Nat
  BY FS_CardinalityType, MemoryAssumption
<1>8. Cardinality(LNode) # 0
  BY FS_EmptySet, MemoryAssumption
<1> QED
  BY <1>1, <1>4, <1>6, <1>7, <1>8

(* The first and the last place of a value, in the list and in the sequence. *)
LEMMA FirstPlace ==
    ASSUME NEW w, NEW v, NEW c, Stands(w, v, c), NEW d
    PROVE  /\ AsSequence!FirstIndex(d) - 1 = IF AheadOf(d) = {} THEN -1 ELSE Min(AheadOf(d))
           /\ AheadOf(d) # {} => /\ Min(AheadOf(d)) \in 0..(size - 1)
                                 /\ AsSequence!FirstIndex(d) = Min(AheadOf(d)) + 1
<1> DEFINE A == AheadOf(d)
           I == {i \in 1..size : v[i] = d}
<1>1. size \in Nat /\ A = {k \in 0..(size - 1) : v[k + 1] = d}
  BY Ends, Places
<1>2. Values = v /\ Len(v) = size
  BY Seen
<1>3. AsSequence!FirstIndex(d) = IF I # {} THEN AsSequence!Min(I) ELSE 0
  BY <1>2 DEF AsSequence!FirstIndex, AsSequence!SelectInSeq
<1> HIDE DEF A
<1>4. CASE A = {}
  <2>1. ASSUME NEW i \in I PROVE FALSE
    <3>1. i - 1 \in 0..(size - 1) /\ (i - 1) + 1 = i
      BY <1>1
    <3>2. i - 1 \in A
      BY <1>1, <3>1
    <3> QED
      BY <1>4, <3>2
  <2> QED
    BY <1>3, <1>4, <2>1 DEF A
<1>5. CASE A # {}
  <2> DEFINE k == Min(A)
  <2>1. A \in SUBSET Nat
    BY <1>1
  <2>2. k \in A /\ \A n \in A : k <= n
    BY <1>5, <2>1, MinOf
  <2> HIDE DEF k
  <2>3. k + 1 \in I /\ k \in 0..(size - 1)
    BY <1>1, <2>2
  <2>4. ASSUME NEW i \in I PROVE k + 1 <= i
    <3>1. i - 1 \in 0..(size - 1) /\ (i - 1) + 1 = i
      BY <1>1
    <3>2. i - 1 \in A
      BY <1>1, <3>1
    <3>3. k <= i - 1
      BY <2>2, <3>2
    <3> QED
      BY <2>3, <3>1, <3>3
  <2>5. I \subseteq Nat
    BY <1>1
  <2> DEFINE x == AsSequence!Min(I)
  <2>6. x \in I /\ \A i \in I : x <= i
    <3> HIDE DEF I
    <3> QED
      BY <2>3, <2>4 DEF AsSequence!Min
  <2> HIDE DEF x
  <2>7. x = k + 1
    <3>1. x <= k + 1 /\ k + 1 <= x
      BY <2>3, <2>4, <2>6
    <3>2. x \in Nat /\ k + 1 \in Nat
      BY <2>3, <2>5, <2>6
    <3> QED
      BY <3>1, <3>2
  <2>8. AsSequence!FirstIndex(d) = k + 1
    <3> HIDE DEF I
    <3> QED
      BY <1>3, <2>3, <2>7 DEF x
  <2>9. (k + 1) - 1 = k
    BY <2>3
  <2> QED
    BY <1>5, <2>3, <2>8, <2>9 DEF A, k
<1> QED
  BY <1>4, <1>5

LEMMA LastPlace ==
    ASSUME NEW w, NEW v, NEW c, Stands(w, v, c), NEW d
    PROVE  /\ AsSequence!LastIndex(d) - 1 = IF BehindOf(d) = {} THEN -1 ELSE size - 1 - Min(BehindOf(d))
           /\ BehindOf(d) # {} => size - 1 - Min(BehindOf(d)) \in 0..(size - 1)
<1> DEFINE B == BehindOf(d)
           I == {i \in 1..size : v[i] = d}
<1>1. size \in Nat /\ B = {k \in 0..(size - 1) : v[size - k] = d}
  BY Ends, Places
<1>2. Values = v /\ Len(v) = size
  BY Seen
<1>3. AsSequence!LastIndex(d) = IF I # {} THEN AsSequence!Max(I) ELSE 0
  BY <1>2 DEF AsSequence!LastIndex, AsSequence!SelectLastInSeq
<1> HIDE DEF B
<1>0. ASSUME NEW i \in I PROVE size - i \in B
  <2>1. size - i \in 0..(size - 1) /\ size - (size - i) = i
    BY <1>1
  <2> QED
    BY <1>1, <2>1
<1>4. CASE B = {}
  BY <1>0, <1>3, <1>4 DEF B
<1>5. CASE B # {}
  <2> DEFINE k == Min(B)
             y == size - k
  <2>1. B \in SUBSET Nat
    BY <1>1
  <2>2. k \in B /\ \A n \in B : k <= n
    BY <1>5, <2>1, MinOf
  <2> HIDE DEF k
  <2>3. y \in I /\ k \in 0..(size - 1)
    BY <1>1, <2>2
  <2>4. ASSUME NEW i \in I PROVE i <= y
    <3>1. k <= size - i
      BY <1>0, <2>2
    <3> QED
      BY <1>1, <2>3, <3>1
  <2>5. I \subseteq Nat
    BY <1>1
  <2> DEFINE x == AsSequence!Max(I)
  <2> HIDE DEF y
  <2>6. x \in I /\ \A i \in I : x >= i
    <3>1. \A i \in I : y >= i
      BY <2>3, <2>4, <2>5
    <3> HIDE DEF I
    <3> QED
      BY <2>3, <3>1 DEF AsSequence!Max
  <2> HIDE DEF x
  <2>7. x = y
    BY <2>3, <2>4, <2>5, <2>6
  <2>8. AsSequence!LastIndex(d) = y
    <3> HIDE DEF I
    <3> QED
      BY <1>3, <2>3, <2>7 DEF x
  <2>9. y - 1 = size - 1 - k /\ y - 1 \in 0..(size - 1)
    BY <1>1, <2>3 DEF y
  <2> QED
    BY <1>5, <2>8, <2>9 DEF B, k
<1> QED
  BY <1>4, <1>5

(* A question leaves everything as it is but for the result.                 *)
LEMMA Asks ==
    ASSUME NEW w, NEW v, NEW c, Stands(w, v, c), NEW res, Answer(res),
           \/ res \in {size, 0, 1}
           \/ \E d \in Data : res \in {AsSequence!FirstIndex(d) - 1, AsSequence!LastIndex(d) - 1}
    PROVE  NextStands /\ result' = res /\ res \in Results /\ AsSequence!Ask
<1>1. Alive /\ UNCHANGED <<list, entry, lost>> /\ result' = res
  BY DEF Answer, Nothing, Done
<1>2. NextStands /\ Values' = Values /\ Cursor' = Cursor
  BY <1>1, Stays
<1>3. Values = v /\ Len(v) = size
  BY Seen
<1>4. size <= Cardinality(LNode) /\ size \in Nat /\ Cardinality(LNode) \in Nat \ {0}
  BY Counted
<1>5. res \in (-1)..Cardinality(LNode)
  <2>1. CASE res \in {size, 0, 1}
    BY <1>4, <2>1
  <2>2. ASSUME NEW d \in Data, res \in {AsSequence!FirstIndex(d) - 1, AsSequence!LastIndex(d) - 1}
        PROVE  res \in (-1)..Cardinality(LNode)
    <3>1. AsSequence!FirstIndex(d) - 1 \in (-1)..(size - 1)
      BY <1>4, FirstPlace
    <3>2. AsSequence!LastIndex(d) - 1 \in (-1)..(size - 1)
      BY <1>4, LastPlace
    <3> QED
      BY <1>4, <2>2, <3>1, <3>2
  <2> QED
    BY <2>1, <2>2
<1>6. AsSequence!Ask
  BY <1>1, <1>2, <1>3 DEF AsSequence!Ask, AsSequence!Alive, Alive
<1> QED
  BY <1>1, <1>2, <1>5, <1>6 DEF Results

(* Whether one of the values is d, found by walking along.                   *)
LEMMA IsHeld ==
    ASSUME NEW w, NEW v, NEW c, Stands(w, v, c), NEW d
    PROVE  (AheadOf(d) # {}) = (d \in Range(v))
<1>1. size \in Nat /\ Len(v) = size /\ v \in Seq(Data)
  BY Seen
<1>2. AheadOf(d) = {k \in 0..(size - 1) : v[k + 1] = d}
  BY Places
<1>3. Range(v) = {v[i] : i \in 1..size}
  BY <1>1 DEF Range
<1>4. ASSUME NEW i \in 1..size, v[i] = d PROVE AheadOf(d) # {}
  <2>1. i - 1 \in 0..(size - 1) /\ (i - 1) + 1 = i
    BY <1>1
  <2> QED
    BY <1>2, <1>4, <2>1
<1>5. ASSUME NEW k \in AheadOf(d) PROVE d \in Range(v)
  <2>1. k + 1 \in 1..size /\ v[k + 1] = d
    BY <1>1, <1>2
  <2> QED
    BY <1>3, <2>1
<1> QED
  BY <1>3, <1>4, <1>5

(* llist_remove takes out the first value that is d, and tells if there was  *)
(* one.                                                                      *)
LEMMA RemoveCall ==
    ASSUME NEW w, NEW v, NEW c, Stands(w, v, c), NEW d \in Data, llist_remove(d)
    PROVE  /\ NextStands /\ result' = Bool(d \in Range(v)) /\ result' \in Results
           /\ IF d \in Range(v) THEN AsSequence!Delete(AsSequence!FirstIndex(d))
              ELSE AsSequence!Ask /\ UNCHANGED Values
<1>1. size \in Nat /\ (AheadOf(d) # {}) = (d \in Range(v))
  BY Ends, IsHeld
<1>2. CASE AheadOf(d) = {}
  <2>1. Alive /\ Nothing(0)
    BY <1>2 DEF llist_remove, Holding
  <2>2. NextStands /\ result' = 0 /\ 0 \in Results /\ AsSequence!Ask
    BY <2>1, Asks DEF Answer
  <2>3. UNCHANGED Values
    BY <2>1, Stays DEF Nothing, Done
  <2> QED
    BY <1>1, <1>2, <2>2, <2>3 DEF Bool
<1>3. CASE AheadOf(d) # {}
  <2>1. PICK k : k = Min(AheadOf(d))
    OBVIOUS
  <2>2. k \in 0..(size - 1) /\ AsSequence!FirstIndex(d) = k + 1
    BY <1>3, <2>1, FirstPlace
  <2>3. k + 1 \in 1..size /\ FromFirst[k] = w[k + 1]
    BY <1>1, <2>2, Walks DEF At
  <2>4. Holding(d) = w[k + 1] /\ w[k + 1] # NULL
    BY <1>3, <2>1, <2>3, Neighbours DEF Holding
  <2>5. Alive /\ llist_remove_entry(w[k + 1]) /\ Took(w[k + 1], 1)
    BY <2>4 DEF llist_remove
  <2>6. TakesOut(w, k + 1)
    BY <2>3, <2>5, RemoveEntryTakes
  <2>7. NextStands /\ AsSequence!Delete(k + 1)
    BY <2>3, <2>5, <2>6, Deletes DEF NextStands
  <2>8. result' = 1 /\ 1 \in Results
    <3>1. Cardinality(LNode) \in Nat \ {0}
      BY Counted
    <3> QED
      BY <2>5, <3>1 DEF Took, Results
  <2> QED
    BY <1>1, <1>3, <2>2, <2>7, <2>8 DEF Bool
<1> QED
  BY <1>2, <1>3

(* A call that looks, or does nothing because there is nothing at its index. *)
LEMMA LookCall ==
    ASSUME NEW w, NEW v, NEW c, Stands(w, v, c), Look
    PROVE  NextStands /\ result' \in Results /\ AsSequence!Next
<1>1. size \in Nat
  BY Ends
<1>2. ASSUME NEW res, Answer(res),
             \/ res \in {size, 0, 1}
             \/ \E d \in Data : res \in {AsSequence!FirstIndex(d) - 1, AsSequence!LastIndex(d) - 1}
      PROVE  NextStands /\ result' \in Results /\ AsSequence!Next
  BY <1>2, Asks DEF AsSequence!Next
<1>3. ASSUME NEW res, NEW pos \in 0..(size + 1), Answer(res), res = IF pos \in 1..size THEN v[pos] ELSE NULL
      PROVE  NextStands /\ result' \in Results /\ AsSequence!Next
  <2>1. NextStands /\ result' = res /\ res \in Data \cup {NULL} /\ AsSequence!Get(pos)
    BY <1>3, Gets DEF Answer
  <2>2. Len(Values) = size
    BY Seen
  <2> QED
    BY <2>1, <2>2 DEF AsSequence!Next, Results
<1>4. CASE llist_get_first
  <2>1. Answer(IF 1 \in 1..size THEN v[1] ELSE NULL) /\ 1 \in 0..(size + 1)
    BY <1>1, <1>4, Ends, Neighbours DEF llist_get_first
  <2> QED
    BY <1>3, <2>1
<1>5. CASE llist_get_last
  <2>1. Answer(IF size \in 1..size THEN v[size] ELSE NULL) /\ size \in 0..(size + 1)
    BY <1>1, <1>5, Ends, Neighbours DEF llist_get_last
  <2> QED
    BY <1>3, <2>1
<1>6. CASE llist_size
  BY <1>2, <1>6 DEF llist_size
<1>7. ASSUME NEW p \in BOOLEAN, Answer(Bool(p)) PROVE NextStands /\ result' \in Results /\ AsSequence!Next
  <2>1. Bool(p) \in {size, 0, 1}
    BY DEF Bool
  <2> QED
    BY <1>2, <1>7, <2>1
<1>8. CASE llist_is_empty
  BY <1>7, <1>8 DEF llist_is_empty
<1>9. CASE llist_iterator_has_next
  BY <1>7, <1>9 DEF llist_iterator_has_next
<1>10. ASSUME NEW d \in Data, llist_contains(d) PROVE NextStands /\ result' \in Results /\ AsSequence!Next
  BY <1>7, <1>10 DEF llist_contains
<1>11. ASSUME NEW d \in Data, llist_index_of(d) PROVE NextStands /\ result' \in Results /\ AsSequence!Next
  <2>1. Answer(AsSequence!FirstIndex(d) - 1)
    BY <1>11, FirstPlace DEF llist_index_of
  <2> QED
    BY <1>2, <2>1
<1>12. ASSUME NEW d \in Data, llist_last_index_of(d) PROVE NextStands /\ result' \in Results /\ AsSequence!Next
  <2>1. Answer(AsSequence!LastIndex(d) - 1)
    BY <1>12, LastPlace DEF llist_last_index_of
  <2> QED
    BY <1>2, <2>1
<1>13. ASSUME NEW n \in Live, lnode_is_first(n) \/ lnode_is_last(n)
       PROVE  NextStands /\ result' \in Results /\ AsSequence!Next
  BY <1>7, <1>13 DEF lnode_is_first, lnode_is_last
<1>14. ASSUME NEW n \in Live, lnode_data(n) PROVE NextStands /\ result' \in Results /\ AsSequence!Next
  <2>1. PICK i \in 1..size : n = w[i]
    BY IsSomewhere
  <2>2. Answer(IF i \in 1..size THEN v[i] ELSE NULL) /\ i \in 0..(size + 1)
    BY <1>1, <1>14, <2>1, Neighbours DEF lnode_data
  <2> QED
    BY <1>3, <2>2
<1> QED
  BY <1>4, <1>5, <1>6, <1>8, <1>9, <1>10, <1>11, <1>12, <1>13, <1>14 DEF Look

(* Nothing to look at, or to take out.                                       *)
LEMMA NothingThere ==
    ASSUME NEW w, NEW v, NEW c, Stands(w, v, c), Alive, Nothing(NULL)
    PROVE  NextStands /\ result' \in Results /\ AsSequence!Next
<1>1. size \in Nat /\ 0 \in 0..(size + 1) /\ 0 \notin 1..size
  BY Ends
<1>2. NextStands /\ result' = NULL /\ AsSequence!Get(0)
  BY <1>1, Gets
<1>3. Len(Values) = size
  BY Seen
<1> QED
  BY <1>1, <1>2, <1>3 DEF AsSequence!Next, Results

LEMMA GetCall ==
    ASSUME NEW w, NEW v, NEW c, Stands(w, v, c), NEW index \in 0..(size + 1), llist_get(index)
    PROVE  /\ NextStands /\ result' \in Results /\ AsSequence!Next
           /\ index < size => result' = v[index + 1]
<1>1. size \in Nat
  BY Ends
<1>2. CASE index >= size
  <2>1. Alive /\ Nothing(NULL)
    BY <1>2 DEF llist_get
  <2> QED
    BY <1>1, <1>2, <2>1, NothingThere
<1>3. CASE index < size
  <2>1. index \in 0..(size - 1) /\ index + 1 \in 1..size /\ index + 1 \in 0..(size + 1)
    BY <1>1, <1>3
  <2>2. nodes[llist_get_entry(index)].data = v[index + 1]
    BY <2>1, EntryAt, Neighbours
  <2>3. Alive /\ Nothing(v[index + 1])
    BY <1>1, <1>3, <2>2 DEF llist_get
  <2>4. NextStands /\ result' = v[index + 1] /\ v[index + 1] \in Data \cup {NULL} /\ AsSequence!Get(index + 1)
    BY <2>1, <2>3, Gets
  <2>5. Len(Values) = size
    BY Seen
  <2> QED
    BY <2>1, <2>4, <2>5 DEF AsSequence!Next, Results
<1> QED
  BY <1>1, <1>2, <1>3

(* llist_set puts the data in that it found: the memory stays as it is.      *)
LEMMA SetCall ==
    ASSUME NEW w, NEW v, NEW c, Stands(w, v, c), NEW index \in 0..(size + 1), NEW d,
           llist_set(index, d)
    PROVE  /\ NextStands /\ result' \in Results /\ AsSequence!Next
           /\ index < size => result' = v[index + 1]
<1> SUFFICES llist_get(index)
  BY GetCall
<1>1. size \in Nat
  BY Ends
<1>2. CASE index >= size
  BY <1>2 DEF llist_set, llist_get
<1>3. CASE index < size
  <2>1. index \in 0..(size - 1) /\ index + 1 \in 1..size /\ ~(index >= size)
    BY <1>1, <1>3
  <2>2. PICK n : n = llist_get_entry(index)
    OBVIOUS
  <2>3. n = w[index + 1] /\ n \in Live
    BY <2>1, <2>2, EntryAt, Neighbours
  <2>4. /\ Alive /\ nodes' = [nodes EXCEPT ![n].data = nodes[n].data]
        /\ UNCHANGED <<first, last, size>> /\ Done(nodes[n].data)
    BY <2>1, <2>2 DEF llist_set
  <2>5. nodes' = nodes
    <3>1. /\ nodes = [m \in DOMAIN nodes |-> nodes[m]] /\ n \in DOMAIN nodes
          /\ nodes[n] = Node(v[index + 1], At(w, size, index + 2), At(w, size, index))
      <4>1. (index + 1) + 1 = index + 2 /\ (index + 1) - 1 = index
        BY <1>1
      <4> QED
        BY <2>1, <2>3, <4>1 DEF Stands, Linked, Live
    <3>2. [nodes[n] EXCEPT !.data = nodes[n].data] = nodes[n]
      BY <3>1 DEF Node
    <3> QED
      BY <2>4, <3>1, <3>2
  <2> QED
    BY <2>1, <2>2, <2>4, <2>5 DEF llist_get, Nothing, list
<1> QED
  BY <1>1, <1>2, <1>3

-----------------------------------------------------------------------------
LEMMA InitIInv ==
    ASSUME Init
    PROVE  IInv /\ AsSequence!Init
<1>1. Linked(<<>>, <<>>, 0, <<>>, NULL, NULL)
  BY DEF Linked, At
<1>2. Stands(<<>>, <<>>, 1)
  <2>1. PlaceOf(<<>>, 0, NULL, FALSE, 1)
    BY DEF PlaceOf
  <2>2. /\ nodes = <<>> /\ first = NULL /\ last = NULL /\ size = 0 /\ entry = NULL
        /\ lost = FALSE
    BY DEF Init
  <2> QED
    BY <1>1, <2>1, <2>2 DEF Stands
<1>3. Values = <<>> /\ Cursor = 1
  BY <1>2, Seen
<1> QED
  BY <1>2, <1>3 DEF Init, IInv, Results, AsSequence!Init

(* An insertion or a removal of the abstract list is a step of it.           *)
LEMMA InsertIsNext ==
    ASSUME NEW i, NEW d \in Data, AsSequence!Insert(i, d)
    PROVE  AsSequence!Next
BY DEF AsSequence!Next, AsSequence!Insert

LEMMA DeleteIsNext ==
    ASSUME NEW i, AsSequence!Delete(i)
    PROVE  AsSequence!Next
BY DEF AsSequence!Next, AsSequence!Delete

(* Every call preserves the invariant, and is a step of the abstract list.   *)
LEMMA StepIInv ==
    ASSUME IInv, Step
    PROVE  IInv' /\ AsSequence!Next
<1>1. PICK w, v, c : Stands(w, v, c)
  BY DEF IInv
<1>2. size \in Nat /\ v \in Seq(Data) /\ Len(v) = size
  BY <1>1, Seen
<1>3. NULL \in Results /\ Died \in Results /\ Data \subseteq Results
  BY DEF Results
<1> SUFFICES NextStands /\ result' \in Results /\ AsSequence!Next
  BY DEF IInv, NextStands, Results
<1>4. \A i \in 1..size : v[i] \in Results
  BY <1>2, <1>3
<1>5. ASSUME NEW d \in Data, llist_add_first(d) PROVE NextStands /\ result' \in Results /\ AsSequence!Next
  BY <1>1, <1>3, <1>5, AddFirstCall, InsertIsNext
<1>6. ASSUME NEW d \in Data, llist_add_last(d) PROVE NextStands /\ result' \in Results /\ AsSequence!Next
  BY <1>1, <1>3, <1>6, AddLastCall, InsertIsNext
<1>7. ASSUME NEW d \in Data, llist_remove(d) PROVE NextStands /\ result' \in Results /\ AsSequence!Next
  <2>1. /\ NextStands /\ result' \in Results
        /\ AsSequence!Ask \/ AsSequence!Delete(AsSequence!FirstIndex(d))
    BY <1>1, <1>7, RemoveCall
  <2> QED
    BY <2>1, DeleteIsNext DEF AsSequence!Next
<1>8. ASSUME NEW d \in Data, llist_iterator_add(d) PROVE NextStands /\ result' \in Results /\ AsSequence!Next
  BY <1>1, <1>3, <1>8, IteratorAddCall, InsertIsNext
<1>9. ASSUME NEW d \in Data, NEW index \in 0..(size + 1), llist_add_at(index, d)
      PROVE  NextStands /\ result' \in Results /\ AsSequence!Next
  <2>1. CASE index \in 0..size
    BY <1>1, <1>3, <1>9, <2>1, AddAtCall, InsertIsNext
  <2>2. CASE index = size + 1
    <3>1. Alive /\ Nothing(NULL)
      BY <1>2, <1>9, <2>2 DEF llist_add_at, Nothing
    <3> QED
      BY <1>1, <3>1, NothingThere
  <2> QED
    BY <1>2, <2>1, <2>2
<1>10. ASSUME NEW index \in 0..(size + 1), llist_get(index)
       PROVE  NextStands /\ result' \in Results /\ AsSequence!Next
  BY <1>1, <1>10, GetCall
<1>11. ASSUME NEW d \in Data, NEW index \in 0..(size + 1), llist_set(index, d)
       PROVE  NextStands /\ result' \in Results /\ AsSequence!Next
  BY <1>1, <1>11, SetCall
<1>12. ASSUME NEW d \in Data, NEW n \in Live, lnode_add_after(n, d) \/ lnode_add_before(n, d)
       PROVE  NextStands /\ result' \in Results /\ AsSequence!Next
  <2>1. PICK i \in 1..size : n = w[i]
    BY <1>1, IsSomewhere
  <2>2. CASE lnode_add_after(n, d)
    BY <1>1, <1>3, <2>1, <2>2, AddAfterCall, InsertIsNext
  <2>3. CASE lnode_add_before(n, d)
    BY <1>1, <1>3, <2>1, <2>3, AddBeforeCall, InsertIsNext
  <2> QED
    BY <1>12, <2>2, <2>3
<1>13. ASSUME NEW index \in 0..(size + 1), llist_remove_at(index)
       PROVE  NextStands /\ result' \in Results /\ AsSequence!Next
  <2>1. CASE index < size
    <3>1. index \in 0..(size - 1) /\ index + 1 \in 1..size
      BY <1>2, <2>1
    <3>2. NextStands /\ result' = v[index + 1] /\ AsSequence!Delete(index + 1)
      BY <1>1, <1>13, <3>1, RemoveAtCall
    <3> QED
      BY <1>4, <3>1, <3>2, DeleteIsNext
  <2>2. CASE index >= size
    <3>1. Alive /\ Nothing(NULL)
      BY <1>13, <2>2 DEF llist_remove_at
    <3> QED
      BY <1>1, <3>1, NothingThere
  <2> QED
    BY <1>2, <2>1, <2>2
<1>14. ASSUME NEW n \in Live, lnode_remove(n) PROVE NextStands /\ result' \in Results /\ AsSequence!Next
  <2>1. PICK i \in 1..size : n = w[i]
    BY <1>1, IsSomewhere
  <2> QED
    BY <1>1, <1>3, <1>14, <2>1, NodeRemoveCall, DeleteIsNext
<1>15. CASE llist_remove_first
  <2>1. CASE size = 0
    BY <1>1, <1>15, <2>1, NothingThere DEF llist_remove_first
  <2>2. CASE size > 0
    <3>1. NextStands /\ result' = v[1] /\ AsSequence!Delete(1) /\ 1 \in 1..size
      BY <1>1, <1>2, <1>15, <2>2, RemoveFirstCall
    <3> QED
      BY <1>4, <3>1, DeleteIsNext
  <2> QED
    BY <1>2, <2>1, <2>2
<1>16. CASE llist_remove_last
  <2>1. CASE size = 0
    BY <1>1, <1>16, <2>1, NothingThere DEF llist_remove_last
  <2>2. CASE size > 0
    <3>1. NextStands /\ result' = v[size] /\ AsSequence!Delete(size) /\ size \in 1..size
      BY <1>1, <1>2, <1>16, <2>2, RemoveLastCall
    <3> QED
      BY <1>4, <3>1, DeleteIsNext
  <2> QED
    BY <1>2, <2>1, <2>2
<1>17. CASE llist_clear
  BY <1>1, <1>3, <1>17, ClearCall DEF AsSequence!Next
<1>18. CASE llist_reverse
  BY <1>1, <1>3, <1>18, ReverseCall DEF AsSequence!Next
<1>19. CASE llist_iterator_restart
  BY <1>1, <1>3, <1>19, RestartCall DEF AsSequence!Next
<1>20. CASE llist_iterator_next
  BY <1>1, <1>3, <1>20, NextCall DEF AsSequence!Next
<1>21. CASE llist_iterator_previous
  BY <1>1, <1>3, <1>21, PreviousCall DEF AsSequence!Next
<1>22. CASE llist_iterator_remove
  BY <1>1, <1>3, <1>22, IteratorRemoveCall DEF AsSequence!Next
<1>23. CASE Look
  BY <1>1, <1>23, LookCall
<1> QED
  BY <1>5, <1>6, <1>7, <1>8, <1>9, <1>10, <1>11, <1>12, <1>13, <1>14, <1>15, <1>16, <1>17, <1>18,
     <1>19, <1>20, <1>21, <1>22, <1>23 DEF Step

LEMMA StutterIInv ==
    ASSUME IInv, UNCHANGED vars
    PROVE  IInv' /\ UNCHANGED AsSequence!vars
<1>1. PICK w, v, c : Stands(w, v, c)
  BY DEF IInv
<1>2. UNCHANGED <<list, entry, lost>> /\ result' = result
  BY DEF vars
<1>3. NextStands /\ Values' = Values /\ Cursor' = Cursor
  BY <1>1, <1>2, Stays
<1> QED
  BY <1>2, <1>3 DEF IInv, NextStands, Results, AsSequence!vars

(* The invariant is inductive.                                               *)
LEMMA Inductive == Spec => []IInv
<1>1. Init => IInv
  BY InitIInv
<1>2. IInv /\ [Step]_vars => IInv'
  BY StepIInv, StutterIInv
<1> QED
  BY <1>1, <1>2, PTL DEF Spec

-----------------------------------------------------------------------------
(* Every pointer is NULL or that of a node that is allocated; the iterator   *)
(* may be the address of a freed one.                                        *)
THEOREM TypeCorrect == Spec => []TypeOK
<1>1. IInv => TypeOK
  <2> SUFFICES ASSUME IInv PROVE TypeOK
    OBVIOUS
  <2>1. PICK w, v, c : Stands(w, v, c)
    BY DEF IInv
  <2>2. /\ size \in Nat /\ w \in [1..size -> LNode] /\ v \in [1..size -> Data]
        /\ Live = {w[j] : j \in 1..size}
        /\ \A j \in 1..size : nodes[w[j]] = Node(v[j], At(w, size, j + 1), At(w, size, j - 1))
        /\ first = At(w, size, 1) /\ last = At(w, size, size)
        /\ entry \in LNode \cup {NULL} /\ lost \in BOOLEAN
    BY <2>1 DEF Stands, Linked, Live
  <2>3. \A i : At(w, size, i) \in Live \cup {NULL}
    BY <2>2 DEF At
  <2>4. ASSUME NEW n \in Live
        PROVE  nodes[n] \in [data : Data, next : Live \cup {NULL}, previous : Live \cup {NULL}]
    <3>1. PICK j \in 1..size : n = w[j]
      BY <2>2
    <3>2. nodes[n] = Node(v[j], At(w, size, j + 1), At(w, size, j - 1)) /\ v[j] \in Data
      BY <2>2, <3>1
    <3> QED
      BY <2>3, <3>2 DEF Node
  <2>5. size \in 0..Cardinality(LNode)
    BY <2>1, Counted
  <2>6. Live \subseteq LNode /\ {first, last} \subseteq Live \cup {NULL}
    BY <2>2, <2>3
  <2> QED
    BY <2>2, <2>4, <2>5, <2>6 DEF TypeOK, IInv, Results
<1> QED
  BY <1>1, Inductive, PTL

(* In every state of every sequence of calls, both ways through the list     *)
(* meet the same nodes, in opposite order, and end; no node is leaked, and   *)
(* none that is on the list is freed.                                        *)
THEOREM AlwaysWellLinked == Spec => []WellLinked
<1>1. IInv => WellLinked
  <2> SUFFICES ASSUME IInv PROVE WellLinked
    OBVIOUS
  <2>1. PICK w, v, c : Stands(w, v, c)
    BY DEF IInv
  <2>2. size = Cardinality(Live) /\ size \in Nat
    BY <2>1, Counted
  <2>3. \A k \in 0..size : FromFirst[k] = At(w, size, k + 1) /\ FromLast[k] = At(w, size, size - k)
    BY <2>1, Walks
  <2>4. FromFirst[size] = NULL /\ FromLast[size] = NULL
    <3>1. size \in 0..size /\ size + 1 \notin 1..size /\ size - size \notin 1..size
      BY <2>2
    <3> QED
      BY <2>3, <3>1 DEF At
  <2>5. ASSUME NEW k \in 0..(size - 1)
        PROVE  FromFirst[k] \in Live /\ FromLast[size - 1 - k] = FromFirst[k]
    <3>1. k \in 0..size /\ size - 1 - k \in 0..size /\ size - (size - 1 - k) = k + 1 /\ k + 1 \in 1..size
      BY <2>2
    <3>2. FromFirst[k] = At(w, size, k + 1) /\ FromLast[size - 1 - k] = At(w, size, size - (size - 1 - k))
      BY <2>3, <3>1
    <3>3. FromFirst[k] = w[k + 1] /\ FromLast[size - 1 - k] = w[k + 1]
      BY <3>1, <3>2 DEF At
    <3> QED
      BY <2>1, <3>1, <3>3, Neighbours
  <2> QED
    BY <2>2, <2>4, <2>5 DEF WellLinked
<1> QED
  BY <1>1, Inductive, PTL

(* The nodes and pointers implement the sequence and iterator that llist.h   *)
(* promises: every call is the step of CursorList that it stands for.        *)
THEOREM ListImplementsSequence == Spec => ImplementsSequence
<1>1. Init => AsSequence!Init
  BY InitIInv
<1>2. IInv /\ [Step]_vars => [AsSequence!Next]_AsSequence!vars
  BY StepIInv, StutterIInv
<1> QED
  BY <1>1, <1>2, Inductive, PTL DEF Spec, ImplementsSequence, AsSequence!Spec

-----------------------------------------------------------------------------
LEMMA NamedPuts ==
    ASSUME NEW w, NEW v, NEW c, Stands(w, v, c), NEW d \in Data
    PROVE  PutsAsNamed(d)
<1>1. size \in Nat /\ Cursor = c /\ \A i \in 1..size : Index(w[i]) = i
  BY Seen
<1>2. /\ llist_add_first(d) => AsSequence!Insert(1, d)
      /\ llist_add_last(d) => AsSequence!Insert(size + 1, d)
      /\ llist_iterator_add(d) => AsSequence!Insert(Cursor, d)
      /\ \A index \in 0..size : llist_add_at(index, d) => AsSequence!Insert(index + 1, d)
  BY <1>1, AddFirstCall, AddLastCall, IteratorAddCall, AddAtCall
<1>3. ASSUME NEW n \in Live
      PROVE  /\ lnode_add_before(n, d) => AsSequence!Insert(Index(n), d)
             /\ lnode_add_after(n, d) => AsSequence!Insert(Index(n) + 1, d)
  <2>1. PICK i \in 1..size : n = w[i]
    BY IsSomewhere
  <2>2. Index(n) = i
    BY <1>1, <2>1
  <2>3. lnode_add_before(n, d) => AsSequence!Insert(i, d)
    BY <2>1, AddBeforeCall
  <2>4. lnode_add_after(n, d) => AsSequence!Insert(i + 1, d)
    BY <2>1, AddAfterCall
  <2> QED
    BY <2>2, <2>3, <2>4
<1> QED
  BY <1>2, <1>3 DEF PutsAsNamed

LEMMA NamedTakes ==
    ASSUME NEW w, NEW v, NEW c, Stands(w, v, c)
    PROVE  TakesAsNamed /\ \A d \in Data : RemovesFirstOf(d)
<1>1. size \in Nat /\ Values = v /\ \A i \in 1..size : Index(w[i]) = i
  BY Seen
<1>2. ASSUME NEW n \in Live, lnode_remove(n) PROVE AsSequence!Delete(Index(n))
  <2>1. PICK i \in 1..size : n = w[i]
    BY IsSomewhere
  <2>2. Index(n) = i
    BY <1>1, <2>1
  <2>3. AsSequence!Delete(i)
    BY <1>2, <2>1, NodeRemoveCall
  <2> QED
    BY <2>2, <2>3
<1>3. ASSUME NEW index \in 0..(size - 1), llist_remove_at(index) PROVE AsSequence!Delete(index + 1)
  BY <1>3, RemoveAtCall
<1>4. size > 0 =>
        /\ llist_remove_first => AsSequence!Delete(1) /\ result' = Values[1]
        /\ llist_remove_last => AsSequence!Delete(size) /\ result' = Values[size]
  BY <1>1, RemoveFirstCall, RemoveLastCall
<1>5. ASSUME NEW d \in Data PROVE RemovesFirstOf(d)
  BY <1>1, RemoveCall DEF RemovesFirstOf
<1> QED
  BY <1>2, <1>3, <1>4, <1>5 DEF TakesAsNamed

LEMMA NamedLooks ==
    ASSUME NEW w, NEW v, NEW c, Stands(w, v, c)
    PROVE  LooksAsNamed
<1>1. size \in Nat /\ Values = v /\ Len(v) = size /\ v \in Seq(Data) /\ Cursor = c
  BY Seen
<1>2. ASSUME NEW res, Answer(res) PROVE result' = res
  BY <1>2 DEF Answer, Nothing, Done
<1>3. ASSUME NEW index \in 0..(size - 1), llist_get(index) \/ \E d \in Data : llist_set(index, d)
      PROVE  result' = Values[index + 1]
  <2>1. index \in 0..(size + 1) /\ index < size
    BY <1>1
  <2> QED
    BY <1>1, <1>3, <2>1, GetCall, SetCall
<1>4. (llist_size => result' = Len(Values)) /\ (llist_is_empty => result' = Bool(Values = <<>>))
  <2>1. (size = 0) = (v = <<>>)
    BY <1>1
  <2> QED
    BY <1>1, <1>2, <2>1 DEF llist_size, llist_is_empty
<1>5. ASSUME llist_iterator_has_next PROVE result' = Bool(Cursor <= size)
  <2>1. ~lost /\ result' = Bool(entry # NULL)
    BY <1>2, <1>5 DEF llist_iterator_has_next
  <2>2. (entry # NULL) = (c <= size)
    BY <1>1, <2>1 DEF Stands, PlaceOf
  <2> QED
    BY <1>1, <2>1, <2>2
<1>6. ASSUME size > 0
      PROVE  /\ llist_get_first => result' = Values[1]
             /\ llist_get_last => result' = Values[size]
  <2>1. nodes[first].data = v[1] /\ nodes[last].data = v[size]
    BY <1>6, Ends, Neighbours
  <2>2. size # 0
    BY <1>6
  <2> QED
    BY <1>1, <1>2, <2>1, <2>2 DEF llist_get_first, llist_get_last
<1> QED
  BY <1>3, <1>4, <1>5, <1>6 DEF LooksAsNamed

LEMMA NamedFinds ==
    ASSUME NEW w, NEW v, NEW c, Stands(w, v, c), NEW d \in Data
    PROVE  FindsAsNamed(d)
<1>1. size \in Nat /\ Values = v /\ Len(v) = size /\ v \in Seq(Data)
  BY Seen
<1>2. ASSUME NEW res, Answer(res) PROVE result' = res
  BY <1>2 DEF Answer, Nothing, Done
<1>3. (AheadOf(d) # {}) = (d \in Range(v))
  BY IsHeld
<1>4. llist_contains(d) => result' = Bool(d \in Range(Values))
  BY <1>1, <1>2, <1>3 DEF llist_contains
<1>5. llist_index_of(d) => result' = AsSequence!FirstIndex(d) - 1
  BY <1>2, FirstPlace DEF llist_index_of
<1>6. llist_last_index_of(d) => result' = AsSequence!LastIndex(d) - 1
  BY <1>2, LastPlace DEF llist_last_index_of
<1> QED
  BY <1>4, <1>5, <1>6 DEF FindsAsNamed

LEMMA NamedTells ==
    ASSUME NEW w, NEW v, NEW c, Stands(w, v, c), NEW n \in Live
    PROVE  TellsOf(n)
<1>1. size \in Nat /\ Values = v /\ \A i \in 1..size : Index(w[i]) = i
  BY Seen
<1>2. ASSUME NEW res, Answer(res) PROVE result' = res
  BY <1>2 DEF Answer, Nothing, Done
<1>3. PICK i \in 1..size : n = w[i]
  BY IsSomewhere
<1>4. Index(n) = i
  BY <1>1, <1>3
<1>5. Previous(n) = At(w, size, i - 1) /\ Next(n) = At(w, size, i + 1) /\ nodes[n].data = v[i]
  BY <1>3, Neighbours
<1>6. (Previous(n) = NULL) = (i = 1)
  <2>1. i # 1 => i - 1 \in 1..size
    BY <1>1
  <2>2. i # 1 => w[i - 1] # NULL
    BY <2>1, Neighbours
  <2> QED
    BY <1>5, <2>1, <2>2 DEF At
<1>7. (Next(n) = NULL) = (i = size)
  <2>1. (i # size => i + 1 \in 1..size) /\ (i = size => i + 1 \notin 1..size)
    BY <1>1
  <2>2. i # size => w[i + 1] # NULL
    BY <2>1, Neighbours
  <2> QED
    BY <1>5, <2>1, <2>2 DEF At
<1>8. lnode_is_first(n) => result' = Bool(Index(n) = 1)
  BY <1>2, <1>4, <1>6 DEF lnode_is_first
<1>9. lnode_is_last(n) => result' = Bool(Index(n) = size)
  BY <1>2, <1>4, <1>7 DEF lnode_is_last
<1>10. lnode_data(n) => result' = Values[Index(n)]
  BY <1>1, <1>2, <1>4, <1>5 DEF lnode_data
<1> QED
  BY <1>8, <1>9, <1>10 DEF TellsOf

(* Every call puts in, takes out or looks at the place that its name tells:  *)
(* also when the code reaches it from the other end, or by a node that a     *)
(* client has kept.                                                          *)
THEOREM CallsAreNamedWell == Spec => CallsDoAsNamed
<1>1. IInv => /\ \A d \in Data : PutsAsNamed(d) /\ RemovesFirstOf(d) /\ FindsAsNamed(d)
              /\ \A n \in Live : TellsOf(n)
              /\ TakesAsNamed /\ LooksAsNamed
  BY NamedPuts, NamedTakes, NamedLooks, NamedFinds, NamedTells DEF IInv
<1> QED
  BY <1>1, Inductive, PTL DEF Spec, CallsDoAsNamed
===============================================================================
