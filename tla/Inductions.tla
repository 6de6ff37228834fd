------------------------------ MODULE Inductions ------------------------------
(***************************************************************************)
(* Induction and recursion on the natural numbers, said of sets and         *)
(* functions instead of operators, and what FlattenSeq is: a recursive      *)
(* function on the length of its argument.                                  *)
(***************************************************************************)
EXTENDS Integers, SequencesExt, FiniteSetTheorems, SequenceTheorems, WellFoundedInduction, TLAPS

(* Every set of numbers that is not empty has a least one.                     *)
LEMMA LeastNumber ==
    ASSUME NEW S \in SUBSET Nat, S # {}
    PROVE  \E m \in S : \A n \in S : m <= n
<1> DEFINE Upto == {1..n : n \in S}
           R == StrictSubsetOrdering(Nat)
<1>1. IsWellFoundedOn(R, FiniteSubsetsOf(Nat))
  BY FS_StrictSubsetOrderingWellFounded
<1>2. Upto \subseteq FiniteSubsetsOf(Nat)
  <2> SUFFICES ASSUME NEW n \in S PROVE 1..n \in FiniteSubsetsOf(Nat)
    OBVIOUS
  <2>1. n \in Nat
    OBVIOUS
  <2>2. IsFiniteSet(1..n)
    BY <2>1, FS_Interval
  <2> QED
    BY <2>1, <2>2 DEF FiniteSubsetsOf
<1>3. Upto # {}
  OBVIOUS
<1>4. \E x \in Upto : \A y \in Upto : ~ (<<y, x>> \in R)
  <2> HIDE DEF Upto, R
  <2> QED
    BY <1>1, <1>2, <1>3, WFMin
<1>5. PICK m \in S : \A y \in Upto : ~ (<<y, 1..m>> \in R)
  BY <1>4
<1>6. ASSUME NEW n \in S, n < m PROVE FALSE
  <2>1. <<1..n, 1..m>> \in (SUBSET Nat) \X (SUBSET Nat)
    OBVIOUS
  <2>2. 1..n \subseteq 1..m /\ 1..n # 1..m
    <3>1. m \in 1..m /\ m \notin 1..n
      BY <1>6
    <3> QED
      BY <1>6, <3>1
  <2>3. <<1..n, 1..m>> \in R
    BY <2>1, <2>2 DEF StrictSubsetOrdering
  <2> QED
    BY <2>3, <1>5
<1> QED
  BY <1>6

(* Induction: a set of numbers with 0, and with n + 1 for every n, is Nat.     *)
LEMMA SetInduction ==
    ASSUME NEW S \in SUBSET Nat, 0 \in S, \A n \in Nat : n \in S => n + 1 \in S
    PROVE  S = Nat
<1> SUFFICES ASSUME Nat \ S # {} PROVE FALSE
  OBVIOUS
<1>1. PICK m \in Nat \ S : \A n \in Nat \ S : m <= n
  BY LeastNumber
<1>2. m # 0 /\ m - 1 \in Nat
  BY <1>1
<1>3. m - 1 \in S
  BY <1>1, <1>2
<1> QED
  BY <1>1, <1>2, <1>3

-----------------------------------------------------------------------------
(* The first n values of the recursion from x by step.                       *)
Begins(g, n, x, step) ==
    /\ g[0] = x
    /\ \A k \in Nat : k < n => g[k + 1] = step[<<k, g[k]>>]

(* However far it is to go, a recursion can be begun.                         *)
LEMMA RecursionBegins ==
    ASSUME NEW S, NEW x \in S, NEW step \in [Nat \X S -> S]
    PROVE  \A n \in Nat : \E g \in [0..n -> S] : Begins(g, n, x, step)
<1> DEFINE T == {n \in Nat : \E g \in [0..n -> S] : Begins(g, n, x, step)}
<1>1. 0 \in T
  <2> DEFINE g == [i \in 0..0 |-> x]
  <2>1. g \in [0..0 -> S] /\ Begins(g, 0, x, step)
    BY DEF Begins
  <2> QED
    BY <2>1
<1>2. ASSUME NEW n \in Nat, n \in T PROVE n + 1 \in T
  <2>1. PICK g \in [0..n -> S] : Begins(g, n, x, step)
    BY <1>2
  <2> DEFINE h == [i \in 0..(n + 1) |-> IF i = n + 1 THEN step[<<n, g[n]>>] ELSE g[i]]
  <2>2. step[<<n, g[n]>>] \in S
    OBVIOUS
  <2>3. h \in [0..(n + 1) -> S]
    BY <2>2
  <2>4. h[0] = x
    BY <2>1 DEF Begins
  <2>5. ASSUME NEW k \in Nat, k < n + 1 PROVE h[k + 1] = step[<<k, h[k]>>]
    <3>1. k \in 0..(n + 1) /\ k + 1 \in 0..(n + 1) /\ h[k] = g[k]
      BY <2>5
    <3>2. CASE k = n
      BY <3>1, <3>2
    <3>3. CASE k < n
      <4>1. g[k + 1] = step[<<k, g[k]>>]
        BY <2>1, <3>3 DEF Begins
      <4>2. h[k + 1] = g[k + 1]
        BY <3>1, <3>3
      <4> QED
        BY <3>1, <4>1, <4>2
    <3> QED
      BY <2>5, <3>2, <3>3
  <2>6. Begins(h, n + 1, x, step)
    <3> HIDE DEF h
    <3> QED
      BY <2>4, <2>5 DEF Begins
  <2> QED
    BY <2>3, <2>6
<1> QED
  <2> HIDE DEF T
  <2>1. T = Nat
    <3>1. T \in SUBSET Nat
      BY DEF T
    <3> QED
      BY <1>1, <1>2, <3>1, SetInduction
  <2> QED
    BY <2>1 DEF T

(* Two beginnings of a recursion agree as far as both go.                     *)
LEMMA RecursionUnique ==
    ASSUME NEW x, NEW step, NEW m \in Nat, NEW n \in Nat, NEW g, NEW h,
           Begins(g, m, x, step), Begins(h, n, x, step)
    PROVE  \A k \in Nat : k <= m /\ k <= n => g[k] = h[k]
<1> DEFINE T == {k \in Nat : k <= m /\ k <= n => g[k] = h[k]}
<1>1. 0 \in T
  BY DEF Begins
<1>2. ASSUME NEW k \in Nat, k \in T PROVE k + 1 \in T
  <2> SUFFICES ASSUME k + 1 <= m, k + 1 <= n PROVE g[k + 1] = h[k + 1]
    OBVIOUS
  <2>1. k < m /\ k < n /\ g[k] = h[k]
    BY <1>2
  <2> QED
    BY <2>1 DEF Begins
<1> QED
  <2> HIDE DEF T
  <2>1. T \in SUBSET Nat
    BY DEF T
  <2>2. T = Nat
    BY <1>1, <1>2, <2>1, SetInduction
  <2> QED
    BY <2>2 DEF T

(* There is a function that is defined by recursion on the numbers.           *)
Recurses(f, x, step) == f[0] = x /\ \A n \in Nat : f[n + 1] = step[<<n, f[n]>>]

LEMMA Recursion ==
    ASSUME NEW S, NEW x \in S, NEW step \in [Nat \X S -> S]
    PROVE  \E f \in [Nat -> S] : Recurses(f, x, step)
<1> DEFINE Beginning(n) == CHOOSE g \in [0..n -> S] : Begins(g, n, x, step)
           f == [n \in Nat |-> Beginning(n)[n]]
<1>1. \A n \in Nat : Beginning(n) \in [0..n -> S] /\ Begins(Beginning(n), n, x, step)
  BY RecursionBegins
<1> HIDE DEF Beginning
<1>2. f \in [Nat -> S]
  <2> SUFFICES ASSUME NEW n \in Nat PROVE Beginning(n)[n] \in S
    OBVIOUS
  <2>1. n \in 0..n
    OBVIOUS
  <2> QED
    BY <1>1, <2>1
<1>3. f[0] = x
  BY <1>1 DEF Begins
<1>4. ASSUME NEW n \in Nat PROVE f[n + 1] = step[<<n, f[n]>>]
  <2>1. Begins(Beginning(n + 1), n + 1, x, step) /\ Begins(Beginning(n), n, x, step)
    BY <1>1
  <2>2. Beginning(n + 1)[n + 1] = step[<<n, Beginning(n + 1)[n]>>]
    BY <2>1 DEF Begins
  <2>3. Beginning(n + 1)[n] = Beginning(n)[n]
    <3>1. n + 1 \in Nat
      OBVIOUS
    <3>2. \A k \in Nat : k <= n + 1 /\ k <= n => Beginning(n + 1)[k] = Beginning(n)[k]
      BY <2>1, <3>1, RecursionUnique
    <3> QED
      BY <3>2
  <2> QED
    BY <2>2, <2>3
<1> HIDE DEF f
<1> QED
  BY <1>2, <1>3, <1>4 DEF Recurses

(* The same for a recursion that goes to n only.                              *)
RecursesUpto(f, n, x, op) == f[0] = x /\ \A k \in 1..n : f[k] = op[<<k, f[k - 1]>>]

LEMMA RecursionUpto ==
    ASSUME NEW S, NEW x \in S, NEW n \in Nat, NEW op \in [(1..n) \X S -> S]
    PROVE  \E f \in [0..n -> S] : RecursesUpto(f, n, x, op)
<1> DEFINE step == [a \in Nat \X S |-> IF a[1] < n THEN op[<<a[1] + 1, a[2]>>] ELSE a[2]]
<1>1. step \in [Nat \X S -> S]
  <2> SUFFICES ASSUME NEW a \in Nat \X S
               PROVE  (IF a[1] < n THEN op[<<a[1] + 1, a[2]>>] ELSE a[2]) \in S
    OBVIOUS
  <2>1. a[1] \in Nat /\ a[2] \in S
    OBVIOUS
  <2>2. CASE a[1] < n
    <3>1. a[1] + 1 \in 1..n
      BY <2>1, <2>2
    <3> QED
      BY <2>1, <2>2, <3>1
  <2> QED
    BY <2>1, <2>2
<1>2. PICK g \in [Nat -> S] : Recurses(g, x, step)
  <2> HIDE DEF step
  <2> QED
    BY <1>1, Recursion
<1> DEFINE f == [k \in 0..n |-> g[k]]
<1>3. f \in [0..n -> S] /\ f[0] = x
  BY <1>2 DEF Recurses
<1>4. ASSUME NEW k \in 1..n PROVE f[k] = op[<<k, f[k - 1]>>]
  <2>1. PICK j \in Nat : j + 1 = k /\ j = k - 1 /\ j < n /\ j \in 0..n /\ k \in 0..n
    <3>1. k - 1 \in Nat /\ (k - 1) + 1 = k /\ k - 1 < n /\ k - 1 \in 0..n /\ k \in 0..n
      OBVIOUS
    <3> QED
      BY <3>1
  <2>2. g[j + 1] = step[<<j, g[j]>>]
    <3> HIDE DEF step
    <3> QED
      BY <1>2 DEF Recurses
  <2>3. <<j, g[j]>> \in Nat \X S
    BY <1>2
  <2>4. step[<<j, g[j]>>] = op[<<j + 1, g[j]>>]
    BY <2>1, <2>3
  <2> QED
    BY <2>1, <2>2, <2>4
<1> HIDE DEF f
<1> QED
  BY <1>3, <1>4 DEF RecursesUpto

-----------------------------------------------------------------------------
(* FlattenSeq by the elements of a sequence: flat[k] is what the first k say. *)
Flattens(flat, seqs) ==
    flat[0] = <<>> /\ \A k \in 1..Len(seqs) : flat[k] = flat[k - 1] \o seqs[k]

LEMMA CanFlatten ==
    ASSUME NEW S, NEW seqs \in Seq(Seq(S))
    PROVE  \E flat \in [0..Len(seqs) -> Seq(S)] : Flattens(flat, seqs)
<1> DEFINE n == Len(seqs)
           op == [a \in (1..n) \X Seq(S) |-> a[2] \o seqs[a[1]]]
<1>1. n \in Nat /\ <<>> \in Seq(S)
  OBVIOUS
<1>2. op \in [(1..n) \X Seq(S) -> Seq(S)]
  <2> SUFFICES ASSUME NEW a \in (1..n) \X Seq(S) PROVE a[2] \o seqs[a[1]] \in Seq(S)
    OBVIOUS
  <2>1. a[2] \in Seq(S) /\ seqs[a[1]] \in Seq(S)
    BY ElementOfSeq
  <2> QED
    BY <2>1
<1>3. \A k \in 1..n : \A s \in Seq(S) : op[<<k, s>>] = s \o seqs[k]
  OBVIOUS
<1> HIDE DEF op
<1>4. PICK flat \in [0..n -> Seq(S)] : RecursesUpto(flat, n, <<>>, op)
  <2> HIDE DEF n
  <2> QED
    BY <1>1, <1>2, RecursionUpto
<1>5. Flattens(flat, seqs)
  <2>1. ASSUME NEW k \in 1..n PROVE flat[k] = flat[k - 1] \o seqs[k]
    <3>1. k - 1 \in 0..n
      OBVIOUS
    <3>2. flat[k - 1] \in Seq(S)
      BY <3>1
    <3> QED
      BY <3>2, <1>3, <1>4 DEF RecursesUpto
  <2> QED
    BY <2>1, <1>4 DEF Flattens, RecursesUpto
<1> QED
  BY <1>5

LEMMA FlattenIs ==
    ASSUME NEW S, NEW seqs \in Seq(Seq(S)), NEW flat \in [0..Len(seqs) -> Seq(S)],
           Flattens(flat, seqs)
    PROVE  FlattenSeq(seqs) = flat[Len(seqs)]
<1> DEFINE n == Len(seqs)
           Rec(g) == g = [i \in 1..n |-> IF i = 1 THEN seqs[i] ELSE g[i - 1] \o seqs[i]]
           f == [i \in 1..n |-> flat[i]]
           g == CHOOSE g : Rec(g)
<1>0. n \in Nat
  OBVIOUS
<1>1. CASE n = 0
  BY <1>1 DEF FlattenSeq, Flattens
<1>2. CASE n # 0
  <2>1. ASSUME NEW i \in 1..n
        PROVE  flat[i] = IF i = 1 THEN seqs[i] ELSE f[i - 1] \o seqs[i]
    <3>1. flat[i] = flat[i - 1] \o seqs[i] /\ seqs[i] \in Seq(S)
      BY <2>1 DEF Flattens
    <3>2. CASE i = 1
      <4>1. flat[i - 1] = <<>>
        BY <3>2 DEF Flattens
      <4> QED
        BY <3>1, <3>2, <4>1
    <3>3. CASE i # 1
      <4>1. i - 1 \in 1..n
        BY <3>3
      <4> QED
        BY <3>1, <3>3, <4>1
    <3> QED
      BY <3>2, <3>3
  <2>2. Rec(f)
    BY <2>1
  <2>3. Rec(g)
    <3> HIDE DEF Rec, f
    <3> QED
      BY <2>2
  <2>4. FlattenSeq(seqs) = g[n]
    BY <1>2 DEF FlattenSeq
  <2> HIDE DEF g
  <2>5. \A i \in 1..n : g[i] = IF i = 1 THEN seqs[i] ELSE g[i - 1] \o seqs[i]
    BY <2>3
  <2> HIDE DEF Rec, f, n
  <2> DEFINE T == {k \in Nat : k + 1 \in 1..n => g[k + 1] = flat[k + 1]}
  <2>6. 0 \in T
    <3> SUFFICES ASSUME 1 \in 1..n PROVE g[1] = flat[1]
      OBVIOUS
    <3>1. g[1] = seqs[1]
      BY <2>5
    <3>2. 1 \in 1..Len(seqs) /\ 1 - 1 = 0
      BY DEF n
    <3>3. flat[1] = flat[0] \o seqs[1] /\ flat[0] = <<>>
      BY <3>2 DEF Flattens
    <3>4. seqs[1] \in Seq(S)
      BY <3>2
    <3> QED
      BY <3>1, <3>3, <3>4
  <2>7. ASSUME NEW k \in Nat, k \in T PROVE k + 1 \in T
    <3> SUFFICES ASSUME k + 2 \in 1..n PROVE g[k + 2] = flat[k + 2]
      OBVIOUS
    <3>1. k + 1 \in 1..n /\ (k + 2) - 1 = k + 1 /\ k + 2 # 1
      BY <1>0
    <3>2. g[k + 2] = g[k + 1] \o seqs[k + 2]
      BY <2>5, <3>1
    <3>3. flat[k + 2] = flat[k + 1] \o seqs[k + 2]
      BY <3>1 DEF Flattens, n
    <3> QED
      BY <3>1, <3>2, <3>3, <2>7
  <2>8. T = Nat
    <3>1. T \in SUBSET Nat
      OBVIOUS
    <3> HIDE DEF T
    <3> QED
      BY <2>6, <2>7, <3>1, SetInduction
  <2>9. n - 1 \in T /\ (n - 1) + 1 = n /\ n \in 1..n
    <3>1. n - 1 \in Nat /\ (n - 1) + 1 = n /\ n \in 1..n
      BY <1>0, <1>2
    <3> HIDE DEF T
    <3> QED
      BY <3>1, <2>8
  <2>10. g[n] = flat[n]
    BY <2>9
  <2> QED
    BY <2>4, <2>10 DEF n
<1> QED
  BY <1>1, <1>2

LEMMA FlattenEmpty == FlattenSeq(<<>>) = <<>>
  BY DEF FlattenSeq

LEMMA FlattenType ==
    ASSUME NEW S, NEW seqs \in Seq(Seq(S))
    PROVE  FlattenSeq(seqs) \in Seq(S)
<1>1. PICK flat \in [0..Len(seqs) -> Seq(S)] : Flattens(flat, seqs)
  BY CanFlatten
<1>2. FlattenSeq(seqs) = flat[Len(seqs)]
  BY <1>1, FlattenIs
<1>3. Len(seqs) \in 0..Len(seqs)
  BY LenProperties
<1> QED
  BY <1>2, <1>3

LEMMA FlattenAppend ==
    ASSUME NEW S, NEW seqs \in Seq(Seq(S)), NEW s \in Seq(S)
    PROVE  FlattenSeq(Append(seqs, s)) = FlattenSeq(seqs) \o s
<1>1. PICK more : more = Append(seqs, s)
  OBVIOUS
<1>2. more \in Seq(Seq(S)) /\ Len(more) = Len(seqs) + 1 /\ more[Len(seqs) + 1] = s
      /\ \A k \in 1..Len(seqs) : more[k] = seqs[k]
  BY <1>1
<1>3. PICK flat \in [0..Len(more) -> Seq(S)] : Flattens(flat, more)
  BY <1>2, CanFlatten
<1> DEFINE f == [k \in 0..Len(seqs) |-> flat[k]]
<1>0. Len(seqs) \in Nat
  OBVIOUS
<1>4. f \in [0..Len(seqs) -> Seq(S)]
  <2> SUFFICES ASSUME NEW k \in 0..Len(seqs) PROVE flat[k] \in Seq(S)
    OBVIOUS
  <2>1. k \in 0..Len(more)
    BY <1>2, <1>0
  <2> QED
    BY <2>1
<1>5. Flattens(f, seqs)
  <2>1. f[0] = <<>>
    BY <1>3, <1>0 DEF Flattens
  <2>2. ASSUME NEW k \in 1..Len(seqs) PROVE f[k] = f[k - 1] \o seqs[k]
    <3>1. k \in 1..Len(more) /\ k \in 0..Len(seqs) /\ k - 1 \in 0..Len(seqs) /\ more[k] = seqs[k]
      BY <1>2, <1>0
    <3>2. flat[k] = flat[k - 1] \o more[k]
      BY <3>1, <1>3 DEF Flattens
    <3> QED
      BY <3>1, <3>2
  <2> HIDE DEF f
  <2> QED
    BY <2>1, <2>2 DEF Flattens
<1>6. FlattenSeq(seqs) = f[Len(seqs)]
  <2> HIDE DEF f
  <2> QED
    BY <1>4, <1>5, FlattenIs
<1>7. FlattenSeq(more) = flat[Len(more)]
  BY <1>2, <1>3, FlattenIs
<1>8. flat[Len(seqs) + 1] = flat[Len(seqs)] \o s
  <2>1. Len(seqs) + 1 \in 1..Len(more) /\ (Len(seqs) + 1) - 1 = Len(seqs)
    BY <1>2, <1>0
  <2> QED
    BY <2>1, <1>2, <1>3 DEF Flattens
<1>9. f[Len(seqs)] = flat[Len(seqs)]
  BY <1>0
<1> QED
  BY <1>1, <1>2, <1>6, <1>7, <1>8, <1>9

(* What the first k + 1 elements say is what the first k say and one more.    *)
LEMMA FlattenPart ==
    ASSUME NEW S, NEW seqs \in Seq(Seq(S)), NEW k \in Nat, k < Len(seqs)
    PROVE  FlattenSeq(SubSeq(seqs, 1, k + 1)) = FlattenSeq(SubSeq(seqs, 1, k)) \o seqs[k + 1]
<1>1. PICK part : part = SubSeq(seqs, 1, k)
  OBVIOUS
<1>2. part \in Seq(Seq(S)) /\ seqs[k + 1] \in Seq(S)
  <2>1. k + 1 \in 1..Len(seqs) /\ \A i \in 1..k : seqs[i] \in Seq(S)
    OBVIOUS
  <2>2. seqs[k + 1] \in Seq(S)
    BY <2>1, ElementOfSeq
  <2>3. 1 \in Int /\ k \in Int
    OBVIOUS
  <2>4. SubSeq(seqs, 1, k) \in Seq(Seq(S))
    BY <2>1, <2>3, SubSeqProperties
  <2> QED
    BY <1>1, <2>2, <2>4
<1>3. SubSeq(seqs, 1, k + 1) = Append(part, seqs[k + 1])
  <2>1. 1 \in 1..Len(seqs) /\ k + 1 \in 1..Len(seqs) /\ (k + 1) - 1 = k
    OBVIOUS
  <2>2. SubSeq(seqs, 1, k + 1) = SubSeq(seqs, 1, (k + 1) - 1) \o <<seqs[k + 1]>>
    BY <2>1, SubSeqRecursiveSecond
  <2>3. Append(part, seqs[k + 1]) = part \o <<seqs[k + 1]>>
    BY <1>2, AppendIsConcat
  <2> QED
    BY <1>1, <2>1, <2>2, <2>3
<1> QED
  BY <1>1, <1>2, <1>3, FlattenAppend

(* What the first elements say is how all that is said begins.                *)
LEMMA FlattenBegins ==
    ASSUME NEW S, NEW seqs \in Seq(Seq(S)), NEW k \in 0..Len(seqs)
    PROVE  \E rest \in Seq(S) : FlattenSeq(seqs) = FlattenSeq(SubSeq(seqs, 1, k)) \o rest
<1> DEFINE n == Len(seqs)
           F(i) == FlattenSeq(SubSeq(seqs, 1, i))
           Goes(d) == \E rest \in Seq(S) : F(n) = F(n - d) \o rest
           T == {d \in Nat : d <= n => Goes(d)}
<1>0. n \in Nat
  OBVIOUS
<1>1. ASSUME NEW i \in 0..n PROVE F(i) \in Seq(S)
  <2>1. \A j \in 1..i : seqs[j] \in Seq(S)
    OBVIOUS
  <2>2. SubSeq(seqs, 1, i) \in Seq(Seq(S))
    BY <2>1, <1>0, SubSeqProperties
  <2> QED
    BY <2>2, FlattenType
<1>2. ASSUME NEW i \in 0..n, i < n PROVE F(i + 1) = F(i) \o seqs[i + 1] /\ seqs[i + 1] \in Seq(S)
  <2>1. i + 1 \in 1..Len(seqs)
    BY <1>2
  <2>2. seqs[i + 1] \in Seq(S)
    BY <2>1, ElementOfSeq
  <2>3. i \in Nat /\ i < Len(seqs)
    BY <1>2
  <2> QED
    BY <2>2, <2>3, FlattenPart
<1> HIDE DEF F
<1>3. 0 \in T
  <2>1. F(n) = F(n) \o <<>>
    BY <1>0, <1>1
  <2>2. n - 0 = n /\ <<>> \in Seq(S)
    BY <1>0
  <2> QED
    BY <2>1, <2>2
<1>4. ASSUME NEW d \in Nat, d \in T PROVE d + 1 \in T
  <2>1. ASSUME d + 1 <= n PROVE Goes(d + 1)
    <3>1. d <= n
      BY <1>0, <2>1
    <3>2. PICK rest \in Seq(S) : F(n) = F(n - d) \o rest
      BY <3>1, <1>4
    <3>3. n - (d + 1) \in 0..n /\ n - (d + 1) < n /\ (n - (d + 1)) + 1 = n - d
      BY <1>0, <2>1
    <3>4. F(n - d) = F(n - (d + 1)) \o seqs[n - d] /\ seqs[n - d] \in Seq(S)
      BY <3>3, <1>2
    <3>5. F(n - (d + 1)) \in Seq(S)
      BY <3>3, <1>1
    <3>6. PICK s, u : s = F(n - (d + 1)) /\ u = seqs[n - d]
      OBVIOUS
    <3>7. s \in Seq(S) /\ u \in Seq(S)
      BY <3>4, <3>5, <3>6
    <3>8. (s \o u) \o rest = s \o (u \o rest)
      BY <3>7
    <3>9. u \o rest \in Seq(S)
      BY <3>7
    <3>10. F(n) = F(n - (d + 1)) \o (u \o rest)
      BY <3>2, <3>4, <3>6, <3>8
    <3> QED
      BY <3>9, <3>10
  <2> HIDE DEF Goes
  <2> QED
    BY <2>1
<1>5. T = Nat
  <2>1. T \in SUBSET Nat
    OBVIOUS
  <2> HIDE DEF T
  <2> QED
    BY <1>3, <1>4, <2>1, SetInduction
<1>6. n - k \in T /\ n - (n - k) = k /\ n - k <= n
  <2>1. n - k \in Nat /\ n - (n - k) = k /\ n - k <= n
    BY <1>0
  <2> HIDE DEF T
  <2> QED
    BY <2>1, <1>5
<1>7. \E rest \in Seq(S) : F(n) = F(k) \o rest
  <2> HIDE DEF n
  <2> QED
    BY <1>6
<1>8. SubSeq(seqs, 1, n) = seqs
  BY SubSeqFull
<1> QED
  BY <1>7, <1>8 DEF F

Groups(S, x, y, z) == (x \o y) \o z = x \o (y \o z)

LEMMA Grouping ==
    ASSUME NEW S, NEW x \in Seq(S), NEW y \in Seq(S), NEW z \in Seq(S)
    PROVE  Groups(S, x, y, z)
  BY ConcatAssociative DEF Groups

(* What two sequences say, one after the other.                               *)
LEMMA FlattenConcat ==
    ASSUME NEW S, NEW s \in Seq(Seq(S)), NEW t \in Seq(Seq(S))
    PROVE  FlattenSeq(s \o t) = FlattenSeq(s) \o FlattenSeq(t)
<1> DEFINE n == Len(t)
           W(k) == SubSeq(t, 1, k)
           T == {k \in Nat : k <= n => FlattenSeq(s \o W(k)) = FlattenSeq(s) \o FlattenSeq(W(k))}
<1>0. n \in Nat
  OBVIOUS
<1>1. FlattenSeq(s) \in Seq(S) /\ FlattenSeq(<<>>) = <<>>
  BY FlattenType, FlattenEmpty
<1>2. 0 \in T
  <2>1. W(0) = <<>> /\ s \o <<>> = s /\ FlattenSeq(s) \o <<>> = FlattenSeq(s)
    BY <1>1
  <2> QED
    BY <2>1, <1>1
<1>3. ASSUME NEW k \in Nat, k \in T PROVE k + 1 \in T
  <2> SUFFICES ASSUME k + 1 <= n
               PROVE  FlattenSeq(s \o W(k + 1)) = FlattenSeq(s) \o FlattenSeq(W(k + 1))
    OBVIOUS
  <2>1. FlattenSeq(s \o W(k)) = FlattenSeq(s) \o FlattenSeq(W(k))
    BY <1>0, <1>3
  <2>2. k + 1 \in 1..n /\ k \in Nat /\ k < Len(t) /\ k \in 0..n
    BY <1>0
  <2>3. PICK e \in Seq(S) : e = t[k + 1]
    BY <2>2, ElementOfSeq
  <2>4. W(k) \in Seq(Seq(S)) /\ W(k + 1) = Append(W(k), e)
    <3>1. 1 \in 1..n /\ k + 1 \in 1..n /\ (k + 1) - 1 = k
      BY <2>2
    <3>2. SubSeq(t, 1, k + 1) = SubSeq(t, 1, (k + 1) - 1) \o <<t[k + 1]>>
      BY <3>1, SubSeqRecursiveSecond
    <3>3. \A j \in 1..k : t[j] \in Seq(S)
      BY <2>2
    <3>4. W(k) \in Seq(Seq(S))
      BY <2>2, <3>3, SubSeqProperties
    <3> QED
      BY <2>3, <3>1, <3>2, <3>4, AppendIsConcat
  <2> HIDE DEF W
  <2>5. s \o W(k) \in Seq(Seq(S)) /\ s \o Append(W(k), e) = Append(s \o W(k), e)
    <3>1. PICK w : w = W(k) /\ w \in Seq(Seq(S))
      BY <2>4
    <3>2. s \o w \in Seq(Seq(S))
      BY <3>1, ConcatProperties
    <3>3. s \o Append(w, e) = Append(s \o w, e)
      BY <3>1, <2>3
    <3> QED
      BY <3>1, <3>2, <3>3
  <2>6. FlattenSeq(W(k)) \in Seq(S)
    BY <2>4, FlattenType
  <2>7. FlattenSeq(s \o W(k + 1)) = (FlattenSeq(s) \o FlattenSeq(W(k))) \o e
    <3>1. FlattenSeq(Append(s \o W(k), e)) = FlattenSeq(s \o W(k)) \o e
      BY <2>3, <2>5, FlattenAppend
    <3> QED
      BY <2>1, <2>4, <2>5, <3>1
  <2>8. FlattenSeq(W(k + 1)) = FlattenSeq(W(k)) \o e
    BY <2>4, FlattenAppend
  <2>9. (FlattenSeq(s) \o FlattenSeq(W(k))) \o e = FlattenSeq(s) \o (FlattenSeq(W(k)) \o e)
    <3>1. Groups(S, FlattenSeq(s), FlattenSeq(W(k)), e)
      BY <1>1, <2>3, <2>6, Grouping
    <3> QED
      BY <3>1 DEF Groups
  <2> QED
    BY <2>7, <2>8, <2>9
<1>4. n \in T
  <2> HIDE DEF T
  <2>1. T \in SUBSET Nat
    BY DEF T
  <2>2. T = Nat
    BY <1>2, <1>3, <2>1, SetInduction
  <2> QED
    BY <1>0, <2>2
<1>5. W(n) = t
  BY <1>0
<1> HIDE DEF W, n
<1> QED
  BY <1>0, <1>4, <1>5

(* Sequences that say nothing.                                                *)
LEMMA FlattenNothing ==
    ASSUME NEW S, NEW s \in Seq(Seq(S)), \A i \in 1..Len(s) : s[i] = <<>>
    PROVE  FlattenSeq(s) = <<>>
<1>1. PICK flat \in [0..Len(s) -> Seq(S)] : Flattens(flat, s)
  BY CanFlatten
<1>2. FlattenSeq(s) = flat[Len(s)]
  BY <1>1, FlattenIs
<1>3. Len(s) \in Nat
  OBVIOUS
<1> DEFINE T == {k \in Nat : k <= Len(s) => flat[k] = <<>>}
<1>4. 0 \in T
  BY <1>1 DEF Flattens
<1>5. ASSUME NEW k \in Nat, k \in T PROVE k + 1 \in T
  <2> SUFFICES ASSUME k + 1 <= Len(s) PROVE flat[k + 1] = <<>>
    OBVIOUS
  <2>1. k + 1 \in 1..Len(s) /\ (k + 1) - 1 = k /\ flat[k] = <<>>
    BY <1>3, <1>5
  <2>2. flat[k + 1] = flat[k] \o s[k + 1]
    BY <1>1, <2>1 DEF Flattens
  <2> QED
    BY <2>1, <2>2
<1> HIDE DEF T
<1>6. T = Nat
  <2>1. T \in SUBSET Nat
    BY DEF T
  <2> QED
    BY <1>4, <1>5, <2>1, SetInduction
<1> QED
  BY <1>2, <1>3, <1>6 DEF T

(* Sequences that say one thing each.                                         *)
LEMMA FlattenOnes ==
    ASSUME NEW S, NEW t \in Seq(S), NEW s, s = [i \in 1..Len(t) |-> <<t[i]>>]
    PROVE  FlattenSeq(s) = t
<1>0. Len(t) \in Nat /\ \A i \in 1..Len(t) : t[i] \in S
  OBVIOUS
<1>1. s \in Seq(Seq(S)) /\ Len(s) = Len(t) /\ \A i \in 1..Len(t) : s[i] = <<t[i]>>
  <2>1. \A i \in 1..Len(t) : <<t[i]>> \in Seq(S)
    BY <1>0
  <2> QED
    BY <1>0, <2>1, IsASeq
<1>2. PICK flat \in [0..Len(s) -> Seq(S)] : Flattens(flat, s)
  BY <1>1, CanFlatten
<1>3. FlattenSeq(s) = flat[Len(s)]
  BY <1>1, <1>2, FlattenIs
<1> DEFINE T == {k \in Nat : k <= Len(t) => flat[k] = SubSeq(t, 1, k)}
<1>4. 0 \in T
  BY <1>2 DEF Flattens
<1>5. ASSUME NEW k \in Nat, k \in T PROVE k + 1 \in T
  <2> SUFFICES ASSUME k + 1 <= Len(t) PROVE flat[k + 1] = SubSeq(t, 1, k + 1)
    OBVIOUS
  <2>1. k + 1 \in 1..Len(t) /\ (k + 1) - 1 = k /\ flat[k] = SubSeq(t, 1, k)
    BY <1>0, <1>5
  <2>2. flat[k + 1] = flat[k] \o <<t[k + 1]>>
    BY <1>1, <1>2, <2>1 DEF Flattens
  <2>3. SubSeq(t, 1, k + 1) = SubSeq(t, 1, k) \o <<t[k + 1]>>
    <3>1. 1 \in 1..Len(t)
      BY <2>1, <1>0
    <3> QED
      BY <2>1, <3>1, SubSeqRecursiveSecond
  <2> QED
    BY <2>1, <2>2, <2>3
<1> HIDE DEF T
<1>6. T = Nat
  <2>1. T \in SUBSET Nat
    BY DEF T
  <2> QED
    BY <1>4, <1>5, <2>1, SetInduction
<1>7. SubSeq(t, 1, Len(t)) = t
  BY <1>0
<1>8. Len(t) \in T
  BY <1>0, <1>6
<1>9. flat[Len(t)] = SubSeq(t, 1, Len(t))
  BY <1>0, <1>8 DEF T
<1> QED
  BY <1>1, <1>3, <1>7, <1>9
===============================================================================
