-------------------------- MODULE Containers_proofs --------------------------
(***************************************************************************)
(* Proofs about the hash table (HMap) and the string buffer (Buffer), which *)
(* TLC checks together (MCContainers).                                      *)
(*                                                                         *)
(* The table: for any keys, values, hash function                           *)
(* and number of buckets to begin with, the entries are where their keys    *)
(* are looked for, size counts them, and the buckets implement a table      *)
(* (Table), through every put, removal, growth and walk.                    *)
(*                                                                         *)
(* What the calls do to the buckets is said of the set of their entries;    *)
(* what they do to the table follows from that.                             *)
(*                                                                         *)
(* The buffer: it never writes outside of its block, its text is always     *)
(* ended by a NUL, and it implements Text, for all strings and positions.   *)
(* It is sound when its block is as large as it says and holds a NUL behind *)
(* the text.  Each of the functions that a call is made of keeps that, and  *)
(* says of each byte where it comes from; the text of the result is then    *)
(* compared with that of Text byte by byte.                                 *)
(***************************************************************************)
EXTENDS MCContainers, Inductions, SequenceTheorems

EntryType == [key : Keys, value : Values]

(* A table b of n buckets: every entry is where its key is looked for, and   *)
(* no other in its bucket has that key.                                      *)
Sound(b, n) ==
    /\ n \in Nat \ {0}
    /\ b \in [0..(n - 1) -> Seq(EntryType)]
    /\ \A i \in 0..(n - 1) : \A j \in 1..Len(b[i]) : hmap_hash(b[i][j].key, n) = i
    /\ \A i \in 0..(n - 1) : \A j, k \in 1..Len(b[i]) : b[i][j].key = b[i][k].key => j = k

In(b, n, e)    == \E i \in 0..(n - 1) : \E j \in 1..Len(b[i]) : b[i][j] = e
EntrySet(b, n) == {e \in EntryType : In(b, n, e)}

-----------------------------------------------------------------------------
(* A key is looked for in one of the buckets.                                *)
LEMMA HashIn ==
    ASSUME NEW k \in Keys, NEW n \in Nat \ {0}
    PROVE  hmap_hash(k, n) \in 0..(n - 1)
<1>1. Hash[k] \in Nat
  BY HashAssumption
<1> QED
  BY <1>1 DEF hmap_hash

LEMMA EntryIn ==
    ASSUME NEW k \in Keys, NEW v \in Values
    PROVE  Entry(k, v) \in EntryType /\ Entry(k, v).key = k /\ Entry(k, v).value = v
BY DEF Entry, EntryType

(* The places of a sequence that an element is put before, put behind, or    *)
(* taken out of.                                                             *)
LEMMA InFront ==
    ASSUME NEW S, NEW s \in Seq(S), NEW e \in S
    PROVE  /\ <<e>> \o s \in Seq(S) /\ Len(<<e>> \o s) = Len(s) + 1
           /\ \A j \in 1..(Len(s) + 1) : (<<e>> \o s)[j] = IF j = 1 THEN e ELSE s[j - 1]
<1>1. <<e>> \in Seq(S) /\ Len(<<e>>) = 1 /\ <<e>>[1] = e
  OBVIOUS
<1> QED
  BY <1>1, ConcatProperties

LEMMA TakenOut ==
    ASSUME NEW S, NEW s \in Seq(S), NEW p \in 1..Len(s)
    PROVE  /\ RemoveAt(s, p) \in Seq(S) /\ Len(RemoveAt(s, p)) = Len(s) - 1
           /\ \A j \in 1..(Len(s) - 1) :
                RemoveAt(s, p)[j] = IF j < p THEN s[j] ELSE s[j + 1]
<1> DEFINE pre  == SubSeq(s, 1, p - 1)
           post == SubSeq(s, p + 1, Len(s))
<1>1. /\ pre \in Seq(S) /\ Len(pre) = p - 1
      /\ \A j \in 1..(p - 1) : pre[j] = s[j]
  BY SubSeqProperties
<1>2. /\ post \in Seq(S) /\ Len(post) = Len(s) - p
      /\ \A j \in 1..(Len(s) - p) : post[j] = s[j + p]
  BY SubSeqProperties
<1>3. RemoveAt(s, p) = pre \o post
  BY DEF RemoveAt
<1> HIDE DEF pre, post
<1>4. /\ pre \o post \in Seq(S) /\ Len(pre \o post) = Len(s) - 1
      /\ \A j \in 1..(Len(s) - 1) :
           (pre \o post)[j] = IF j <= p - 1 THEN pre[j] ELSE post[j - (p - 1)]
  <2>1. /\ pre \o post \in Seq(S) /\ Len(pre \o post) = Len(pre) + Len(post)
        /\ \A j \in 1..(Len(pre) + Len(post)) :
             (pre \o post)[j] = IF j <= Len(pre) THEN pre[j] ELSE post[j - Len(pre)]
    <3>1. pre \in Seq(S) /\ post \in Seq(S)
      BY <1>1, <1>2
    <3> QED
      BY <3>1, ConcatProperties
  <2>2. Len(pre) + Len(post) = Len(s) - 1
    BY <1>1, <1>2
  <2> QED
    BY <2>1, <2>2, <1>1
<1>5. ASSUME NEW j \in 1..(Len(s) - 1)
      PROVE  (pre \o post)[j] = IF j < p THEN s[j] ELSE s[j + 1]
  <2>1. CASE j < p
    <3>1. j \in 1..(p - 1) /\ j <= p - 1
      BY <2>1
    <3>2. pre[j] = s[j]
      BY <3>1, <1>1
    <3> QED
      BY <1>4, <2>1, <3>1, <3>2
  <2>2. CASE ~(j < p)
    <3>1. j - (p - 1) \in 1..(Len(s) - p) /\ ~(j <= p - 1)
      BY <2>2
    <3>2. post[j - (p - 1)] = s[(j - (p - 1)) + p]
      BY <3>1, <1>2
    <3>3. (j - (p - 1)) + p = j + 1
      OBVIOUS
    <3> QED
      BY <1>4, <2>2, <3>1, <3>2, <3>3
  <2> QED
    BY <2>1, <2>2
<1> QED
  BY <1>3, <1>4, <1>5

(* The place a key is found at.                                              *)
Spot(s, k) == SelectInSeq(s, LAMBDA e : e.key = k)

LEMMA Spotted ==
    ASSUME NEW s \in Seq(EntryType), NEW k
    PROVE  \/ Spot(s, k) = 0 /\ \A j \in 1..Len(s) : s[j].key # k
           \/ Spot(s, k) \in 1..Len(s) /\ s[Spot(s, k)].key = k
<1> DEFINE I == {j \in 1..Len(s) : s[j].key = k}
<1>1. Spot(s, k) = IF I # {} THEN Min(I) ELSE 0
  BY DEF Spot, SelectInSeq
<1>2. CASE I = {}
  BY <1>1, <1>2
<1>3. CASE I # {}
  <2>1. I \in SUBSET Nat
    OBVIOUS
  <2>2. \E m \in I : \A j \in I : m <= j
    <3> HIDE DEF I
    <3> QED
      BY <1>3, <2>1, LeastNumber
  <2>3. Min(I) \in I
    BY <2>2 DEF Min
  <2> QED
    BY <1>1, <1>3, <2>3
<1> QED
  BY <1>2, <1>3

(* If an entry has the key, it is there that it is found.                    *)
LEMMA SpotIs ==
    ASSUME NEW b, NEW n, Sound(b, n), NEW i \in 0..(n - 1), NEW p \in 1..Len(b[i])
    PROVE  /\ i = hmap_hash(b[i][p].key, n)
           /\ Spot(b[i], b[i][p].key) = p
<1>1. b[i] \in Seq(EntryType)
  BY DEF Sound
<1>2. i = hmap_hash(b[i][p].key, n)
  BY DEF Sound
<1>3. /\ Spot(b[i], b[i][p].key) \in 1..Len(b[i])
      /\ b[i][Spot(b[i], b[i][p].key)].key = b[i][p].key
  BY <1>1, Spotted
<1> QED
  BY <1>2, <1>3 DEF Sound

(* A key that is not in its bucket is the key of no entry.                   *)
LEMMA NotSpotted ==
    ASSUME NEW b, NEW n, Sound(b, n), NEW k \in Keys, Spot(b[hmap_hash(k, n)], k) = 0,
           NEW i \in 0..(n - 1), NEW p \in 1..Len(b[i])
    PROVE  b[i][p].key # k
<1>1. SUFFICES ASSUME b[i][p].key = k PROVE FALSE
  OBVIOUS
<1>2. i = hmap_hash(k, n) /\ Spot(b[i], k) = p
  BY <1>1, SpotIs
<1> QED
  BY <1>2

-----------------------------------------------------------------------------
(* One bucket is given other entries.                                        *)
Changed(b, new, n, i) ==
    /\ Sound(new, n)
    /\ \A e : In(new, n, e) <=>
         \/ \E q \in 1..Len(new[i]) : new[i][q] = e
         \/ In(b, n, e) /\ hmap_hash(e.key, n) # i

LEMMA BucketChanged ==
    ASSUME NEW b, NEW n, Sound(b, n), NEW i \in 0..(n - 1),
           NEW new \in [0..(n - 1) -> Seq(EntryType)],
           \A k \in 0..(n - 1) : k # i => new[k] = b[k],
           \A j \in 1..Len(new[i]) : hmap_hash(new[i][j].key, n) = i,
           \A j, k \in 1..Len(new[i]) : new[i][j].key = new[i][k].key => j = k
    PROVE  Changed(b, new, n, i)
<1>1. n \in Nat \ {0}
  BY DEF Sound
<1>2. Sound(new, n)
  <2>1. ASSUME NEW k \in 0..(n - 1), NEW j \in 1..Len(new[k])
        PROVE  hmap_hash(new[k][j].key, n) = k
    <3>1. CASE k = i
      BY <1>1, <3>1
    <3>2. CASE k # i
      BY <1>1, <3>2 DEF Sound
    <3> QED
      BY <3>1, <3>2
  <2>2. ASSUME NEW k \in 0..(n - 1), NEW j \in 1..Len(new[k]), NEW l \in 1..Len(new[k]),
               new[k][j].key = new[k][l].key
        PROVE  j = l
    <3>1. CASE k = i
      BY <1>1, <2>2, <3>1
    <3>2. CASE k # i
      BY <1>1, <2>2, <3>2 DEF Sound
    <3> QED
      BY <3>1, <3>2
  <2> QED
    BY <1>1, <2>1, <2>2 DEF Sound
<1>3. ASSUME NEW e, In(new, n, e)
      PROVE  \/ \E q \in 1..Len(new[i]) : new[i][q] = e
             \/ In(b, n, e) /\ hmap_hash(e.key, n) # i
  <2>1. PICK k \in 0..(n - 1) : \E j \in 1..Len(new[k]) : new[k][j] = e
    BY <1>3 DEF In
  <2>2. CASE k = i
    BY <2>1, <2>2
  <2>3. CASE k # i
    <3>1. new[k] = b[k]
      BY <1>1, <2>3
    <3>2. In(b, n, e)
      BY <2>1, <3>1 DEF In
    <3>3. hmap_hash(e.key, n) = k
      BY <2>1, <3>1 DEF Sound
    <3> QED
      BY <2>3, <3>2, <3>3
  <2> QED
    BY <2>2, <2>3
<1>4. ASSUME NEW e, \E q \in 1..Len(new[i]) : new[i][q] = e
      PROVE  In(new, n, e)
  BY <1>4 DEF In
<1>5. ASSUME NEW e, In(b, n, e), hmap_hash(e.key, n) # i
      PROVE  In(new, n, e)
  <2>1. PICK k \in 0..(n - 1) : \E j \in 1..Len(b[k]) : b[k][j] = e
    BY <1>5 DEF In
  <2>2. k # i
    BY <1>5, <2>1 DEF Sound
  <2> QED
    BY <2>1, <2>2 DEF In
<1> QED
  BY <1>2, <1>3, <1>4, <1>5 DEF Changed

(* The entries of a key's bucket, among those of the table.                  *)
LEMMA InBucket ==
    ASSUME NEW b, NEW n, Sound(b, n), NEW i \in 0..(n - 1), NEW e
    PROVE  In(b, n, e) /\ hmap_hash(e.key, n) = i <=> \E j \in 1..Len(b[i]) : b[i][j] = e
<1>1. ASSUME In(b, n, e), hmap_hash(e.key, n) = i
      PROVE  \E j \in 1..Len(b[i]) : b[i][j] = e
  <2>1. PICK k \in 0..(n - 1) : \E j \in 1..Len(b[k]) : b[k][j] = e
    BY <1>1 DEF In
  <2>2. k = i
    BY <1>1, <2>1 DEF Sound
  <2> QED
    BY <2>1, <2>2
<1>2. ASSUME \E j \in 1..Len(b[i]) : b[i][j] = e
      PROVE  In(b, n, e) /\ hmap_hash(e.key, n) = i
  BY <1>2 DEF In, Sound
<1> QED
  BY <1>1, <1>2

LEMMA InIsEntry ==
    ASSUME NEW b, NEW n, Sound(b, n), NEW e, In(b, n, e)
    PROVE  e \in EntryType /\ e.key \in Keys /\ hmap_hash(e.key, n) \in 0..(n - 1)
<1>1. PICK i \in 0..(n - 1) : \E j \in 1..Len(b[i]) : b[i][j] = e
  BY DEF In
<1>2. b[i] \in Seq(EntryType)
  BY DEF Sound
<1>3. e \in EntryType
  BY <1>1, <1>2, ElementOfSeq
<1>4. e.key \in Keys
  BY <1>3 DEF EntryType
<1> QED
  BY <1>3, <1>4, HashIn DEF Sound

(* An entry is put into its bucket.                                          *)
LEMMA InsertSound ==
    ASSUME NEW b, NEW n, Sound(b, n), NEW k \in Keys, NEW v \in Values,
           \A e : In(b, n, e) => e.key # k
    PROVE  LET new == [b EXCEPT ![hmap_hash(k, n)] = <<Entry(k, v)>> \o @]
           IN  /\ Sound(new, n)
               /\ \A e : In(new, n, e) <=> In(b, n, e) \/ e = Entry(k, v)
<1>0. PICK i : i = hmap_hash(k, n)
  OBVIOUS
<1>1. i \in 0..(n - 1)
  BY <1>0, HashIn DEF Sound
<1>2. b[i] \in Seq(EntryType) /\ b \in [0..(n - 1) -> Seq(EntryType)]
  BY <1>1 DEF Sound
<1>3. Entry(k, v) \in EntryType /\ Entry(k, v).key = k
  BY EntryIn
<1>4. PICK s : s = <<Entry(k, v)>> \o b[i]
  OBVIOUS
<1>5. /\ s \in Seq(EntryType) /\ Len(s) = Len(b[i]) + 1
      /\ \A j \in 1..(Len(b[i]) + 1) : s[j] = IF j = 1 THEN Entry(k, v) ELSE b[i][j - 1]
  BY <1>2, <1>3, <1>4, InFront
<1>6. \A j \in 1..Len(b[i]) : hmap_hash(b[i][j].key, n) = i /\ b[i][j].key # k
  <2>1. ASSUME NEW j \in 1..Len(b[i]) PROVE hmap_hash(b[i][j].key, n) = i /\ b[i][j].key # k
    BY <1>1 DEF Sound, In
  <2> QED
    BY <2>1
<1>7. \A j \in 1..Len(s) : hmap_hash(s[j].key, n) = i
  <2> SUFFICES ASSUME NEW j \in 1..Len(s) PROVE hmap_hash(s[j].key, n) = i
    OBVIOUS
  <2>1. CASE j = 1
    BY <1>0, <1>3, <1>5, <2>1
  <2>2. CASE j # 1
    <3>1. j - 1 \in 1..Len(b[i]) /\ s[j] = b[i][j - 1]
      BY <1>2, <1>5, <2>2
    <3> QED
      BY <1>6, <3>1
  <2> QED
    BY <2>1, <2>2
<1>8. \A j, l \in 1..Len(s) : s[j].key = s[l].key => j = l
  <2> SUFFICES ASSUME NEW j \in 1..Len(s), NEW l \in 1..Len(s), s[j].key = s[l].key PROVE j = l
    OBVIOUS
  <2>1. \A m \in 1..Len(s) : m # 1 => m - 1 \in 1..Len(b[i]) /\ s[m] = b[i][m - 1]
    BY <1>2, <1>5
  <2>2. s[1].key = k
    BY <1>3, <1>5, <1>2
  <2>3. \A m \in 1..Len(s) : m # 1 => s[m].key # k
    BY <1>6, <2>1
  <2>4. CASE j = 1 \/ l = 1
    BY <2>2, <2>3, <2>4
  <2>5. CASE j # 1 /\ l # 1
    <3>1. b[i][j - 1].key = b[i][l - 1].key
      BY <2>1, <2>5
    <3>2. j - 1 = l - 1
      BY <1>1, <2>1, <2>5, <3>1 DEF Sound
    <3> QED
      BY <3>2
  <2> QED
    BY <2>4, <2>5
<1>9. PICK new : new = [b EXCEPT ![i] = s]
  OBVIOUS
<1>10. /\ Sound(new, n)
       /\ \A e : In(new, n, e) <=>
             \/ \E q \in 1..Len(s) : s[q] = e
             \/ In(b, n, e) /\ hmap_hash(e.key, n) # i
  <2>1. /\ new \in [0..(n - 1) -> Seq(EntryType)] /\ new[i] = s
        /\ \A l \in 0..(n - 1) : l # i => new[l] = b[l]
    BY <1>1, <1>2, <1>5, <1>9
  <2>2. /\ \A j \in 1..Len(new[i]) : hmap_hash(new[i][j].key, n) = i
        /\ \A j, l \in 1..Len(new[i]) : new[i][j].key = new[i][l].key => j = l
    BY <1>7, <1>8, <2>1
  <2>3. /\ Sound(new, n)
        /\ \A e : In(new, n, e) <=>
             \/ \E q \in 1..Len(new[i]) : new[i][q] = e
             \/ In(b, n, e) /\ hmap_hash(e.key, n) # i
    <3>1. n \in Nat
      BY DEF Sound
    <3>2. /\ Sound(b, n) /\ i \in 0..(n - 1)
          /\ new \in [0..(n - 1) -> Seq(EntryType)]
          /\ \A l \in 0..(n - 1) : l # i => new[l] = b[l]
      BY <1>1, <2>1
    <3>3. Changed(b, new, n, i)
      BY <3>1, <3>2, <2>2, BucketChanged
    <3> QED
      BY <3>3 DEF Changed
  <2> QED
    BY <2>1, <2>3
<1>11. ASSUME NEW e PROVE (\E q \in 1..Len(s) : s[q] = e) <=>
                            e = Entry(k, v) \/ \E j \in 1..Len(b[i]) : b[i][j] = e
  <2>1. ASSUME NEW q \in 1..Len(s), s[q] = e
        PROVE  e = Entry(k, v) \/ \E j \in 1..Len(b[i]) : b[i][j] = e
    <3>1. q # 1 => q - 1 \in 1..Len(b[i])
      BY <1>2, <1>5
    <3> QED
      BY <1>5, <2>1, <3>1
  <2>2. ASSUME e = Entry(k, v) PROVE \E q \in 1..Len(s) : s[q] = e
    <3>1. 1 \in 1..Len(s) /\ s[1] = Entry(k, v)
      BY <1>2, <1>5
    <3> QED
      BY <2>2, <3>1
  <2>3. ASSUME NEW j \in 1..Len(b[i]), b[i][j] = e PROVE \E q \in 1..Len(s) : s[q] = e
    <3>1. j + 1 \in 1..Len(s) /\ s[j + 1] = b[i][(j + 1) - 1] /\ (j + 1) - 1 = j
      BY <1>2, <1>5
    <3> QED
      BY <2>3, <3>1
  <2> QED
    BY <2>1, <2>2, <2>3
<1>12. \A e : In(new, n, e) <=> In(b, n, e) \/ e = Entry(k, v)
  <2> SUFFICES ASSUME NEW e PROVE In(new, n, e) <=> In(b, n, e) \/ e = Entry(k, v)
    OBVIOUS
  <2>1. In(b, n, e) /\ hmap_hash(e.key, n) = i <=> \E j \in 1..Len(b[i]) : b[i][j] = e
    BY <1>1, InBucket
  <2> QED
    BY <1>10, <1>11, <2>1
<1>13. new = [b EXCEPT ![hmap_hash(k, n)] = <<Entry(k, v)>> \o @]
  BY <1>0, <1>2, <1>1, <1>4, <1>9
<1> QED
  BY <1>10, <1>12, <1>13

(* The entries of new are those of b, with v put in for k.                   *)
Replaced(b, new, n, k, v) ==
    /\ Sound(new, n)
    /\ \A e : In(new, n, e) <=> (In(b, n, e) /\ e.key # k) \/ e = Entry(k, v)

(* The value of an entry is replaced.                                        *)
LEMMA ReplaceSound ==
    ASSUME NEW b, NEW n, Sound(b, n), NEW i \in 0..(n - 1), NEW p \in 1..Len(b[i]),
           NEW v \in Values
    PROVE  Replaced(b, [b EXCEPT ![i][p].value = v], n, b[i][p].key, v)
<1>1. /\ b[i] \in Seq(EntryType) /\ b \in [0..(n - 1) -> Seq(EntryType)] /\ n \in Nat
      /\ Len(b[i]) \in Nat
  BY DEF Sound
<1>2. b[i][p] \in EntryType
  BY <1>1, ElementOfSeq
<1>3. PICK k \in Keys : k = b[i][p].key
  BY <1>2 DEF EntryType
<1>4. [b[i][p] EXCEPT !.value = v] = Entry(k, v)
  BY <1>2, <1>3 DEF EntryType, Entry
<1>5. Entry(k, v) \in EntryType /\ Entry(k, v).key = k
  BY EntryIn
<1>6. PICK s : s = [b[i] EXCEPT ![p] = Entry(k, v)]
  OBVIOUS
<1>7. /\ s \in Seq(EntryType) /\ Len(s) = Len(b[i]) /\ s[p] = Entry(k, v)
      /\ \A j \in 1..Len(b[i]) : j # p => s[j] = b[i][j]
  BY <1>1, <1>5, <1>6, ExceptSeq
<1>8. PICK new : new = [b EXCEPT ![i] = s]
  OBVIOUS
<1>9. new = [b EXCEPT ![i][p].value = v]
  BY <1>1, <1>4, <1>6, <1>8
<1>10. /\ new \in [0..(n - 1) -> Seq(EntryType)] /\ new[i] = s
       /\ \A l \in 0..(n - 1) : l # i => new[l] = b[l]
  BY <1>1, <1>7, <1>8
<1>11. \A j \in 1..Len(b[i]) : s[j].key = b[i][j].key
  <2> SUFFICES ASSUME NEW j \in 1..Len(b[i]) PROVE s[j].key = b[i][j].key
    OBVIOUS
  <2>1. CASE j = p
    BY <1>3, <1>5, <1>7, <2>1
  <2>2. CASE j # p
    BY <1>7, <2>2
  <2> QED
    BY <2>1, <2>2
<1>12. /\ \A j \in 1..Len(new[i]) : hmap_hash(new[i][j].key, n) = i
       /\ \A j, l \in 1..Len(new[i]) : new[i][j].key = new[i][l].key => j = l
  <2>1. /\ \A j \in 1..Len(b[i]) : hmap_hash(b[i][j].key, n) = i
        /\ \A j, l \in 1..Len(b[i]) : b[i][j].key = b[i][l].key => j = l
    BY DEF Sound
  <2> QED
    BY <1>7, <1>10, <1>11, <2>1
<1>13. Changed(b, new, n, i)
  BY <1>1, <1>10, <1>12, BucketChanged
<1>14. ASSUME NEW e PROVE In(new, n, e) <=> (In(b, n, e) /\ e.key # k) \/ e = Entry(k, v)
  <2>1. In(b, n, e) /\ hmap_hash(e.key, n) = i <=> \E j \in 1..Len(b[i]) : b[i][j] = e
    BY InBucket
  <2>2. In(new, n, e) <=> \/ \E q \in 1..Len(s) : s[q] = e
                          \/ In(b, n, e) /\ hmap_hash(e.key, n) # i
    BY <1>10, <1>13 DEF Changed
  <2>3. hmap_hash(k, n) = i
    BY <1>3 DEF Sound
  <2>4. ASSUME NEW q \in 1..Len(s), s[q] = e
        PROVE  (In(b, n, e) /\ e.key # k) \/ e = Entry(k, v)
    <3>1. CASE q = p
      BY <1>7, <2>4, <3>1
    <3>2. CASE q # p
      <4>1. q \in 1..Len(b[i]) /\ b[i][q] = e
        BY <1>7, <2>4, <3>2
      <4>2. e.key # k
        BY <1>3, <3>2, <4>1 DEF Sound
      <4> QED
        BY <2>1, <4>1, <4>2
    <3> QED
      BY <3>1, <3>2
  <2>5. ASSUME In(b, n, e), e.key # k, hmap_hash(e.key, n) = i
        PROVE  \E q \in 1..Len(s) : s[q] = e
    <3>1. PICK j \in 1..Len(b[i]) : b[i][j] = e
      BY <2>1, <2>5
    <3>2. j # p
      BY <1>3, <2>5, <3>1
    <3>3. s[j] = e /\ j \in 1..Len(s)
      BY <1>7, <3>1, <3>2
    <3> QED
      BY <3>3
  <2>6. e = Entry(k, v) => \E q \in 1..Len(s) : s[q] = e
    BY <1>7
  <2>7. hmap_hash(e.key, n) # i => e.key # k
    BY <2>3
  <2> QED
    BY <2>2, <2>4, <2>5, <2>6, <2>7
<1>15. Replaced(b, new, n, k, v)
  BY <1>13, <1>14 DEF Changed, Replaced
<1> QED
  BY <1>3, <1>9, <1>15

(* An entry is taken out of its bucket.                                      *)
LEMMA UnlinkSound ==
    ASSUME NEW b, NEW n, Sound(b, n), NEW i \in 0..(n - 1), NEW p \in 1..Len(b[i])
    PROVE  LET new == [b EXCEPT ![i] = RemoveAt(@, p)]
           IN  /\ Sound(new, n)
               /\ \A e : In(new, n, e) <=> In(b, n, e) /\ e.key # b[i][p].key
<1>1. /\ b[i] \in Seq(EntryType) /\ b \in [0..(n - 1) -> Seq(EntryType)] /\ n \in Nat
      /\ Len(b[i]) \in Nat
  BY DEF Sound
<1>2. PICK s : s = RemoveAt(b[i], p)
  OBVIOUS
<1>3. /\ s \in Seq(EntryType) /\ Len(s) = Len(b[i]) - 1
      /\ \A j \in 1..(Len(b[i]) - 1) : s[j] = IF j < p THEN b[i][j] ELSE b[i][j + 1]
  BY <1>1, <1>2, TakenOut
<1>4. PICK new : new = [b EXCEPT ![i] = s]
  OBVIOUS
<1>5. new = [b EXCEPT ![i] = RemoveAt(@, p)]
  BY <1>1, <1>2, <1>4
<1>6. /\ new \in [0..(n - 1) -> Seq(EntryType)] /\ new[i] = s
      /\ \A l \in 0..(n - 1) : l # i => new[l] = b[l]
  BY <1>1, <1>3, <1>4
<1>7. PICK from : from = [j \in 1..Len(s) |-> IF j < p THEN j ELSE j + 1]
  OBVIOUS
<1>8. /\ \A j \in 1..Len(s) : from[j] \in 1..Len(b[i]) /\ from[j] # p /\ s[j] = b[i][from[j]]
      /\ \A j, l \in 1..Len(s) : from[j] = from[l] => j = l
      /\ \A q \in 1..Len(b[i]) : q # p => \E j \in 1..Len(s) : from[j] = q
  <2>1. ASSUME NEW j \in 1..Len(s)
        PROVE  from[j] \in 1..Len(b[i]) /\ from[j] # p /\ s[j] = b[i][from[j]]
    <3>1. PICK m \in Nat : m = Len(b[i])
      BY <1>1
    <3>2. /\ j \in 1..(m - 1) /\ p \in 1..m
          /\ from[j] = IF j < p THEN j ELSE j + 1
          /\ s[j] = IF j < p THEN b[i][j] ELSE b[i][j + 1]
      BY <1>3, <1>7, <3>1
    <3>3. CASE j < p
      BY <3>1, <3>2, <3>3
    <3>4. CASE ~(j < p)
      <4>1. from[j] = j + 1 /\ s[j] = b[i][j + 1]
        BY <3>2, <3>4
      <4>2. j + 1 \in 1..m /\ j + 1 # p
        BY <3>1, <3>2, <3>4
      <4> QED
        BY <3>1, <4>1, <4>2
    <3> QED
      BY <3>3, <3>4
  <2>2. ASSUME NEW j \in 1..Len(s), NEW l \in 1..Len(s), from[j] = from[l] PROVE j = l
    BY <1>1, <1>3, <1>7, <2>2
  <2>3. ASSUME NEW q \in 1..Len(b[i]), q # p PROVE \E j \in 1..Len(s) : from[j] = q
    <3>1. CASE q < p
      <4>1. q \in 1..Len(s) /\ from[q] = q
        BY <1>1, <1>3, <1>7, <3>1
      <4> QED
        BY <4>1
    <3>2. CASE q > p
      <4>1. q - 1 \in 1..Len(s) /\ from[q - 1] = q
        BY <1>1, <1>3, <1>7, <3>2
      <4> QED
        BY <4>1
    <3> QED
      BY <2>3, <3>1, <3>2
  <2> QED
    BY <2>1, <2>2, <2>3
<1>9. /\ \A j \in 1..Len(b[i]) : hmap_hash(b[i][j].key, n) = i
      /\ \A j, l \in 1..Len(b[i]) : b[i][j].key = b[i][l].key => j = l
  BY DEF Sound
<1>10. \A j \in 1..Len(new[i]) : hmap_hash(new[i][j].key, n) = i
  BY <1>6, <1>8, <1>9
<1>11. \A j, l \in 1..Len(new[i]) : new[i][j].key = new[i][l].key => j = l
  <2> SUFFICES ASSUME NEW j \in 1..Len(s), NEW l \in 1..Len(s), s[j].key = s[l].key PROVE j = l
    BY <1>6
  <2>1. from[j] = from[l]
    <3>1. from[j] \in 1..Len(b[i]) /\ from[l] \in 1..Len(b[i])
      BY <1>8
    <3>2. s[j] = b[i][from[j]] /\ s[l] = b[i][from[l]]
      BY <1>8
    <3>3. b[i][from[j]].key = b[i][from[l]].key
      BY <3>2
    <3> QED
      BY <1>9, <3>1, <3>3
  <2> QED
    BY <1>8, <2>1
<1>12. Changed(b, new, n, i)
  BY <1>1, <1>6, <1>10, <1>11, BucketChanged
<1>13. ASSUME NEW e PROVE In(new, n, e) <=> In(b, n, e) /\ e.key # b[i][p].key
  <2>1. In(b, n, e) /\ hmap_hash(e.key, n) = i <=> \E j \in 1..Len(b[i]) : b[i][j] = e
    BY InBucket
  <2>2. In(new, n, e) <=> \/ \E q \in 1..Len(s) : s[q] = e
                          \/ In(b, n, e) /\ hmap_hash(e.key, n) # i
    BY <1>6, <1>12 DEF Changed
  <2>3. hmap_hash(b[i][p].key, n) = i
    BY <1>9
  <2>4. ASSUME NEW q \in 1..Len(s), s[q] = e
        PROVE  In(b, n, e) /\ e.key # b[i][p].key
    <3>1. from[q] \in 1..Len(b[i]) /\ from[q] # p /\ b[i][from[q]] = e
      BY <1>8, <2>4
    <3>2. e.key # b[i][p].key
      BY <1>9, <3>1
    <3> QED
      BY <2>1, <3>1, <3>2
  <2>5. ASSUME In(b, n, e), e.key # b[i][p].key, hmap_hash(e.key, n) = i
        PROVE  \E q \in 1..Len(s) : s[q] = e
    <3>1. PICK j \in 1..Len(b[i]) : b[i][j] = e
      BY <2>1, <2>5
    <3>2. j # p
      BY <2>5, <3>1
    <3>3. PICK q \in 1..Len(s) : from[q] = j
      BY <1>8, <3>2
    <3>4. s[q] = e
      BY <1>8, <3>1, <3>3
    <3> QED
      BY <3>4
  <2>6. hmap_hash(e.key, n) # i => e.key # b[i][p].key
    BY <2>3
  <2> QED
    BY <2>2, <2>4, <2>5, <2>6
<1> QED
  BY <1>5, <1>12, <1>13 DEF Changed

(* A table of no entries.                                                    *)
LEMMA EmptySound ==
    ASSUME NEW n \in Nat \ {0}
    PROVE  Sound(Empty(n), n) /\ \A e : ~In(Empty(n), n, e)
<1>1. \A i \in 0..(n - 1) : Empty(n)[i] = <<>>
  BY DEF Empty
<1>2. Empty(n) \in [0..(n - 1) -> Seq(EntryType)]
  BY DEF Empty
<1>3. Len(<<>>) = 0
  OBVIOUS
<1> QED
  BY <1>1, <1>2, <1>3 DEF Sound, In

-----------------------------------------------------------------------------
(* The entries of the buckets ss, one bucket after the other: what            *)
(* FlattenSeq gives.                                                         *)
IsFlat(f, ss) == f = [i \in 1..Len(ss) |-> IF i = 1 THEN ss[i] ELSE f[i - 1] \o ss[i]]

LEMMA FlatBegins ==
    ASSUME NEW S, NEW n \in Nat \ {0}, NEW ss \in [1..n -> Seq(S)]
    PROVE  \E f : IsFlat(f, ss)
<1> DEFINE P  == Seq(S)
           op == [a \in (1..n) \X P |-> a[2] \o ss[a[1]]]
<1>1. op \in [(1..n) \X P -> P]
  <2> SUFFICES ASSUME NEW a \in (1..n) \X P PROVE a[2] \o ss[a[1]] \in P
    OBVIOUS
  <2>1. a[2] \in Seq(S) /\ ss[a[1]] \in Seq(S)
    OBVIOUS
  <2> QED
    BY <2>1, ConcatProperties
<1>2. <<>> \in P
  OBVIOUS
<1>3. PICK g \in [0..n -> P] : RecursesUpto(g, n, <<>>, op)
  <2>1. n \in Nat
    OBVIOUS
  <2> HIDE DEF P, op
  <2> QED
    BY <1>1, <1>2, <2>1, RecursionUpto
<1> DEFINE f == [i \in 1..n |-> g[i]]
<1>4. \A k \in 1..n : g[k] = g[k - 1] \o ss[k]
  <2> SUFFICES ASSUME NEW k \in 1..n PROVE g[k] = g[k - 1] \o ss[k]
    OBVIOUS
  <2>1. <<k, g[k - 1]>> \in (1..n) \X P
    <3> HIDE DEF P
    <3>1. k - 1 \in 0..n
      OBVIOUS
    <3> QED
      BY <3>1
  <2> QED
    BY <1>3, <2>1 DEF RecursesUpto
<1>5. g[1] = ss[1]
  <2>1. g[1] = <<>> \o ss[1]
    <3>1. 1 \in 1..n /\ 1 - 1 = 0
      OBVIOUS
    <3>2. g[0] = <<>>
      BY <1>3 DEF RecursesUpto
    <3>3. g[1] = g[1 - 1] \o ss[1]
      BY <1>4, <3>1
    <3> QED
      BY <3>1, <3>2, <3>3
  <2>2. ss[1] \in Seq(S)
    OBVIOUS
  <2> QED
    BY <2>1, <2>2, ConcatEmptySeq
<1>6. ASSUME NEW i \in 1..n
      PROVE  f[i] = IF i = 1 THEN ss[i] ELSE f[i - 1] \o ss[i]
  <2>1. CASE i = 1
    BY <1>5, <2>1
  <2>2. CASE i # 1
    <3>1. i - 1 \in 1..n
      BY <2>2
    <3> QED
      BY <1>4, <2>2, <3>1
  <2> QED
    BY <2>1, <2>2
<1>7. Len(ss) = n
  OBVIOUS
<1>8. f = [i \in 1..Len(ss) |-> IF i = 1 THEN ss[i] ELSE f[i - 1] \o ss[i]]
  BY <1>6, <1>7
<1> QED
  <2> HIDE DEF f
  <2> QED
    BY <1>8 DEF IsFlat

LEMMA FlatIs ==
    ASSUME NEW S, NEW n \in Nat \ {0}, NEW ss \in [1..n -> Seq(S)]
    PROVE  \E f : IsFlat(f, ss) /\ FlattenSeq(ss) = f[n]
<1>1. Len(ss) = n
  OBVIOUS
<1> DEFINE flatten == CHOOSE f : IsFlat(f, ss)
<1>2. FlattenSeq(ss) = flatten[Len(ss)]
  BY <1>1 DEF FlattenSeq, IsFlat
<1>3. IsFlat(flatten, ss)
  BY FlatBegins
<1>4. IsFlat(flatten, ss) /\ FlattenSeq(ss) = flatten[n]
  BY <1>1, <1>2, <1>3
<1> HIDE DEF flatten
<1> QED
  BY <1>4

(* The first k buckets are in s: with each entry at one place.               *)
Gathered(b, n, k, s) ==
    /\ s \in Seq(EntryType)
    /\ \A p \in 1..Len(s) : In(b, n, s[p]) /\ hmap_hash(s[p].key, n) < k
    /\ \A p, q \in 1..Len(s) : s[p].key = s[q].key => p = q
    /\ \A e : In(b, n, e) /\ hmap_hash(e.key, n) < k => \E p \in 1..Len(s) : s[p] = e

LEMMA GatherOne ==
    ASSUME NEW b, NEW n, Sound(b, n), NEW k \in 0..(n - 1), NEW s, Gathered(b, n, k, s)
    PROVE  Gathered(b, n, k + 1, s \o b[k])
<1>0. n \in Nat /\ k \in Nat
  BY DEF Sound
<1>1. s \in Seq(EntryType) /\ b[k] \in Seq(EntryType) /\ Len(s) \in Nat /\ Len(b[k]) \in Nat
  BY DEF Sound, Gathered
<1>2. PICK t : t = s \o b[k]
  OBVIOUS
<1>3. /\ t \in Seq(EntryType) /\ Len(t) = Len(s) + Len(b[k])
      /\ \A p \in 1..(Len(s) + Len(b[k])) :
           t[p] = IF p <= Len(s) THEN s[p] ELSE b[k][p - Len(s)]
  BY <1>1, <1>2, ConcatProperties
<1>4. /\ \A p \in 1..Len(s) : p \in 1..Len(t) /\ t[p] = s[p]
      /\ \A j \in 1..Len(b[k]) : Len(s) + j \in 1..Len(t) /\ t[Len(s) + j] = b[k][j]
  <2>1. ASSUME NEW p \in 1..Len(s) PROVE p \in 1..Len(t) /\ t[p] = s[p]
    BY <1>1, <1>3
  <2>2. ASSUME NEW j \in 1..Len(b[k])
        PROVE  Len(s) + j \in 1..Len(t) /\ t[Len(s) + j] = b[k][j]
    <3>1. /\ Len(s) + j \in 1..(Len(s) + Len(b[k])) /\ ~(Len(s) + j <= Len(s))
          /\ (Len(s) + j) - Len(s) = j
      BY <1>1
    <3> QED
      BY <1>3, <3>1
  <2> QED
    BY <2>1, <2>2
<1>5. ASSUME NEW p \in 1..Len(t)
      PROVE  \/ p \in 1..Len(s) /\ t[p] = s[p]
             \/ \E j \in 1..Len(b[k]) : p = Len(s) + j /\ t[p] = b[k][j]
  <2>1. CASE p <= Len(s)
    BY <1>1, <1>3, <2>1
  <2>2. CASE ~(p <= Len(s))
    <3>1. p - Len(s) \in 1..Len(b[k]) /\ p = Len(s) + (p - Len(s))
      BY <1>1, <1>3, <2>2
    <3>2. t[p] = b[k][p - Len(s)]
      BY <1>3, <2>2
    <3> QED
      BY <3>1, <3>2
  <2> QED
    BY <2>1, <2>2
<1>6. \A j \in 1..Len(b[k]) : In(b, n, b[k][j]) /\ hmap_hash(b[k][j].key, n) = k
  <2> SUFFICES ASSUME NEW j \in 1..Len(b[k])
               PROVE  In(b, n, b[k][j]) /\ hmap_hash(b[k][j].key, n) = k
    OBVIOUS
  <2> QED
    BY DEF In, Sound
<1>7. \A p \in 1..Len(s) : In(b, n, s[p]) /\ hmap_hash(s[p].key, n) < k
  BY DEF Gathered
<1>8. ASSUME NEW e, In(b, n, e) PROVE hmap_hash(e.key, n) \in Int
  BY <1>0, <1>8, InIsEntry
<1>9. ASSUME NEW p \in 1..Len(t) PROVE In(b, n, t[p]) /\ hmap_hash(t[p].key, n) < k + 1
  <2>1. CASE p \in 1..Len(s) /\ t[p] = s[p]
    <3>1. In(b, n, s[p]) /\ hmap_hash(s[p].key, n) < k /\ hmap_hash(s[p].key, n) \in Int
      BY <1>7, <1>8, <2>1
    <3> QED
      BY <1>0, <2>1, <3>1
  <2>2. CASE \E j \in 1..Len(b[k]) : p = Len(s) + j /\ t[p] = b[k][j]
    BY <1>0, <1>6, <2>2
  <2> QED
    BY <1>5, <2>1, <2>2
<1>10. ASSUME NEW p \in 1..Len(t), NEW q \in 1..Len(t), t[p].key = t[q].key PROVE p = q
  <2>1. ASSUME NEW i \in 1..Len(s), NEW j \in 1..Len(b[k]) PROVE s[i].key # b[k][j].key
    <3>1. hmap_hash(s[i].key, n) < k /\ hmap_hash(b[k][j].key, n) = k
      BY <1>6, <1>7
    <3> QED
      BY <1>0, <3>1
  <2>2. \A i, j \in 1..Len(s) : s[i].key = s[j].key => i = j
    BY DEF Gathered
  <2>3. \A i, j \in 1..Len(b[k]) : b[k][i].key = b[k][j].key => i = j
    BY DEF Sound
  <2>4. CASE p \in 1..Len(s) /\ t[p] = s[p]
    <3>1. CASE q \in 1..Len(s) /\ t[q] = s[q]
      BY <1>10, <2>2, <2>4, <3>1
    <3>2. CASE \E j \in 1..Len(b[k]) : q = Len(s) + j /\ t[q] = b[k][j]
      BY <1>10, <2>1, <2>4, <3>2
    <3> QED
      BY <1>5, <3>1, <3>2
  <2>5. CASE \E j \in 1..Len(b[k]) : p = Len(s) + j /\ t[p] = b[k][j]
    <3>0. PICK j \in 1..Len(b[k]) : p = Len(s) + j /\ t[p] = b[k][j]
      BY <2>5
    <3>1. CASE q \in 1..Len(s) /\ t[q] = s[q]
      <4>1. s[q].key # b[k][j].key
        BY <2>1, <3>1
      <4> QED
        BY <1>10, <3>0, <3>1, <4>1
    <3>2. CASE \E i \in 1..Len(b[k]) : q = Len(s) + i /\ t[q] = b[k][i]
      <4>1. PICK i \in 1..Len(b[k]) : q = Len(s) + i /\ t[q] = b[k][i]
        BY <3>2
      <4>2. i = j
        BY <1>10, <2>3, <3>0, <4>1
      <4> QED
        BY <3>0, <4>1, <4>2
    <3> QED
      BY <1>5, <3>1, <3>2
  <2> QED
    BY <1>5, <2>4, <2>5
<1>11. ASSUME NEW e, In(b, n, e), hmap_hash(e.key, n) < k + 1
       PROVE  \E p \in 1..Len(t) : t[p] = e
  <2>1. hmap_hash(e.key, n) \in Int
    BY <1>8, <1>11
  <2>2. CASE hmap_hash(e.key, n) < k
    <3>1. PICK p \in 1..Len(s) : s[p] = e
      BY <1>11, <2>2 DEF Gathered
    <3> QED
      BY <1>4, <3>1
  <2>3. CASE hmap_hash(e.key, n) = k
    <3>1. PICK j \in 1..Len(b[k]) : b[k][j] = e
      BY <1>11, <2>3, InBucket
    <3> QED
      BY <1>4, <3>1
  <2> QED
    BY <1>0, <1>11, <2>1, <2>2, <2>3
<1>12. Gathered(b, n, k + 1, t)
  BY <1>3, <1>9, <1>10, <1>11 DEF Gathered
<1> QED
  BY <1>2, <1>12

(* What hmap_rehash goes through: every entry, once.                         *)
LEMMA AllGathered ==
    ASSUME NEW b, NEW n, Sound(b, n)
    PROVE  Gathered(b, n, n, FlattenSeq([i \in 1..n |-> b[i - 1]]))
<1> DEFINE ss == [i \in 1..n |-> b[i - 1]]
<1>0. n \in Nat \ {0} /\ n \in Nat
  BY DEF Sound
<1>1. ss \in [1..n -> Seq(EntryType)] /\ Len(ss) = n
  <2>1. ASSUME NEW i \in 1..n PROVE b[i - 1] \in Seq(EntryType)
    <3>1. i - 1 \in 0..(n - 1)
      BY <1>0
    <3> QED
      BY <3>1 DEF Sound
  <2> QED
    BY <1>0, <2>1
<1>2. PICK f : IsFlat(f, ss) /\ FlattenSeq(ss) = f[n]
  <2> HIDE DEF ss
  <2> QED
    BY <1>0, <1>1, FlatIs
<1>3. \A i \in 1..n : f[i] = IF i = 1 THEN b[0] ELSE f[i - 1] \o b[i - 1]
  <2>1. \A i \in 1..n : f[i] = IF i = 1 THEN ss[i] ELSE f[i - 1] \o ss[i]
    <3> HIDE DEF ss
    <3>1. f = [i \in 1..n |-> IF i = 1 THEN ss[i] ELSE f[i - 1] \o ss[i]]
      BY <1>1, <1>2 DEF IsFlat
    <3> QED
      BY <3>1
  <2>2. \A i \in 1..n : ss[i] = b[i - 1]
    OBVIOUS
  <2> HIDE DEF ss
  <2> QED
    BY <2>1, <2>2
<1>4. Gathered(b, n, 1, f[1])
  <2>1. Gathered(b, n, 0, <<>>)
    <3>1. ASSUME NEW e, In(b, n, e) PROVE ~(hmap_hash(e.key, n) < 0)
      <4>1. hmap_hash(e.key, n) \in 0..(n - 1)
        BY <3>1, InIsEntry
      <4> QED
        BY <1>0, <4>1
    <3>2. <<>> \in Seq(EntryType) /\ Len(<<>>) = 0
      OBVIOUS
    <3> QED
      BY <3>1, <3>2 DEF Gathered
  <2>2. 0 \in 0..(n - 1)
    BY <1>0
  <2>3. Gathered(b, n, 0 + 1, <<>> \o b[0])
    BY <2>1, <2>2, GatherOne
  <2>4. b[0] \in Seq(EntryType)
    BY <2>2 DEF Sound
  <2>5. f[1] = b[0]
    BY <1>0, <1>3
  <2> QED
    BY <2>3, <2>4, <2>5, ConcatEmptySeq
<1> DEFINE T == {i \in Nat : i + 1 <= n => Gathered(b, n, i + 1, f[i + 1])}
<1>5. T \in SUBSET Nat /\ 0 \in T
  BY <1>4
<1>6. ASSUME NEW i \in Nat, i \in T PROVE i + 1 \in T
  <2> SUFFICES ASSUME (i + 1) + 1 <= n PROVE Gathered(b, n, (i + 1) + 1, f[(i + 1) + 1])
    OBVIOUS
  <2>1. PICK k : k = i + 1
    OBVIOUS
  <2>2. k \in 0..(n - 1) /\ k + 1 \in 1..n /\ k + 1 # 1 /\ (k + 1) - 1 = k /\ k <= n
    BY <1>0, <2>1
  <2>3. Gathered(b, n, k, f[k])
    BY <1>6, <2>1, <2>2
  <2>4. f[k + 1] = f[k] \o b[k]
    <3>1. f[k + 1] = f[(k + 1) - 1] \o b[(k + 1) - 1]
      BY <1>3, <2>2
    <3> QED
      BY <2>2, <3>1
  <2>5. Gathered(b, n, k + 1, f[k] \o b[k])
    BY <2>2, <2>3, GatherOne
  <2> QED
    BY <2>1, <2>4, <2>5
<1>7. T = Nat
  <2> HIDE DEF T
  <2> QED
    BY <1>5, <1>6, SetInduction
<1>8. Gathered(b, n, n, f[n])
  <2>0. n - 1 \in Nat /\ (n - 1) + 1 = n
    BY <1>0
  <2>1. n - 1 \in T /\ (n - 1) + 1 = n
    <3> HIDE DEF T
    <3> QED
      BY <2>0, <1>7
  <2> QED
    BY <1>0, <2>1
<1> QED
  BY <1>2, <1>8

-----------------------------------------------------------------------------
(* An entry is put behind those of its bucket.                               *)
LEMMA AtEndSound ==
    ASSUME NEW b, NEW n, Sound(b, n), NEW x \in EntryType,
           \A e : In(b, n, e) => e.key # x.key
    PROVE  /\ Sound(AtEnd(b, x), n)
           /\ \A e : In(AtEnd(b, x), n, e) <=> In(b, n, e) \/ e = x
<1>0. n \in Nat \ {0} /\ b \in [0..(n - 1) -> Seq(EntryType)] /\ x.key \in Keys
  BY DEF Sound, EntryType
<1>1. Cardinality(DOMAIN b) = n
  BY <1>0, FS_Interval
<1>2. PICK i : i = hmap_hash(x.key, n)
  OBVIOUS
<1>3. i \in 0..(n - 1)
  BY <1>0, <1>2, HashIn
<1>4. b[i] \in Seq(EntryType) /\ Len(b[i]) \in Nat
  BY <1>0, <1>3
<1>5. PICK s : s = Append(b[i], x)
  OBVIOUS
<1>6. /\ s \in Seq(EntryType) /\ Len(s) = Len(b[i]) + 1
      /\ \A j \in 1..Len(b[i]) : s[j] = b[i][j]
      /\ s[Len(b[i]) + 1] = x
  BY <1>4, <1>5, AppendProperties
<1>7. PICK new : new = [b EXCEPT ![i] = s]
  OBVIOUS
<1>8. AtEnd(b, x) = new
  BY <1>0, <1>1, <1>2, <1>3, <1>5, <1>7 DEF AtEnd
<1>9. /\ new \in [0..(n - 1) -> Seq(EntryType)] /\ new[i] = s
      /\ \A l \in 0..(n - 1) : l # i => new[l] = b[l]
  BY <1>0, <1>3, <1>6, <1>7
<1>10. /\ \A j \in 1..Len(b[i]) : hmap_hash(b[i][j].key, n) = i
       /\ \A j, l \in 1..Len(b[i]) : b[i][j].key = b[i][l].key => j = l
  BY <1>3 DEF Sound
<1>11. \A j \in 1..Len(b[i]) : b[i][j].key # x.key
  <2> SUFFICES ASSUME NEW j \in 1..Len(b[i]) PROVE b[i][j].key # x.key
    OBVIOUS
  <2>1. In(b, n, b[i][j])
    BY <1>3 DEF In
  <2> QED
    BY <2>1
<1>12. \A j \in 1..Len(s) : j \in 1..Len(b[i]) \/ j = Len(b[i]) + 1
  BY <1>4, <1>6
<1>13. \A j \in 1..Len(new[i]) : hmap_hash(new[i][j].key, n) = i
  BY <1>2, <1>6, <1>9, <1>10, <1>12
<1>14. \A j, l \in 1..Len(new[i]) : new[i][j].key = new[i][l].key => j = l
  <2> SUFFICES ASSUME NEW j \in 1..Len(s), NEW l \in 1..Len(s), s[j].key = s[l].key PROVE j = l
    BY <1>9
  <2>1. CASE j \in 1..Len(b[i]) /\ l \in 1..Len(b[i])
    BY <1>6, <1>10, <2>1
  <2>2. CASE j \in 1..Len(b[i]) /\ l = Len(b[i]) + 1
    BY <1>6, <1>11, <2>2
  <2>3. CASE j = Len(b[i]) + 1 /\ l \in 1..Len(b[i])
    BY <1>6, <1>11, <2>3
  <2>4. CASE j = Len(b[i]) + 1 /\ l = Len(b[i]) + 1
    BY <2>4
  <2> QED
    BY <1>12, <2>1, <2>2, <2>3, <2>4
<1>15. Changed(b, new, n, i)
  <2>1. n \in Nat
    BY <1>0
  <2> QED
    BY <2>1, <1>3, <1>9, <1>13, <1>14, BucketChanged
<1>16. ASSUME NEW e PROVE In(new, n, e) <=> In(b, n, e) \/ e = x
  <2>1. In(b, n, e) /\ hmap_hash(e.key, n) = i <=> \E j \in 1..Len(b[i]) : b[i][j] = e
    BY <1>3, InBucket
  <2>2. In(new, n, e) <=> \/ \E q \in 1..Len(s) : s[q] = e
                          \/ In(b, n, e) /\ hmap_hash(e.key, n) # i
    BY <1>9, <1>15 DEF Changed
  <2>3. ASSUME NEW q \in 1..Len(s), s[q] = e
        PROVE  e = x \/ \E j \in 1..Len(b[i]) : b[i][j] = e
    BY <1>6, <1>12, <2>3
  <2>4. e = x => \E q \in 1..Len(s) : s[q] = e
    <3>1. Len(b[i]) + 1 \in 1..Len(s)
      BY <1>4, <1>6
    <3> QED
      BY <1>6, <3>1
  <2>5. ASSUME NEW j \in 1..Len(b[i]), b[i][j] = e PROVE \E q \in 1..Len(s) : s[q] = e
    <3>1. j \in 1..Len(s)
      BY <1>4, <1>6
    <3> QED
      BY <1>6, <2>5, <3>1
  <2> QED
    BY <2>1, <2>2, <2>3, <2>4, <2>5
<1> QED
  BY <1>8, <1>15, <1>16 DEF Changed

(* The entries are moved to m buckets, one after the other.                  *)
IsMoved(f, entries, m) ==
    f = [k \in 0..Len(entries) |-> IF k = 0 THEN Empty(m) ELSE AtEnd(f[k - 1], entries[k])]

LEMMA MoveBegins ==
    ASSUME NEW m \in Nat \ {0}, NEW entries \in Seq(EntryType)
    PROVE  \E f : IsMoved(f, entries, m)
<1> DEFINE P  == [0..(m - 1) -> Seq(EntryType)]
           n  == Len(entries)
           op == [a \in (1..n) \X P |-> AtEnd(a[2], entries[a[1]])]
<1>0. n \in Nat
  OBVIOUS
<1>1. op \in [(1..n) \X P -> P]
  <2> SUFFICES ASSUME NEW a \in (1..n) \X P PROVE AtEnd(a[2], entries[a[1]]) \in P
    OBVIOUS
  <2>1. PICK t : t = a[2]
    OBVIOUS
  <2>2. PICK e : e = entries[a[1]]
    OBVIOUS
  <2>3. t \in P /\ e \in EntryType
    <3>1. a[1] \in 1..n /\ a[2] \in P
      <4> HIDE DEF P, n
      <4> QED
        OBVIOUS
    <3> QED
      BY <2>1, <2>2, <3>1, ElementOfSeq
  <2>4. Cardinality(DOMAIN t) = m
    BY <2>3, FS_Interval
  <2>5. PICK i : i = hmap_hash(e.key, m)
    OBVIOUS
  <2>6. i \in 0..(m - 1)
    <3>1. e.key \in Keys
      BY <2>3 DEF EntryType
    <3> QED
      BY <2>5, <3>1, HashIn
  <2>7. t[i] \in Seq(EntryType)
    BY <2>3, <2>6
  <2>8. Append(t[i], e) \in Seq(EntryType)
    BY <2>3, <2>7, AppendProperties
  <2>9. AtEnd(t, e) = [t EXCEPT ![i] = Append(t[i], e)]
    BY <2>3, <2>4, <2>5, <2>6 DEF AtEnd
  <2>10. AtEnd(t, e) \in P
    BY <2>3, <2>6, <2>8, <2>9
  <2> QED
    BY <2>1, <2>2, <2>10
<1>2. Empty(m) \in P
  BY DEF Empty
<1>3. PICK g \in [0..n -> P] : RecursesUpto(g, n, Empty(m), op)
  <2> HIDE DEF P, op, n
  <2> QED
    BY <1>0, <1>1, <1>2, RecursionUpto
<1>4. ASSUME NEW k \in 1..n PROVE g[k] = AtEnd(g[k - 1], entries[k])
  <2>1. <<k, g[k - 1]>> \in (1..n) \X P
    <3> HIDE DEF P, n
    <3>1. k - 1 \in 0..n
      BY <1>0
    <3> QED
      BY <3>1
  <2>2. g[k] = op[<<k, g[k - 1]>>]
    <3> HIDE DEF P, op, n
    <3> QED
      BY <1>3 DEF RecursesUpto
  <2> QED
    <3> HIDE DEF P, n
    <3> QED
      BY <2>1, <2>2
<1>5. g[0] = Empty(m)
  <2> HIDE DEF P, op, n
  <2> QED
    BY <1>3 DEF RecursesUpto
<1>6. \A k \in 0..n : g[k] = IF k = 0 THEN Empty(m) ELSE AtEnd(g[k - 1], entries[k])
  <2> SUFFICES ASSUME NEW k \in 0..n
               PROVE  g[k] = IF k = 0 THEN Empty(m) ELSE AtEnd(g[k - 1], entries[k])
    OBVIOUS
  <2>1. k # 0 => k \in 1..n
    BY <1>0
  <2> HIDE DEF P, op, n
  <2> QED
    BY <1>4, <1>5, <2>1
<1>7. g = [k \in 0..n |-> g[k]]
  <2> HIDE DEF P, op, n
  <2> QED
    OBVIOUS
<1>8. IsMoved(g, entries, m)
  <2>1. g = [k \in 0..n |-> IF k = 0 THEN Empty(m) ELSE AtEnd(g[k - 1], entries[k])]
    <3> HIDE DEF P, op, n
    <3> QED
      BY <1>6, <1>7
  <2> QED
    BY <2>1 DEF IsMoved
<1> QED
  BY <1>8

LEMMA MoveIs ==
    ASSUME NEW m \in Nat \ {0}, NEW entries \in Seq(EntryType)
    PROVE  \E f : IsMoved(f, entries, m) /\ Rehashed(entries, m) = f[Len(entries)]
<1> DEFINE moved == CHOOSE f : IsMoved(f, entries, m)
<1>1. Rehashed(entries, m) = moved[Len(entries)]
  BY DEF Rehashed, IsMoved
<1>2. IsMoved(moved, entries, m)
  BY MoveBegins
<1> QED
  BY <1>1, <1>2

(* What is in the new buckets are the entries that were moved.               *)
LEMMA RehashedSound ==
    ASSUME NEW m \in Nat \ {0}, NEW entries \in Seq(EntryType),
           \A p, q \in 1..Len(entries) : entries[p].key = entries[q].key => p = q
    PROVE  /\ Sound(Rehashed(entries, m), m)
           /\ \A e : In(Rehashed(entries, m), m, e) <=> \E p \in 1..Len(entries) : entries[p] = e
<1>0. PICK n \in Nat : n = Len(entries)
  OBVIOUS
<1>1. PICK f : IsMoved(f, entries, m) /\ Rehashed(entries, m) = f[n]
  BY <1>0, MoveIs
<1>2. f[0] = Empty(m) /\ \A k \in 1..n : f[k] = AtEnd(f[k - 1], entries[k])
  <2>1. \A k \in 0..n : f[k] = IF k = 0 THEN Empty(m) ELSE AtEnd(f[k - 1], entries[k])
    BY <1>0, <1>1 DEF IsMoved
  <2>2. 0 \in 0..n /\ \A k \in 1..n : k \in 0..n /\ k # 0
    OBVIOUS
  <2> QED
    BY <2>1, <2>2
<1> DEFINE Good(k) == /\ Sound(f[k], m)
                      /\ \A e : In(f[k], m, e) <=> \E p \in 1..k : entries[p] = e
           T == {k \in Nat : k <= n => Good(k)}
<1>3. 0 \in T
  <2>1. Sound(Empty(m), m) /\ \A e : ~In(Empty(m), m, e)
    BY EmptySound
  <2> QED
    BY <1>2, <2>1
<1>4. ASSUME NEW k \in Nat, k \in T PROVE k + 1 \in T
  <2> SUFFICES ASSUME k + 1 <= n PROVE Good(k + 1)
    OBVIOUS
  <2>1. k <= n /\ k + 1 \in 1..n /\ (k + 1) - 1 = k
    OBVIOUS
  <2>2. Good(k)
    BY <1>4, <2>1
  <2>3. PICK x : x = entries[k + 1]
    OBVIOUS
  <2>4. x \in EntryType
    BY <1>0, <2>1, <2>3, ElementOfSeq
  <2>5. \A e : In(f[k], m, e) => e.key # x.key
    <3> SUFFICES ASSUME NEW e, In(f[k], m, e), e.key = x.key PROVE FALSE
      OBVIOUS
    <3>1. PICK p \in 1..k : entries[p] = e
      BY <2>2
    <3>2. p \in 1..Len(entries) /\ k + 1 \in 1..Len(entries) /\ p # k + 1
      BY <1>0, <2>1
    <3> QED
      BY <2>3, <3>1, <3>2
  <2>6. f[k + 1] = AtEnd(f[k], x)
    BY <1>2, <2>1, <2>3
  <2>7. /\ Sound(AtEnd(f[k], x), m)
        /\ \A e : In(AtEnd(f[k], x), m, e) <=> In(f[k], m, e) \/ e = x
    BY <2>2, <2>4, <2>5, AtEndSound
  <2>8. \A e : In(f[k + 1], m, e) <=> \E p \in 1..(k + 1) : entries[p] = e
    <3> SUFFICES ASSUME NEW e
                 PROVE  In(f[k + 1], m, e) <=> \E p \in 1..(k + 1) : entries[p] = e
      OBVIOUS
    <3>1. (\E p \in 1..(k + 1) : entries[p] = e) <=> (\E p \in 1..k : entries[p] = e) \/ e = x
      <4>1. \A p \in 1..(k + 1) : p \in 1..k \/ p = k + 1
        OBVIOUS
      <4>2. k + 1 \in 1..(k + 1) /\ \A p \in 1..k : p \in 1..(k + 1)
        OBVIOUS
      <4> QED
        BY <2>3, <4>1, <4>2
    <3>2. In(f[k], m, e) <=> \E p \in 1..k : entries[p] = e
      BY <2>2
    <3> QED
      BY <2>6, <2>7, <3>1, <3>2
  <2> QED
    BY <2>6, <2>7, <2>8
<1>5. T = Nat
  <2>1. T \in SUBSET Nat
    OBVIOUS
  <2> HIDE DEF T
  <2> QED
    BY <1>3, <1>4, <2>1, SetInduction
<1>6. Good(n)
  <2>1. n \in T
    <3> HIDE DEF T
    <3> QED
      BY <1>5
  <2> QED
    BY <2>1
<1> QED
  BY <1>0, <1>1, <1>6

-----------------------------------------------------------------------------
(* Sets of entries, and the table they make.                                 *)
Keyed(E)  == {e.key : e \in E}
Single(E) == E \subseteq EntryType /\ \A e, f \in E : e.key = f.key => e = f
MapOf(E)  == [k \in Keyed(E) |-> (CHOOSE e \in E : e.key = k).value]

(* E is the set of entries D with v put in for k, and with k taken out.      *)
WithPut(D, E, k, v) == \A e : e \in E <=> (e \in D /\ e.key # k) \/ e = Entry(k, v)
Without(D, E, k)    == \A e : e \in E <=> e \in D /\ e.key # k

LEMMA EntriesSingle ==
    ASSUME NEW b, NEW n, Sound(b, n)
    PROVE  Single(EntrySet(b, n))
<1>1. ASSUME NEW e, NEW f, In(b, n, e), In(b, n, f), e.key = f.key PROVE e = f
  <2>1. PICK i \in 0..(n - 1) : \E p \in 1..Len(b[i]) : b[i][p] = e
    BY <1>1 DEF In
  <2>2. PICK p \in 1..Len(b[i]) : b[i][p] = e
    BY <2>1
  <2>3. PICK j \in 0..(n - 1) : \E q \in 1..Len(b[j]) : b[j][q] = f
    BY <1>1 DEF In
  <2>4. PICK q \in 1..Len(b[j]) : b[j][q] = f
    BY <2>3
  <2>5. i = j
    BY <1>1, <2>2, <2>4 DEF Sound
  <2> QED
    BY <1>1, <2>2, <2>4, <2>5 DEF Sound
<1> QED
  BY <1>1 DEF Single, EntrySet

(* What that does to the table they make, and to its keys.                   *)
MadeByPut(D, E, k, v) ==
    /\ Single(E) /\ Keyed(E) = Keyed(D) \cup {k}
    /\ MapOf(E) = [j \in DOMAIN MapOf(D) \cup {k} |-> IF j = k THEN v ELSE MapOf(D)[j]]

MadeWithout(D, E, k) ==
    /\ Single(E) /\ Keyed(E) = Keyed(D) \ {k}
    /\ MapOf(E) = [j \in DOMAIN MapOf(D) \ {k} |-> MapOf(D)[j]]

LEMMA MapHolds ==
    ASSUME NEW E, Single(E), NEW e \in E
    PROVE  e.key \in DOMAIN MapOf(E) /\ MapOf(E)[e.key] = e.value
<1>1. e.key \in Keyed(E)
  BY DEF Keyed
<1>2. (CHOOSE f \in E : f.key = e.key) = e
  BY DEF Single
<1> QED
  BY <1>1, <1>2 DEF MapOf

LEMMA MapPut ==
    ASSUME NEW D, NEW E, Single(D), NEW k \in Keys, NEW v \in Values, WithPut(D, E, k, v)
    PROVE  MadeByPut(D, E, k, v)
<1>0. Entry(k, v) \in EntryType /\ Entry(k, v).key = k /\ Entry(k, v).value = v
  BY EntryIn
<1>1. Single(E)
  BY <1>0 DEF Single, WithPut
<1>2. Keyed(E) = Keyed(D) \cup {k}
  <2>1. ASSUME NEW e \in E PROVE e.key \in Keyed(D) \cup {k}
    BY <1>0 DEF Keyed, WithPut
  <2>2. ASSUME NEW e \in D PROVE e.key \in Keyed(E)
    <3>1. CASE e.key = k
      <4>1. Entry(k, v) \in E
        BY DEF WithPut
      <4> QED
        BY <1>0, <3>1, <4>1 DEF Keyed
    <3>2. CASE e.key # k
      <4>1. e \in E
        BY <3>2 DEF WithPut
      <4> QED
        BY <4>1 DEF Keyed
    <3> QED
      BY <3>1, <3>2
  <2>3. k \in Keyed(E)
    <3>1. Entry(k, v) \in E
      BY DEF WithPut
    <3> QED
      BY <1>0, <3>1 DEF Keyed
  <2> QED
    BY <2>1, <2>2, <2>3 DEF Keyed
<1>3. DOMAIN MapOf(E) = Keyed(E) /\ DOMAIN MapOf(D) = Keyed(D)
  BY DEF MapOf
<1>4. ASSUME NEW j \in Keyed(E) PROVE MapOf(E)[j] = IF j = k THEN v ELSE MapOf(D)[j]
  <2>1. CASE j = k
    <3>1. Entry(k, v) \in E
      BY DEF WithPut
    <3> QED
      BY <1>0, <1>1, <2>1, <3>1, MapHolds
  <2>2. CASE j # k
    <3>1. PICK e \in E : e.key = j
      BY DEF Keyed
    <3>2. e \in D
      BY <1>0, <2>2, <3>1 DEF WithPut
    <3>3. MapOf(E)[j] = e.value /\ MapOf(D)[j] = e.value
      BY <1>1, <3>1, <3>2, MapHolds
    <3> QED
      BY <2>2, <3>3
  <2> QED
    BY <2>1, <2>2
<1>5. MapOf(E) = [j \in Keyed(E) |-> MapOf(E)[j]]
  BY DEF MapOf
<1>6. MapOf(E) = [j \in Keyed(E) |-> IF j = k THEN v ELSE MapOf(D)[j]]
  BY <1>4, <1>5
<1> QED
  BY <1>1, <1>2, <1>3, <1>6 DEF MadeByPut

LEMMA MapWithout ==
    ASSUME NEW D, NEW E, Single(D), NEW k, Without(D, E, k)
    PROVE  MadeWithout(D, E, k)
<1>1. Single(E)
  BY DEF Single, Without
<1>2. Keyed(E) = Keyed(D) \ {k}
  <2>1. ASSUME NEW e \in E PROVE e.key \in Keyed(D) \ {k}
    BY DEF Keyed, Without
  <2>2. ASSUME NEW e \in D, e.key # k PROVE e.key \in Keyed(E)
    BY <2>2 DEF Keyed, Without
  <2> QED
    BY <2>1, <2>2 DEF Keyed
<1>3. DOMAIN MapOf(E) = Keyed(E) /\ DOMAIN MapOf(D) = Keyed(D)
  BY DEF MapOf
<1>4. ASSUME NEW j \in Keyed(E) PROVE MapOf(E)[j] = MapOf(D)[j]
  <2>1. PICK e \in E : e.key = j
    BY DEF Keyed
  <2>2. e \in D
    BY DEF Without
  <2> QED
    BY <1>1, <2>1, <2>2, MapHolds
<1>5. MapOf(E) = [j \in Keyed(E) |-> MapOf(E)[j]]
  BY DEF MapOf
<1>6. MapOf(E) = [j \in Keyed(E) |-> MapOf(D)[j]]
  BY <1>4, <1>5
<1> QED
  BY <1>1, <1>2, <1>3, <1>6 DEF MadeWithout

-----------------------------------------------------------------------------
(* The state of the table, and how far a walk is: "next" are the last        *)
(* entries of bucket c.                                                      *)
Ends(s, t) ==
    /\ s \in Seq(EntryType) /\ Len(s) <= Len(t)
    /\ \A i \in 1..Len(s) : s[i] = t[(Len(t) - Len(s)) + i]

TableIs(b, n, t, s) ==
    /\ Sound(b, n)
    /\ t = Threshold(n)
    /\ IsFiniteSet(Keyed(EntrySet(b, n)))
    /\ s = Cardinality(Keyed(EntrySet(b, n))) /\ s <= t

WalkIs(b, n, w, cc, nx) ==
    \/ w = "no" /\ cc = 0 /\ nx = <<>>
    \/ w \in {"value", "key"} /\ cc \in 0..(n - 1) /\ Ends(nx, b[cc])
    \/ w = "iterator" /\ cc = n /\ nx = <<>>
    \/ w = "iterator" /\ cc \in 0..(n - 1) /\ Ends(nx, b[cc]) /\ nx # <<>>

IInv ==
    /\ TableIs(buckets, buckets_length, threshold, size)
    /\ WalkIs(buckets, buckets_length, walking, c, next)

LEMMA LengthIs ==
    ASSUME NEW b, NEW n, Sound(b, n)
    PROVE  Cardinality(DOMAIN b) = n /\ DOMAIN b = 0..(n - 1)
<1>1. n \in Nat \ {0} /\ DOMAIN b = 0..(n - 1)
  BY DEF Sound
<1>2. Cardinality(0..(n - 1)) = n
  BY <1>1, FS_Interval
<1> QED
  BY <1>1, <1>2

(* The set of entries of the module is that of the proofs.                   *)
LEMMA EntriesAre ==
    ASSUME NEW b, NEW n, Sound(b, n)
    PROVE  UNION {Range(b[i]) : i \in DOMAIN b} = EntrySet(b, n)
<1>1. DOMAIN b = 0..(n - 1)
  BY LengthIs
<1>2. ASSUME NEW i \in 0..(n - 1) PROVE Range(b[i]) = {b[i][j] : j \in 1..Len(b[i])}
  <2>1. b[i] \in Seq(EntryType)
    BY DEF Sound
  <2>2. DOMAIN b[i] = 1..Len(b[i])
    BY <2>1, LenProperties
  <2> QED
    BY <2>2 DEF Range
<1>3. ASSUME NEW e \in EntrySet(b, n) PROVE e \in UNION {Range(b[i]) : i \in DOMAIN b}
  <2>1. PICK i \in 0..(n - 1) : \E j \in 1..Len(b[i]) : b[i][j] = e
    BY DEF EntrySet, In
  <2>2. e \in Range(b[i])
    BY <1>2, <2>1
  <2> QED
    BY <1>1, <2>2
<1>4. ASSUME NEW e \in UNION {Range(b[i]) : i \in DOMAIN b} PROVE e \in EntrySet(b, n)
  <2>1. PICK i \in 0..(n - 1) : e \in Range(b[i])
    BY <1>1
  <2>2. PICK j \in 1..Len(b[i]) : b[i][j] = e
    BY <1>2, <2>1
  <2>3. In(b, n, e)
    BY <2>2 DEF In
  <2> QED
    BY <2>3, InIsEntry DEF EntrySet
<1> QED
  BY <1>3, <1>4

-----------------------------------------------------------------------------
(* What the calls do to the buckets, and to the set of their entries.        *)
LEMMA PutOver ==
    ASSUME NEW b, NEW n, NEW t, NEW s, TableIs(b, n, t, s), NEW k \in Keys, NEW v \in Values,
           NEW h \in 0..(n - 1), NEW p \in 1..Len(b[h]), b[h][p].key = k
    PROVE  /\ TableIs([b EXCEPT ![h][p].value = v], n, t, s)
           /\ MadeByPut(EntrySet(b, n), EntrySet([b EXCEPT ![h][p].value = v], n), k, v)
           /\ k \in DOMAIN MapOf(EntrySet(b, n)) /\ MapOf(EntrySet(b, n))[k] = b[h][p].value
<1>0. PICK new : new = [b EXCEPT ![h][p].value = v]
  OBVIOUS
<1>1. Sound(b, n)
  BY DEF TableIs
<1>2. /\ Sound(new, n)
      /\ \A e : In(new, n, e) <=> (In(b, n, e) /\ e.key # k) \/ e = Entry(k, v)
  <2>1. Replaced(b, new, n, k, v)
    BY <1>0, <1>1, ReplaceSound
  <2> QED
    BY <2>1 DEF Replaced
<1>3. WithPut(EntrySet(b, n), EntrySet(new, n), k, v)
  BY <1>2, EntryIn DEF WithPut, EntrySet
<1>4. b[h][p] \in EntrySet(b, n)
  <2>1. In(b, n, b[h][p])
    BY DEF In
  <2> QED
    BY <1>1, <2>1, InIsEntry DEF EntrySet
<1>5. k \in DOMAIN MapOf(EntrySet(b, n)) /\ MapOf(EntrySet(b, n))[k] = b[h][p].value
  BY <1>1, <1>4, EntriesSingle, MapHolds
<1>6. MadeByPut(EntrySet(b, n), EntrySet(new, n), k, v)
  <2>1. Single(EntrySet(b, n))
    BY <1>1, EntriesSingle
  <2> QED
    BY <1>3, <2>1, MapPut
<1>7. Keyed(EntrySet(new, n)) = Keyed(EntrySet(b, n))
  <2>1. k \in Keyed(EntrySet(b, n))
    BY <1>4 DEF Keyed
  <2> QED
    BY <1>6, <2>1 DEF MadeByPut
<1>8. TableIs(new, n, t, s)
  BY <1>2, <1>7 DEF TableIs
<1> QED
  BY <1>0, <1>5, <1>6, <1>8

LEMMA PutNew ==
    ASSUME NEW b, NEW n, NEW t, NEW s, TableIs(b, n, t, s), NEW k \in Keys, NEW v \in Values,
           \A e : In(b, n, e) => e.key # k
    PROVE  /\ Sound(Insert(b, k, v), n)
           /\ MadeByPut(EntrySet(b, n), EntrySet(Insert(b, k, v), n), k, v)
           /\ s + 1 <= t => TableIs(Insert(b, k, v), n, t, s + 1)
           /\ k \notin DOMAIN MapOf(EntrySet(b, n))
<1>0. PICK new : new = Insert(b, k, v)
  OBVIOUS
<1>1. Sound(b, n)
  BY DEF TableIs
<1>2. new = [b EXCEPT ![hmap_hash(k, n)] = <<Entry(k, v)>> \o @]
  BY <1>0, <1>1, LengthIs DEF Insert
<1>3. /\ Sound(new, n)
      /\ \A e : In(new, n, e) <=> In(b, n, e) \/ e = Entry(k, v)
  BY <1>1, <1>2, InsertSound
<1>4. WithPut(EntrySet(b, n), EntrySet(new, n), k, v)
  BY <1>3, EntryIn DEF WithPut, EntrySet
<1>5. k \notin Keyed(EntrySet(b, n))
  BY DEF Keyed, EntrySet
<1>6. k \notin DOMAIN MapOf(EntrySet(b, n))
  BY <1>5 DEF MapOf
<1>7. MadeByPut(EntrySet(b, n), EntrySet(new, n), k, v)
  <2>1. Single(EntrySet(b, n))
    BY <1>1, EntriesSingle
  <2> QED
    BY <1>4, <2>1, MapPut
<1>8. ASSUME s + 1 <= t PROVE TableIs(new, n, t, s + 1)
  <2>0. Keyed(EntrySet(new, n)) = Keyed(EntrySet(b, n)) \cup {k}
    BY <1>7 DEF MadeByPut
  <2>1. IsFiniteSet(Keyed(EntrySet(b, n))) /\ s = Cardinality(Keyed(EntrySet(b, n)))
    BY DEF TableIs
  <2>2. /\ IsFiniteSet(Keyed(EntrySet(new, n)))
        /\ Cardinality(Keyed(EntrySet(new, n))) = s + 1
    BY <1>5, <2>0, <2>1, FS_AddElement
  <2> QED
    BY <1>3, <1>8, <2>2 DEF TableIs
<1> QED
  BY <1>0, <1>3, <1>6, <1>7, <1>8

(* The table grows, with its entries.                                        *)
LEMMA Grown ==
    ASSUME NEW b, NEW n, NEW t, NEW s, TableIs(b, n, t, s),
           NEW new, new = Rehashed(FlattenSeq([i \in 1..n |-> b[i - 1]]), 2 * n + 1)
    PROVE  /\ TableIs(new, 2 * n + 1, Threshold(2 * n + 1), s)
           /\ EntrySet(new, 2 * n + 1) = EntrySet(b, n)
           /\ s + 1 <= Threshold(2 * n + 1)
<1>0. Sound(b, n) /\ n \in Nat \ {0}
  BY DEF TableIs, Sound
<1>1. PICK entries : entries = FlattenSeq([i \in 1..n |-> b[i - 1]])
  OBVIOUS
<1>2. Gathered(b, n, n, entries)
  BY <1>0, <1>1, AllGathered
<1>3. PICK m : m = 2 * n + 1
  OBVIOUS
<1>4. m \in Nat \ {0}
  BY <1>0, <1>3
<1>5. new = Rehashed(entries, m)
  BY <1>1, <1>3
<1>6. /\ Sound(new, m)
      /\ \A e : In(new, m, e) <=> \E p \in 1..Len(entries) : entries[p] = e
  <2>1. /\ entries \in Seq(EntryType)
        /\ \A p, q \in 1..Len(entries) : entries[p].key = entries[q].key => p = q
    BY <1>2 DEF Gathered
  <2>2. /\ Sound(Rehashed(entries, m), m)
        /\ \A e : In(Rehashed(entries, m), m, e) <=> \E p \in 1..Len(entries) : entries[p] = e
    BY <1>4, <2>1, RehashedSound
  <2> QED
    BY <1>5, <2>2
<1>7. \A e : In(new, m, e) <=> In(b, n, e)
  <2> SUFFICES ASSUME NEW e PROVE In(new, m, e) <=> In(b, n, e)
    OBVIOUS
  <2>1. In(b, n, e) => \E p \in 1..Len(entries) : entries[p] = e
    <3> SUFFICES ASSUME In(b, n, e) PROVE \E p \in 1..Len(entries) : entries[p] = e
      OBVIOUS
    <3>1. hmap_hash(e.key, n) \in 0..(n - 1)
      BY <1>0, InIsEntry
    <3>2. hmap_hash(e.key, n) < n
      BY <1>0, <3>1
    <3> QED
      BY <1>2, <3>2 DEF Gathered
  <2>2. (\E p \in 1..Len(entries) : entries[p] = e) => In(b, n, e)
    BY <1>2 DEF Gathered
  <2> QED
    BY <1>6, <2>1, <2>2
<1>8. EntrySet(new, m) = EntrySet(b, n)
  BY <1>7 DEF EntrySet
<1>9. s \in Nat /\ s <= Threshold(n)
  BY FS_CardinalityType DEF TableIs
<1>10. s + 1 <= Threshold(m)
  <2>1. (n * 3) \div 4 + 1 <= ((2 * n + 1) * 3) \div 4
    BY <1>0
  <2>2. (n * 3) \div 4 \in Int /\ ((2 * n + 1) * 3) \div 4 \in Int
    BY <1>0
  <2> QED
    BY <1>3, <1>9, <2>1, <2>2 DEF Threshold
<1>11. s <= Threshold(m)
  <2>1. Threshold(m) \in Int
    BY <1>4 DEF Threshold
  <2> QED
    BY <1>9, <1>10, <2>1
<1>12. TableIs(new, m, Threshold(m), s)
  BY <1>6, <1>8, <1>11 DEF TableIs
<1> QED
  BY <1>3, <1>8, <1>10, <1>12

LEMMA Unlinked ==
    ASSUME NEW b, NEW n, NEW t, NEW s, TableIs(b, n, t, s), NEW h \in 0..(n - 1),
           NEW p \in 1..Len(b[h])
    PROVE  /\ TableIs([b EXCEPT ![h] = RemoveAt(@, p)], n, t, s - 1)
           /\ Without(EntrySet(b, n), EntrySet([b EXCEPT ![h] = RemoveAt(@, p)], n), b[h][p].key)
           /\ MadeWithout(EntrySet(b, n), EntrySet([b EXCEPT ![h] = RemoveAt(@, p)], n), b[h][p].key)
           /\ b[h][p].key \in DOMAIN MapOf(EntrySet(b, n))
           /\ MapOf(EntrySet(b, n))[b[h][p].key] = b[h][p].value
<1>0. PICK new : new = [b EXCEPT ![h] = RemoveAt(@, p)]
  OBVIOUS
<1>1. Sound(b, n)
  BY DEF TableIs
<1>2. PICK k : k = b[h][p].key
  OBVIOUS
<1>3. /\ Sound(new, n)
      /\ \A e : In(new, n, e) <=> In(b, n, e) /\ e.key # k
  BY <1>0, <1>1, <1>2, UnlinkSound
<1>4. Without(EntrySet(b, n), EntrySet(new, n), k)
  BY <1>3 DEF Without, EntrySet
<1>5. b[h][p] \in EntrySet(b, n)
  <2>1. In(b, n, b[h][p])
    BY DEF In
  <2> QED
    BY <1>1, <2>1, InIsEntry DEF EntrySet
<1>6. k \in DOMAIN MapOf(EntrySet(b, n)) /\ MapOf(EntrySet(b, n))[k] = b[h][p].value
  BY <1>1, <1>2, <1>5, EntriesSingle, MapHolds
<1>7. MadeWithout(EntrySet(b, n), EntrySet(new, n), k)
  <2>1. Single(EntrySet(b, n))
    BY <1>1, EntriesSingle
  <2> QED
    BY <1>4, <2>1, MapWithout
<1>8. k \in Keyed(EntrySet(b, n))
  BY <1>2, <1>5 DEF Keyed
<1>9. /\ IsFiniteSet(Keyed(EntrySet(new, n)))
      /\ Cardinality(Keyed(EntrySet(new, n))) = s - 1
  <2>0. Keyed(EntrySet(new, n)) = Keyed(EntrySet(b, n)) \ {k}
    BY <1>7 DEF MadeWithout
  <2>1. IsFiniteSet(Keyed(EntrySet(b, n))) /\ s = Cardinality(Keyed(EntrySet(b, n)))
    BY DEF TableIs
  <2> QED
    BY <1>8, <2>0, <2>1, FS_RemoveElement
<1>10. s - 1 <= t
  <2>1. s \in Nat /\ s <= t /\ t = Threshold(n)
    BY FS_CardinalityType DEF TableIs
  <2>2. Threshold(n) \in Int
    BY <1>1 DEF Threshold, Sound
  <2> QED
    BY <2>1, <2>2
<1>11. TableIs(new, n, t, s - 1)
  BY <1>3, <1>9, <1>10 DEF TableIs
<1> QED
  BY <1>0, <1>2, <1>4, <1>6, <1>7, <1>11

LEMMA EmptyTable ==
    ASSUME NEW n \in Nat \ {0}
    PROVE  /\ TableIs(Empty(n), n, Threshold(n), 0)
           /\ EntrySet(Empty(n), n) = {}
<1>1. Sound(Empty(n), n) /\ EntrySet(Empty(n), n) = {}
  BY EmptySound DEF EntrySet
<1>2. Keyed({}) = {}
  BY DEF Keyed
<1>3. 0 <= Threshold(n)
  BY DEF Threshold
<1> QED
  BY <1>1, <1>2, <1>3, FS_EmptySet DEF TableIs

-----------------------------------------------------------------------------
(* What the table holds, and what a walk has not come to.                    *)
LeftIn(b, n, cc, nx, e) ==
    \/ \E j \in 1..Len(nx) : nx[j] = e
    \/ \E i \in (cc + 1)..(n - 1) : \E j \in 1..Len(b[i]) : b[i][j] = e

Left(b, n, cc, nx)      == {e \in EntryType : LeftIn(b, n, cc, nx, e)}
WalkOf(b, n, w, cc, nx) == IF w = "no" THEN NULL ELSE Keyed(Left(b, n, cc, nx))

Held    == MapOf(EntrySet(buckets, buckets_length))
WalkNow == WalkOf(buckets, buckets_length, walking, c, next)

LEMMA AheadIs ==
    ASSUME NEW b, NEW n, NEW w, NEW cc, NEW nx, Sound(b, n), WalkIs(b, n, w, cc, nx)
    PROVE  {e.key : e \in Range(nx) \cup UNION {Range(b[i]) : i \in (cc + 1)..(n - 1)}}
             = Keyed(Left(b, n, cc, nx))
<1>0. n \in Nat \ {0} /\ cc \in Nat
  BY DEF Sound, WalkIs
<1>1. nx \in Seq(EntryType)
  <2>1. <<>> \in Seq(EntryType)
    OBVIOUS
  <2> QED
    BY <2>1 DEF WalkIs, Ends
<1>2. Range(nx) = {nx[j] : j \in 1..Len(nx)}
  <2>1. DOMAIN nx = 1..Len(nx)
    BY <1>1, LenProperties
  <2> QED
    BY <2>1 DEF Range
<1>3. ASSUME NEW i \in (cc + 1)..(n - 1)
      PROVE  b[i] \in Seq(EntryType) /\ Range(b[i]) = {b[i][j] : j \in 1..Len(b[i])}
  <2>1. i \in 0..(n - 1)
    BY <1>0
  <2>2. b[i] \in Seq(EntryType)
    BY <2>1 DEF Sound
  <2>3. DOMAIN b[i] = 1..Len(b[i])
    BY <2>2, LenProperties
  <2> QED
    BY <2>2, <2>3 DEF Range
<1>4. ASSUME NEW e \in Left(b, n, cc, nx)
      PROVE  e \in Range(nx) \cup UNION {Range(b[i]) : i \in (cc + 1)..(n - 1)}
  <2>1. CASE \E j \in 1..Len(nx) : nx[j] = e
    BY <1>2, <2>1
  <2>2. CASE \E i \in (cc + 1)..(n - 1) : \E j \in 1..Len(b[i]) : b[i][j] = e
    <3>1. PICK i \in (cc + 1)..(n - 1) : \E j \in 1..Len(b[i]) : b[i][j] = e
      BY <2>2
    <3>2. e \in Range(b[i])
      BY <1>3, <3>1
    <3> QED
      BY <3>2
  <2> QED
    BY <2>1, <2>2 DEF Left, LeftIn
<1>5. ASSUME NEW e \in Range(nx) \cup UNION {Range(b[i]) : i \in (cc + 1)..(n - 1)}
      PROVE  e \in Left(b, n, cc, nx)
  <2>1. CASE e \in Range(nx)
    <3>1. PICK j \in 1..Len(nx) : nx[j] = e
      BY <1>2, <2>1
    <3>2. e \in EntryType
      BY <1>1, <3>1, ElementOfSeq
    <3> QED
      BY <3>1, <3>2 DEF Left, LeftIn
  <2>2. CASE e \in UNION {Range(b[i]) : i \in (cc + 1)..(n - 1)}
    <3>1. PICK i \in (cc + 1)..(n - 1) : e \in Range(b[i])
      BY <2>2
    <3>2. PICK j \in 1..Len(b[i]) : b[i][j] = e
      BY <1>3, <3>1
    <3>3. e \in EntryType
      BY <1>3, <3>2, ElementOfSeq
    <3> QED
      BY <3>2, <3>3 DEF Left, LeftIn
  <2> QED
    BY <1>5, <2>1, <2>2
<1> QED
  BY <1>4, <1>5 DEF Keyed

(* The table and the walk that the state stands for.                         *)
Contents == [k \in KeysHeld |-> (CHOOSE e \in Entries : e.key = k).value]
ToCome   == IF walking = "no" THEN NULL ELSE Ahead
Seen     == Contents = Held /\ ToCome = WalkNow

LEMMA SeenNow == IInv => Seen
<1> SUFFICES ASSUME IInv PROVE Seen
  OBVIOUS
<1>1. Sound(buckets, buckets_length) /\ WalkIs(buckets, buckets_length, walking, c, next)
  BY DEF IInv, TableIs
<1>2. Entries = EntrySet(buckets, buckets_length)
  BY <1>1, EntriesAre DEF Entries
<1>3. Contents = Held
  BY <1>2 DEF Contents, Held, MapOf, Keyed, KeysHeld
<1>4. Ahead = Keyed(Left(buckets, buckets_length, c, next))
  BY <1>1, AheadIs DEF Ahead
<1> QED
  BY <1>3, <1>4 DEF Seen, ToCome, WalkNow, WalkOf

LEMMA SeenNext == IInv' => Seen'
BY SeenNow, PTL

-----------------------------------------------------------------------------
(* When a call has left the table as TableIs says.                           *)
LEMMA LengthNext ==
    ASSUME NEW n, NEW t, NEW s, TableIs(buckets', n, t, s)
    PROVE  buckets_length' = n
BY LengthIs DEF TableIs, buckets_length

LEMMA AtRest ==
    ASSUME NEW n, TableIs(buckets', n, threshold', size'), IInv, Idle
    PROVE  IInv' /\ Held' = MapOf(EntrySet(buckets', n)) /\ WalkNow = NULL /\ WalkNow' = NULL
<1>1. buckets_length' = n
  BY LengthNext
<1>2. walking = "no" /\ walking' = "no" /\ c' = c /\ next' = next
  BY DEF Idle
<1>3. c = 0 /\ next = <<>>
  BY <1>2 DEF IInv, WalkIs
<1>4. WalkIs(buckets', n, walking', c', next')
  BY <1>2, <1>3 DEF WalkIs
<1>5. IInv'
  BY <1>1, <1>4 DEF IInv
<1> QED
  BY <1>1, <1>2, <1>5 DEF Held, WalkNow, WalkOf

(* Where a key is looked for now, and what is found.                         *)
LEMMA Found ==
    ASSUME IInv, NEW k \in Keys
    PROVE  LET h == hmap_hash(k, buckets_length)
           IN  /\ h \in 0..(buckets_length - 1) /\ Bucket(k) = buckets[h]
               /\ Find(k) # 0 =>
                    /\ Find(k) \in 1..Len(buckets[h]) /\ buckets[h][Find(k)].key = k
                    /\ k \in DOMAIN Held /\ Held[k] = buckets[h][Find(k)].value
               /\ Find(k) = 0 =>
                    /\ \A e : In(buckets, buckets_length, e) => e.key # k
                    /\ k \notin DOMAIN Held
<1> DEFINE h == hmap_hash(k, buckets_length)
<1>1. Sound(buckets, buckets_length) /\ buckets_length \in Nat \ {0}
  BY DEF IInv, TableIs, Sound
<1>2. h \in 0..(buckets_length - 1)
  BY <1>1, HashIn
<1>3. Bucket(k) = buckets[h] /\ Find(k) = Spot(buckets[h], k)
  BY DEF Bucket, Find, Spot
<1>4. buckets[h] \in Seq(EntryType)
  BY <1>1, <1>2 DEF Sound
<1>5. \/ Spot(buckets[h], k) = 0 /\ \A j \in 1..Len(buckets[h]) : buckets[h][j].key # k
      \/ Spot(buckets[h], k) \in 1..Len(buckets[h]) /\ buckets[h][Spot(buckets[h], k)].key = k
  BY <1>4, Spotted
<1>6. ASSUME Find(k) = 0, NEW e, In(buckets, buckets_length, e), e.key = k PROVE FALSE
  <2>1. PICK i \in 0..(buckets_length - 1) : \E j \in 1..Len(buckets[i]) : buckets[i][j] = e
    BY <1>6 DEF In
  <2>2. PICK j \in 1..Len(buckets[i]) : buckets[i][j] = e
    BY <2>1
  <2>3. buckets[i][j].key # k
    <3>1. Spot(buckets[h], k) = 0
      BY <1>3, <1>6
    <3>2. Spot(buckets[hmap_hash(k, buckets_length)], k) = 0
      BY <3>1
    <3> HIDE DEF h
    <3>3. \A n : Sound(buckets, n) /\ n = buckets_length => buckets[i][j].key # k
      BY <3>2, NotSpotted
    <3> QED
      BY <1>1, <3>3
  <2> QED
    BY <1>6, <2>2, <2>3
<1>7. ASSUME Find(k) = 0 PROVE k \notin DOMAIN Held
  BY <1>6, <1>7 DEF Held, MapOf, Keyed, EntrySet
<1>8. ASSUME Find(k) # 0
      PROVE  /\ Find(k) \in 1..Len(buckets[h]) /\ buckets[h][Find(k)].key = k
             /\ k \in DOMAIN Held /\ Held[k] = buckets[h][Find(k)].value
  <2>1. Find(k) \in 1..Len(buckets[h]) /\ buckets[h][Find(k)].key = k
    BY <1>3, <1>5, <1>8
  <2>2. PICK e : e = buckets[h][Find(k)]
    OBVIOUS
  <2>3. e \in EntrySet(buckets, buckets_length)
    <3>1. In(buckets, buckets_length, e)
      BY <1>2, <2>1, <2>2 DEF In
    <3> QED
      BY <1>1, <3>1, InIsEntry DEF EntrySet
  <2>4. Single(EntrySet(buckets, buckets_length))
    BY <1>1, EntriesSingle
  <2>5. e.key \in DOMAIN Held /\ Held[e.key] = e.value
    BY <2>3, <2>4, MapHolds DEF Held
  <2> QED
    BY <2>1, <2>2, <2>5
<1> QED
  BY <1>2, <1>3, <1>6, <1>7, <1>8

LEMMA PutCall ==
    ASSUME IInv, NEW k \in Keys, NEW v \in Values, hmap_put(k, v)
    PROVE  IInv' /\ Map!Put(k, v)
<1> DEFINE n == buckets_length
           h == hmap_hash(k, n)
<1>1. TableIs(buckets, n, threshold, size) /\ Idle
  BY DEF IInv, hmap_put
<1>2. \E m : /\ TableIs(buckets', m, threshold', size')
             /\ MadeByPut(EntrySet(buckets, n), EntrySet(buckets', m), k, v)
             /\ result' = IF k \in DOMAIN Held THEN Held[k] ELSE NULL
  <2>1. CASE Find(k) # 0
    <3>1. /\ buckets' = [buckets EXCEPT ![h][Find(k)].value = v]
          /\ result' = Bucket(k)[Find(k)].value
          /\ threshold' = threshold /\ size' = size
      BY <2>1 DEF hmap_put
    <3>2. /\ h \in 0..(n - 1) /\ Find(k) \in 1..Len(buckets[h]) /\ buckets[h][Find(k)].key = k
          /\ k \in DOMAIN Held /\ Held[k] = buckets[h][Find(k)].value /\ Bucket(k) = buckets[h]
      BY <2>1, Found
    <3> HIDE DEF n, h
    <3>3. /\ TableIs([buckets EXCEPT ![h][Find(k)].value = v], n, threshold, size)
          /\ MadeByPut(EntrySet(buckets, n),
                       EntrySet([buckets EXCEPT ![h][Find(k)].value = v], n), k, v)
      BY <1>1, <3>2, PutOver
    <3> QED
      BY <3>1, <3>2, <3>3
  <2>2. CASE Find(k) = 0 /\ ~(size + 1 > threshold)
    <3>1. /\ buckets' = Insert(buckets, k, v) /\ size' = size + 1
          /\ result' = NULL /\ threshold' = threshold
      BY <2>2 DEF hmap_put
    <3>2. (\A e : In(buckets, n, e) => e.key # k) /\ k \notin DOMAIN Held
      BY <2>2, Found
    <3>3. size + 1 <= threshold
      <4>1. size \in Nat /\ threshold \in Int
        BY <1>1, FS_CardinalityType DEF TableIs, Sound, Threshold
      <4> QED
        BY <2>2, <4>1
    <3> HIDE DEF n, h
    <3>4. /\ TableIs(Insert(buckets, k, v), n, threshold, size + 1)
          /\ MadeByPut(EntrySet(buckets, n), EntrySet(Insert(buckets, k, v), n), k, v)
      BY <1>1, <3>2, <3>3, PutNew
    <3> QED
      BY <3>1, <3>2, <3>4
  <2>3. CASE Find(k) = 0 /\ size + 1 > threshold
    <3>0. PICK grown : grown = Rehashed(FlattenSeq([i \in 1..n |-> buckets[i - 1]]), 2 * n + 1)
      OBVIOUS
    <3>1. /\ buckets' = Insert(grown, k, v) /\ size' = size + 1
          /\ result' = NULL /\ threshold' = Threshold(2 * n + 1)
      BY <2>3, <3>0 DEF hmap_put, hmap_rehash, OldEntries
    <3>2. (\A e : In(buckets, n, e) => e.key # k) /\ k \notin DOMAIN Held
      BY <2>3, Found
    <3> HIDE DEF n, h
    <3>3. /\ TableIs(grown, 2 * n + 1, Threshold(2 * n + 1), size)
          /\ EntrySet(grown, 2 * n + 1) = EntrySet(buckets, n)
          /\ size + 1 <= Threshold(2 * n + 1)
      BY <1>1, <3>0, Grown
    <3>4. PICK m : m = 2 * n + 1
      OBVIOUS
    <3>5. \A e : In(grown, m, e) => e.key # k
      <4> SUFFICES ASSUME NEW e, In(grown, m, e) PROVE e.key # k
        OBVIOUS
      <4>1. e \in EntrySet(grown, m)
        BY <3>3, <3>4, InIsEntry DEF TableIs, EntrySet
      <4>2. In(buckets, n, e)
        BY <3>3, <3>4, <4>1 DEF EntrySet
      <4> QED
        BY <3>2, <4>2
    <3>6. TableIs(grown, m, Threshold(m), size) /\ size + 1 <= Threshold(m)
      BY <3>3, <3>4
    <3>7. /\ TableIs(Insert(grown, k, v), m, Threshold(m), size + 1)
          /\ MadeByPut(EntrySet(grown, m), EntrySet(Insert(grown, k, v), m), k, v)
      BY <3>5, <3>6, PutNew
    <3> QED
      BY <3>1, <3>2, <3>3, <3>4, <3>7
  <2> QED
    BY <2>1, <2>2, <2>3
<1>3. PICK m : /\ TableIs(buckets', m, threshold', size')
               /\ MadeByPut(EntrySet(buckets, n), EntrySet(buckets', m), k, v)
               /\ result' = IF k \in DOMAIN Held THEN Held[k] ELSE NULL
  BY <1>2
<1>4. IInv' /\ Held' = MapOf(EntrySet(buckets', m)) /\ WalkNow = NULL /\ WalkNow' = NULL
  BY <1>1, <1>3, AtRest
<1>5. Held' = [j \in DOMAIN Held \cup {k} |-> IF j = k THEN v ELSE Held[j]]
  BY <1>3, <1>4 DEF MadeByPut, Held
<1>6. Seen /\ Seen'
  BY <1>4, SeenNow, SeenNext
<1>7. Map!Put(k, v)
  BY <1>3, <1>4, <1>5, <1>6 DEF Map!Put, Map!Value, Seen, Contents, ToCome
<1> QED
  BY <1>4, <1>7

-----------------------------------------------------------------------------
LEMMA UnlinkCall ==
    ASSUME IInv, NEW k \in Keys, Unlink(k), threshold' = threshold
    PROVE  /\ TableIs(buckets', buckets_length, threshold', size')
           /\ Without(EntrySet(buckets, buckets_length), EntrySet(buckets', buckets_length), k)
           /\ MadeWithout(EntrySet(buckets, buckets_length), EntrySet(buckets', buckets_length), k)
<1> DEFINE n == buckets_length
           h == hmap_hash(k, n)
<1>1. TableIs(buckets, n, threshold, size) /\ Sound(buckets, n)
  BY DEF IInv, TableIs
<1>2. /\ TableIs(buckets', n, threshold', size')
      /\ Without(EntrySet(buckets, n), EntrySet(buckets', n), k)
  <2>1. CASE Find(k) = 0
    <3>1. buckets' = buckets /\ size' = size
      BY <2>1 DEF Unlink
    <3>2. \A e : In(buckets, n, e) => e.key # k
      BY <2>1, Found
    <3> HIDE DEF n
    <3>3. Without(EntrySet(buckets, n), EntrySet(buckets, n), k)
      BY <3>2 DEF Without, EntrySet
    <3> QED
      BY <1>1, <3>1, <3>3
  <2>2. CASE Find(k) # 0
    <3>1. buckets' = [buckets EXCEPT ![h] = RemoveAt(@, Find(k))] /\ size' = size - 1
      BY <2>2 DEF Unlink
    <3>2. h \in 0..(n - 1) /\ Find(k) \in 1..Len(buckets[h]) /\ buckets[h][Find(k)].key = k
      BY <2>2, Found
    <3> HIDE DEF n, h
    <3>3. PICK new : new = [buckets EXCEPT ![h] = RemoveAt(@, Find(k))]
      OBVIOUS
    <3>4. /\ TableIs(new, n, threshold, size - 1)
          /\ Without(EntrySet(buckets, n), EntrySet(new, n), buckets[h][Find(k)].key)
      BY <1>1, <3>2, <3>3, Unlinked
    <3> QED
      BY <3>1, <3>2, <3>3, <3>4
  <2> QED
    BY <2>1, <2>2
<1>3. MadeWithout(EntrySet(buckets, n), EntrySet(buckets', n), k)
  <2>1. Single(EntrySet(buckets, n))
    BY <1>1, EntriesSingle
  <2> HIDE DEF n, h
  <2> QED
    BY <1>2, <2>1, MapWithout
<1> QED
  BY <1>2, <1>3

LEMMA RemoveCall ==
    ASSUME IInv, NEW k \in Keys, hmap_remove(k)
    PROVE  IInv' /\ Map!Remove(k)
<1>1. Idle /\ Unlink(k) /\ threshold' = threshold
  BY DEF hmap_remove
<1>2. /\ TableIs(buckets', buckets_length, threshold', size')
      /\ MadeWithout(EntrySet(buckets, buckets_length), EntrySet(buckets', buckets_length), k)
  BY <1>1, UnlinkCall
<1>3. PICK n : n = buckets_length
  OBVIOUS
<1>4. /\ IInv' /\ Held' = MapOf(EntrySet(buckets', n))
      /\ WalkNow = NULL /\ WalkNow' = NULL
  BY <1>1, <1>2, <1>3, AtRest
<1>5. Held' = [j \in DOMAIN Held \ {k} |-> Held[j]]
  BY <1>2, <1>3, <1>4 DEF MadeWithout, Held
<1>6. result' = IF k \in DOMAIN Held THEN Held[k] ELSE NULL
  BY Found DEF hmap_remove
<1>7. Seen /\ Seen'
  BY <1>4, SeenNow, SeenNext
<1>8. Map!Remove(k)
  BY <1>4, <1>5, <1>6, <1>7 DEF Map!Remove, Map!Value, Map!Restrict, Seen, Contents, ToCome
<1> QED
  BY <1>4, <1>8

LEMMA ClearCall ==
    ASSUME IInv, hmap_clear
    PROVE  IInv' /\ Map!Clear
<1>1. PICK n : n = buckets_length
  OBVIOUS
<1>2. n \in Nat \ {0} /\ threshold = Threshold(n)
  BY <1>1 DEF IInv, TableIs, Sound
<1>3. /\ Idle /\ buckets' = Empty(n) /\ size' = 0 /\ result' = NULL
      /\ threshold' = Threshold(n)
  BY <1>1, <1>2 DEF hmap_clear
<1>4. TableIs(buckets', n, threshold', size') /\ EntrySet(buckets', n) = {}
  BY <1>2, <1>3, EmptyTable
<1>5. /\ IInv' /\ Held' = MapOf(EntrySet(buckets', n))
      /\ WalkNow = NULL /\ WalkNow' = NULL
  BY <1>3, <1>4, AtRest
<1>6. Held' = <<>>
  <2>1. MapOf({}) = [k \in {} |-> k]
    BY DEF MapOf, Keyed
  <2>2. <<>> = [k \in {} |-> k]
    OBVIOUS
  <2> QED
    BY <1>4, <1>5, <2>1, <2>2
<1>7. Seen /\ Seen'
  BY <1>5, SeenNow, SeenNext
<1> QED
  BY <1>3, <1>5, <1>6, <1>7 DEF Map!Clear, Seen, Contents, ToCome

-----------------------------------------------------------------------------
(* The calls that only look.                                                 *)
LEMMA Unchanged ==
    ASSUME IInv, UNCHANGED <<buckets, threshold, size, c, next, walking>>
    PROVE  IInv' /\ Seen /\ Seen' /\ Held' = Held /\ WalkNow' = WalkNow
<1>1. buckets_length' = buckets_length
  BY DEF buckets_length
<1>2. IInv'
  BY <1>1 DEF IInv
<1>3. Held' = Held /\ WalkNow' = WalkNow
  BY <1>1 DEF Held, WalkNow
<1> QED
  BY <1>2, <1>3, SeenNow, SeenNext

LEMMA SameSize ==
    ASSUME NEW S
    PROVE  Map!Cardinality(S) = Cardinality(S)
BY DEF Map!Cardinality, Cardinality

LEMMA LookCall ==
    ASSUME IInv
    PROVE  /\ \A k \in Keys :
                /\ hmap_get(k) => IInv' /\ Map!Get(k)
                /\ hmap_contains_key(k) => IInv' /\ Map!Contains(k)
           /\ hmap_size => IInv' /\ Map!Size
<1>1. ASSUME NEW k \in Keys, hmap_get(k) PROVE IInv' /\ Map!Get(k)
  <2>1. IInv' /\ Seen /\ Seen' /\ Held' = Held /\ WalkNow' = WalkNow
    BY <1>1, Unchanged DEF hmap_get
  <2>2. result' = IF k \in DOMAIN Held THEN Held[k] ELSE NULL
    BY <1>1, Found DEF hmap_get
  <2> QED
    BY <2>1, <2>2 DEF Map!Get, Map!Value, Seen, Contents, ToCome
<1>2. ASSUME NEW k \in Keys, hmap_contains_key(k) PROVE IInv' /\ Map!Contains(k)
  <2>1. IInv' /\ Seen /\ Seen' /\ Held' = Held /\ WalkNow' = WalkNow
    BY <1>2, Unchanged DEF hmap_contains_key
  <2>2. result' = IF k \in DOMAIN Held THEN 1 ELSE 0
    BY <1>2, Found DEF hmap_contains_key
  <2> QED
    BY <2>1, <2>2 DEF Map!Contains, Seen, Contents, ToCome
<1>3. ASSUME hmap_size PROVE IInv' /\ Map!Size
  <2>1. IInv' /\ Seen /\ Seen' /\ Held' = Held /\ WalkNow' = WalkNow
    BY <1>3, Unchanged DEF hmap_size
  <2>2. size = Cardinality(DOMAIN Held)
    BY DEF IInv, TableIs, Held, MapOf
  <2>3. result' = size
    BY <1>3 DEF hmap_size
  <2> QED
    BY <2>1, <2>2, <2>3, SameSize DEF Map!Size, Seen, Contents, ToCome
<1> QED
  BY <1>1, <1>2, <1>3

-----------------------------------------------------------------------------
(* A walk begins with every entry before it.                                 *)
LEMMA LeftAll ==
    ASSUME NEW b, NEW n, Sound(b, n), NEW e
    PROVE  (\E i \in 0..(n - 1) : \E j \in 1..Len(b[i]) : b[i][j] = e) <=> LeftIn(b, n, 0, b[0], e)
<1>0. n \in Nat \ {0}
  BY DEF Sound
<1>1. \A i \in 0..(n - 1) : i = 0 \/ i \in (0 + 1)..(n - 1)
  BY <1>0
<1>2. 0 \in 0..(n - 1) /\ \A i \in (0 + 1)..(n - 1) : i \in 0..(n - 1)
  BY <1>0
<1> QED
  BY <1>1, <1>2 DEF LeftIn

(* The entry a walk is at.                                                   *)
LEMMA HeadAt ==
    ASSUME NEW b, NEW n, Sound(b, n), NEW cc \in 0..(n - 1), NEW nx, Ends(nx, b[cc]), nx # <<>>
    PROVE  /\ (Len(b[cc]) - Len(nx)) + 1 \in 1..Len(b[cc])
           /\ b[cc][(Len(b[cc]) - Len(nx)) + 1] = Head(nx)
           /\ Head(nx) = nx[1] /\ Head(nx) \in EntryType /\ Head(nx).key \in Keys
           /\ hmap_hash(Head(nx).key, n) = cc
           /\ Tail(nx) \in Seq(EntryType) /\ Len(Tail(nx)) = Len(nx) - 1
           /\ \A j \in 1..(Len(nx) - 1) : Tail(nx)[j] = nx[j + 1]
           /\ Len(nx) \in Nat \ {0} /\ Len(b[cc]) \in Nat /\ Len(nx) <= Len(b[cc])
<1>1. b[cc] \in Seq(EntryType) /\ nx \in Seq(EntryType) /\ Len(nx) <= Len(b[cc])
  BY DEF Sound, Ends
<1>2. Len(nx) \in Nat \ {0} /\ Len(b[cc]) \in Nat
  BY <1>1, EmptySeq
<1>3. (Len(b[cc]) - Len(nx)) + 1 \in 1..Len(b[cc])
  BY <1>1, <1>2
<1>4. Head(nx) = nx[1] /\ 1 \in 1..Len(nx)
  BY <1>1, <1>2
<1>5. nx[1] = b[cc][(Len(b[cc]) - Len(nx)) + 1]
  BY <1>4 DEF Ends
<1>6. Head(nx) \in EntryType
  BY <1>1, <1>4, ElementOfSeq
<1>7. Head(nx).key \in Keys
  BY <1>6 DEF EntryType
<1>8. hmap_hash(Head(nx).key, n) = cc
  BY <1>3, <1>4, <1>5 DEF Sound
<1>9. /\ Tail(nx) \in Seq(EntryType) /\ Len(Tail(nx)) = Len(nx) - 1
      /\ \A j \in 1..(Len(nx) - 1) : Tail(nx)[j] = nx[j + 1]
  BY <1>1, HeadTailProperties
<1> QED
  BY <1>1, <1>2, <1>3, <1>4, <1>5, <1>6, <1>7, <1>8, <1>9

(* Behind it are the entries with other keys.                                *)
LEMMA TailLeft ==
    ASSUME NEW b, NEW n, Sound(b, n), NEW cc \in 0..(n - 1), NEW nx, Ends(nx, b[cc]), nx # <<>>,
           NEW e
    PROVE  /\ LeftIn(b, n, cc, Tail(nx), e) <=> LeftIn(b, n, cc, nx, e) /\ e.key # Head(nx).key
           /\ LeftIn(b, n, cc, nx, Head(nx))
           /\ Ends(Tail(nx), b[cc])
<1>0. n \in Nat
  BY DEF Sound
<1>1. PICK p : p = (Len(b[cc]) - Len(nx)) + 1
  OBVIOUS
<1>2. /\ p \in 1..Len(b[cc]) /\ b[cc][p] = Head(nx) /\ Head(nx) = nx[1]
      /\ hmap_hash(Head(nx).key, n) = cc
      /\ Tail(nx) \in Seq(EntryType) /\ Len(Tail(nx)) = Len(nx) - 1
      /\ \A j \in 1..(Len(nx) - 1) : Tail(nx)[j] = nx[j + 1]
      /\ Len(nx) \in Nat \ {0} /\ Len(b[cc]) \in Nat /\ Len(nx) <= Len(b[cc])
  BY <1>1, HeadAt
<1>3. \A j \in 1..Len(nx) : nx[j] = b[cc][(Len(b[cc]) - Len(nx)) + j]
  BY DEF Ends
<1>4. Ends(Tail(nx), b[cc])
  <2>1. ASSUME NEW j \in 1..Len(Tail(nx))
        PROVE  Tail(nx)[j] = b[cc][(Len(b[cc]) - Len(Tail(nx))) + j]
    <3>1. j + 1 \in 1..Len(nx) /\ j \in 1..(Len(nx) - 1)
      BY <1>2
    <3>2. (Len(b[cc]) - Len(nx)) + (j + 1) = (Len(b[cc]) - Len(Tail(nx))) + j
      <4>1. PICK m, l : m = Len(nx) /\ l = Len(b[cc])
        OBVIOUS
      <4>2. m \in Nat /\ l \in Nat /\ Len(Tail(nx)) = m - 1 /\ j \in 1..(m - 1)
        BY <1>2, <3>1, <4>1
      <4>3. (l - m) + (j + 1) = (l - (m - 1)) + j
        BY <4>2
      <4> QED
        BY <4>1, <4>2, <4>3
    <3>3. Tail(nx)[j] = b[cc][(Len(b[cc]) - Len(nx)) + (j + 1)]
      BY <1>2, <1>3, <3>1
    <3> QED
      BY <3>2, <3>3
  <2>2. Len(Tail(nx)) <= Len(b[cc])
    BY <1>2
  <2> QED
    BY <1>2, <2>1, <2>2 DEF Ends
<1>5. LeftIn(b, n, cc, nx, Head(nx))
  <2>1. 1 \in 1..Len(nx)
    BY <1>2
  <2> QED
    BY <1>2, <2>1 DEF LeftIn
<1>6. ASSUME NEW i \in (cc + 1)..(n - 1), NEW j \in 1..Len(b[i]), b[i][j] = e
      PROVE  e.key # Head(nx).key
  <2>1. i \in 0..(n - 1) /\ i # cc
    BY <1>0
  <2>2. hmap_hash(e.key, n) = i
    BY <1>6, <2>1 DEF Sound
  <2> QED
    BY <1>2, <2>1, <2>2
<1>7. ASSUME NEW j \in 1..Len(Tail(nx)), Tail(nx)[j] = e
      PROVE  e.key # Head(nx).key /\ \E i \in 1..Len(nx) : nx[i] = e
  <2>1. j + 1 \in 1..Len(nx) /\ j \in 1..(Len(nx) - 1)
    BY <1>2
  <2>2. nx[j + 1] = e
    BY <1>2, <1>7, <2>1
  <2>3. PICK q : q = (Len(b[cc]) - Len(nx)) + (j + 1)
    OBVIOUS
  <2>4. q \in 1..Len(b[cc]) /\ q # p
    <3>1. PICK m, l : m = Len(nx) /\ l = Len(b[cc])
      OBVIOUS
    <3>2. m \in Nat /\ l \in Nat /\ m <= l /\ j \in 1..(m - 1)
      BY <1>2, <2>1, <3>1
    <3>3. p = (l - m) + 1 /\ q = (l - m) + (j + 1)
      BY <1>1, <2>3, <3>1
    <3>4. q \in 1..l /\ q # p
      BY <3>2, <3>3
    <3> QED
      BY <3>1, <3>4
  <2>5. b[cc][q] = e
    BY <1>3, <2>1, <2>2, <2>3
  <2>6. e.key # Head(nx).key
    BY <1>2, <2>4, <2>5 DEF Sound
  <2> QED
    BY <2>1, <2>2, <2>6
<1>8. ASSUME NEW j \in 1..Len(nx), nx[j] = e, e.key # Head(nx).key
      PROVE  \E i \in 1..Len(Tail(nx)) : Tail(nx)[i] = e
  <2>1. j # 1
    BY <1>2, <1>8
  <2>2. j - 1 \in 1..(Len(nx) - 1) /\ (j - 1) + 1 = j /\ j - 1 \in 1..Len(Tail(nx))
    BY <1>2, <2>1
  <2>3. Tail(nx)[j - 1] = nx[(j - 1) + 1]
    BY <1>2, <2>2
  <2> QED
    BY <1>8, <2>2, <2>3
<1> QED
  BY <1>4, <1>5, <1>6, <1>7, <1>8 DEF LeftIn

(* And they are so when it has been taken out.                               *)
LEMMA TailUnlinked ==
    ASSUME NEW b, NEW n, Sound(b, n), NEW cc \in 0..(n - 1), NEW nx, Ends(nx, b[cc]), nx # <<>>,
           NEW new, new = [b EXCEPT ![cc] = RemoveAt(@, (Len(b[cc]) - Len(nx)) + 1)]
    PROVE  /\ Ends(Tail(nx), new[cc])
           /\ \A e : LeftIn(new, n, cc, Tail(nx), e) <=> LeftIn(b, n, cc, Tail(nx), e)
<1>0. n \in Nat /\ b \in [0..(n - 1) -> Seq(EntryType)] /\ b[cc] \in Seq(EntryType)
  BY DEF Sound
<1>1. PICK p : p = (Len(b[cc]) - Len(nx)) + 1
  OBVIOUS
<1>2. /\ p \in 1..Len(b[cc])
      /\ Tail(nx) \in Seq(EntryType) /\ Len(Tail(nx)) = Len(nx) - 1
      /\ Len(nx) \in Nat \ {0} /\ Len(b[cc]) \in Nat /\ Len(nx) <= Len(b[cc])
  BY <1>1, HeadAt
<1>3. Ends(Tail(nx), b[cc])
  BY TailLeft
<1>4. PICK s : s = RemoveAt(b[cc], p)
  OBVIOUS
<1>5. /\ Len(s) = Len(b[cc]) - 1
      /\ \A j \in 1..(Len(b[cc]) - 1) : s[j] = IF j < p THEN b[cc][j] ELSE b[cc][j + 1]
  BY <1>0, <1>2, <1>4, TakenOut
<1>6. new[cc] = s /\ \A i \in 0..(n - 1) : i # cc => new[i] = b[i]
  BY <1>0, <1>1, <1>4
<1>7. Ends(Tail(nx), s)
  <2>1. ASSUME NEW j \in 1..Len(Tail(nx)) PROVE Tail(nx)[j] = s[(Len(s) - Len(Tail(nx))) + j]
    <3>1. PICK q : q = (Len(s) - Len(Tail(nx))) + j
      OBVIOUS
    <3>2. q \in 1..(Len(b[cc]) - 1) /\ ~(q < p) /\ q + 1 = (Len(b[cc]) - Len(Tail(nx))) + j
      BY <1>1, <1>2, <1>5, <3>1
    <3>3. s[q] = b[cc][q + 1]
      BY <1>5, <3>2
    <3>4. Tail(nx)[j] = b[cc][(Len(b[cc]) - Len(Tail(nx))) + j]
      BY <1>3 DEF Ends
    <3> QED
      BY <3>1, <3>2, <3>3, <3>4
  <2>2. Len(Tail(nx)) <= Len(s)
    BY <1>2, <1>5
  <2> QED
    BY <1>2, <2>1, <2>2 DEF Ends
<1>8. \A i \in (cc + 1)..(n - 1) : new[i] = b[i]
  <2> SUFFICES ASSUME NEW i \in (cc + 1)..(n - 1) PROVE new[i] = b[i]
    OBVIOUS
  <2>1. i \in 0..(n - 1) /\ i # cc
    BY <1>0
  <2> QED
    BY <1>6, <2>1
<1> QED
  BY <1>6, <1>7, <1>8 DEF LeftIn

(* What is in the buckets from one on.                                       *)
FromOn(b, n, from, e) == \E i \in from..(n - 1) : \E j \in 1..Len(b[i]) : b[i][j] = e

LEMMA LeftFrom ==
    ASSUME NEW b, NEW n, Sound(b, n), NEW cc \in Nat, NEW e
    PROVE  /\ LeftIn(b, n, cc, <<>>, e) <=> FromOn(b, n, cc + 1, e)
           /\ cc \in 0..(n - 1) => (LeftIn(b, n, cc, b[cc], e) <=> FromOn(b, n, cc, e))
<1>0. n \in Nat \ {0}
  BY DEF Sound
<1>1. ~ \E j \in 1..Len(<<>>) : <<>>[j] = e
  OBVIOUS
<1>2. ASSUME cc \in 0..(n - 1)
      PROVE  /\ cc \in cc..(n - 1)
             /\ \A i \in cc..(n - 1) : i = cc \/ i \in (cc + 1)..(n - 1)
             /\ \A i \in (cc + 1)..(n - 1) : i \in cc..(n - 1)
  BY <1>0, <1>2
<1>3. ASSUME cc \in 0..(n - 1) PROVE LeftIn(b, n, cc, b[cc], e) <=> FromOn(b, n, cc, e)
  BY <1>2, <1>3 DEF LeftIn, FromOn
<1> QED
  BY <1>1, <1>3 DEF LeftIn, FromOn

(* At the end of the table there is nothing left.                            *)
LEMMA LeftNone ==
    ASSUME NEW b, NEW n, Sound(b, n), NEW cc \in Nat, cc + 1 >= n
    PROVE  Left(b, n, cc, <<>>) = {} /\ Keyed(Left(b, n, cc, <<>>)) = {}
<1>0. n \in Nat \ {0}
  BY DEF Sound
<1>1. ASSUME NEW e, LeftIn(b, n, cc, <<>>, e) PROVE FALSE
  <2>1. FromOn(b, n, cc + 1, e)
    BY <1>1, LeftFrom
  <2>2. PICK i \in (cc + 1)..(n - 1) : TRUE
    BY <2>1 DEF FromOn
  <2> QED
    BY <1>0, <2>2
<1>2. Left(b, n, cc, <<>>) = {}
  BY <1>1 DEF Left
<1> QED
  BY <1>2 DEF Keyed

(* Where an iterator stands that looks for an entry from a bucket on.        *)
LEMMA StandAtIs ==
    ASSUME NEW n, n = buckets_length, Sound(buckets, n), NEW from \in 0..n, StandAt(from)
    PROVE  /\ WalkIs(buckets, n, "iterator", c', next')
           /\ Left(buckets, n, c', next') = {e \in EntryType : FromOn(buckets, n, from, e)}
<1>0. n \in Nat \ {0} /\ DOMAIN buckets = 0..(n - 1)
  BY DEF Sound
<1>1. CASE Filled(from) = {}
  <2>1. c' = n /\ next' = <<>>
    BY <1>1 DEF StandAt
  <2>2. WalkIs(buckets, n, "iterator", c', next')
    BY <2>1 DEF WalkIs
  <2>3. Left(buckets, n, c', next') = {}
    BY <1>0, <2>1, LeftNone
  <2>4. ASSUME NEW e, FromOn(buckets, n, from, e) PROVE FALSE
    <3>1. PICK i \in from..(n - 1) : \E j \in 1..Len(buckets[i]) : buckets[i][j] = e
      BY <2>4 DEF FromOn
    <3>2. i \in DOMAIN buckets /\ i >= from
      BY <1>0
    <3>3. buckets[i] = <<>>
      BY <1>1, <3>2 DEF Filled
    <3>4. Len(<<>>) = 0
      OBVIOUS
    <3> QED
      BY <3>1, <3>3, <3>4
  <2> QED
    BY <2>2, <2>3, <2>4
<1>2. CASE Filled(from) # {}
  <2>1. Filled(from) \in SUBSET Nat
    BY <1>0 DEF Filled
  <2>2. \E m \in Filled(from) : \A j \in Filled(from) : m <= j
    BY <1>2, <2>1, LeastNumber
  <2>3. PICK m : m = Min(Filled(from))
    OBVIOUS
  <2>4. m \in Filled(from) /\ \A j \in Filled(from) : m <= j
    BY <2>2, <2>3 DEF Min
  <2>5. c' = m /\ next' = buckets[m]
    BY <1>2, <2>3 DEF StandAt
  <2>6. m \in 0..(n - 1) /\ m >= from /\ buckets[m] # <<>>
    BY <1>0, <2>4 DEF Filled
  <2>7. buckets[m] \in Seq(EntryType)
    BY <2>6 DEF Sound
  <2>8. Ends(buckets[m], buckets[m])
    <3>1. PICK l : l = Len(buckets[m])
      OBVIOUS
    <3>2. l \in Nat
      BY <2>7, <3>1
    <3>3. l <= l /\ \A i \in 1..l : (l - l) + i = i
      BY <3>2
    <3> QED
      BY <2>7, <3>1, <3>3 DEF Ends
  <2>9. WalkIs(buckets, n, "iterator", c', next')
    BY <2>5, <2>6, <2>8 DEF WalkIs
  <2>10. ASSUME NEW e PROVE FromOn(buckets, n, from, e) <=> FromOn(buckets, n, m, e)
    <3>1. ASSUME FromOn(buckets, n, from, e) PROVE FromOn(buckets, n, m, e)
      <4>1. PICK i \in from..(n - 1) : \E j \in 1..Len(buckets[i]) : buckets[i][j] = e
        BY <3>1 DEF FromOn
      <4>2. i \in DOMAIN buckets /\ i >= from /\ i \in Int
        BY <1>0
      <4>3. buckets[i] # <<>>
        <5>1. Len(<<>>) = 0
          OBVIOUS
        <5> QED
          BY <4>1, <5>1
      <4>4. m <= i
        BY <2>4, <4>2, <4>3 DEF Filled
      <4>5. i \in m..(n - 1)
        BY <1>0, <2>6, <4>4
      <4> QED
        BY <4>1, <4>5 DEF FromOn
    <3>2. \A i \in m..(n - 1) : i \in from..(n - 1)
      BY <1>0, <2>6
    <3> QED
      BY <3>1, <3>2 DEF FromOn
  <2>11. ASSUME NEW e PROVE LeftIn(buckets, n, m, buckets[m], e) <=> FromOn(buckets, n, m, e)
    <3>1. m \in Nat
      BY <2>6
    <3> QED
      BY <2>6, <3>1, LeftFrom
  <2>12. Left(buckets, n, m, buckets[m]) = {e \in EntryType : FromOn(buckets, n, from, e)}
    BY <2>10, <2>11 DEF Left
  <2> QED
    BY <2>5, <2>9, <2>12
<1> QED
  BY <1>1, <1>2

-----------------------------------------------------------------------------
(* The steps of a walk that leave the table as it is.                        *)
LEMMA StillTable ==
    ASSUME IInv, UNCHANGED <<buckets, threshold, size>>, NEW n, n = buckets_length,
           WalkIs(buckets, n, walking', c', next')
    PROVE  /\ IInv' /\ Seen /\ Seen' /\ Held' = Held
           /\ WalkNow' = WalkOf(buckets, n, walking', c', next')
<1>1. buckets_length' = n
  BY DEF buckets_length
<1>2. TableIs(buckets', n, threshold', size')
  BY DEF IInv
<1>3. IInv'
  BY <1>1, <1>2 DEF IInv
<1>4. Held' = Held /\ WalkNow' = WalkOf(buckets, n, walking', c', next')
  BY <1>1 DEF Held, WalkNow
<1> QED
  BY <1>3, <1>4, SeenNow, SeenNext

(* A walk is not NULL.                                                       *)
LEMMA WalkIsSet ==
    ASSUME NEW b, NEW n, NEW cc, NEW nx
    PROVE  Keyed(Left(b, n, cc, nx)) \in SUBSET Keys /\ NULL # Keyed(Left(b, n, cc, nx))
<1>1. Keyed(Left(b, n, cc, nx)) \in SUBSET Keys
  BY DEF Keyed, Left, EntryType
<1> QED
  BY <1>1, NullAssumption

(* A walk begins.                                                            *)
LEMMA ForeachCall ==
    ASSUME IInv, NEW what \in {"value", "key"}, Foreach(what)
    PROVE  IInv' /\ Map!Begin
<1>1. PICK n : n = buckets_length
  OBVIOUS
<1>2. Sound(buckets, n) /\ n \in Nat \ {0}
  BY <1>1 DEF IInv, TableIs, Sound
<1>3. /\ walking = "no" /\ walking' = what /\ c' = 0 /\ next' = buckets[0] /\ result' = NULL
      /\ UNCHANGED <<buckets, threshold, size>>
  BY DEF Foreach
<1>4. 0 \in 0..(n - 1) /\ buckets[0] \in Seq(EntryType)
  BY <1>2 DEF Sound
<1>5. Ends(buckets[0], buckets[0])
  <2>1. PICK l : l = Len(buckets[0])
    OBVIOUS
  <2>2. l \in Nat
    BY <1>4, <2>1
  <2>3. l <= l /\ \A i \in 1..l : (l - l) + i = i
    BY <2>2
  <2> QED
    BY <1>4, <2>1, <2>3 DEF Ends
<1>6. WalkIs(buckets, n, walking', c', next')
  BY <1>3, <1>4, <1>5 DEF WalkIs
<1>7. /\ IInv' /\ Seen /\ Seen' /\ Held' = Held
      /\ WalkNow' = WalkOf(buckets, n, walking', c', next')
  BY <1>1, <1>3, <1>6, StillTable
<1>8. Left(buckets, n, 0, buckets[0]) = EntrySet(buckets, n)
  <2>1. ASSUME NEW e PROVE In(buckets, n, e) <=> LeftIn(buckets, n, 0, buckets[0], e)
    BY <1>2, LeftAll DEF In
  <2> QED
    BY <2>1 DEF Left, EntrySet
<1>9. WalkNow = NULL /\ WalkNow' = DOMAIN Held
  BY <1>1, <1>3, <1>7, <1>8 DEF WalkNow, WalkOf, Held, MapOf
<1> QED
  BY <1>3, <1>7, <1>9 DEF Map!Begin, Seen, Contents, ToCome

(* From one bucket to the next.                                              *)
LEMMA NextBucketCall ==
    ASSUME IInv, NextBucket
    PROVE  IInv' /\ UNCHANGED Map!vars
<1>1. PICK n : n = buckets_length
  OBVIOUS
<1>2. Sound(buckets, n) /\ n \in Nat \ {0} /\ WalkIs(buckets, n, walking, c, next)
  BY <1>1 DEF IInv, TableIs, Sound
<1>3. /\ walking \in {"value", "key"} /\ next = <<>> /\ c + 1 < n
      /\ c' = c + 1 /\ next' = buckets[c + 1] /\ result' = result
      /\ walking' = walking /\ UNCHANGED <<buckets, threshold, size>>
  BY <1>1 DEF NextBucket, InForeach
<1>4. c \in 0..(n - 1)
  BY <1>2, <1>3 DEF WalkIs
<1>5. PICK m : m = c + 1
  OBVIOUS
<1>6. m \in 0..(n - 1) /\ m \in Nat /\ c \in Nat
  BY <1>2, <1>3, <1>4, <1>5
<1>7. buckets[m] \in Seq(EntryType)
  BY <1>2, <1>6 DEF Sound
<1>8. Ends(buckets[m], buckets[m])
  <2>1. PICK l : l = Len(buckets[m])
    OBVIOUS
  <2>2. l \in Nat
    BY <1>7, <2>1
  <2>3. l <= l /\ \A i \in 1..l : (l - l) + i = i
    BY <2>2
  <2> QED
    BY <1>7, <2>1, <2>3 DEF Ends
<1>9. WalkIs(buckets, n, walking', c', next')
  BY <1>3, <1>5, <1>6, <1>8 DEF WalkIs
<1>10. /\ IInv' /\ Seen /\ Seen' /\ Held' = Held
       /\ WalkNow' = WalkOf(buckets, n, walking', c', next')
  BY <1>1, <1>3, <1>9, StillTable
<1>11. Left(buckets, n, m, buckets[m]) = Left(buckets, n, c, <<>>)
  <2>1. ASSUME NEW e PROVE LeftIn(buckets, n, m, buckets[m], e) <=> FromOn(buckets, n, m, e)
    BY <1>2, <1>6, LeftFrom
  <2>2. ASSUME NEW e PROVE LeftIn(buckets, n, c, <<>>, e) <=> FromOn(buckets, n, c + 1, e)
    BY <1>2, <1>6, LeftFrom
  <2> QED
    BY <1>5, <2>1, <2>2 DEF Left
<1>12. WalkNow' = WalkNow
  BY <1>1, <1>3, <1>5, <1>10, <1>11 DEF WalkNow, WalkOf
<1> QED
  BY <1>3, <1>10, <1>12 DEF Map!vars, Seen, Contents, ToCome

(* The end of the table.                                                     *)
LEMMA EndOfTableCall ==
    ASSUME IInv, EndOfTable
    PROVE  IInv' /\ Map!End
<1>1. PICK n : n = buckets_length
  OBVIOUS
<1>2. Sound(buckets, n) /\ n \in Nat \ {0} /\ WalkIs(buckets, n, walking, c, next)
  BY <1>1 DEF IInv, TableIs, Sound
<1>3. /\ walking \in {"value", "key"} /\ next = <<>> /\ c + 1 = n
      /\ walking' = "no" /\ c' = 0 /\ result' = NULL /\ next' = <<>>
      /\ UNCHANGED <<buckets, threshold, size>>
  BY <1>1 DEF EndOfTable, InForeach
<1>4. c \in Nat /\ c + 1 >= n
  BY <1>2, <1>3 DEF WalkIs
<1>5. WalkIs(buckets, n, walking', c', next')
  BY <1>3 DEF WalkIs
<1>6. /\ IInv' /\ Seen /\ Seen' /\ Held' = Held
      /\ WalkNow' = WalkOf(buckets, n, walking', c', next')
  BY <1>1, <1>3, <1>5, StillTable
<1>7. Keyed(Left(buckets, n, c, <<>>)) = {}
  BY <1>2, <1>4, LeftNone
<1>8. WalkNow = {} /\ WalkNow' = NULL
  BY <1>1, <1>3, <1>6, <1>7 DEF WalkNow, WalkOf
<1> QED
  BY <1>3, <1>6, <1>8 DEF Map!End, Seen, Contents, ToCome

(* What a walk has left when it has gone on by one entry: all but its key.   *)
LEMMA KeysLeft ==
    ASSUME NEW D, NEW E, NEW x \in D, Without(D, E, x.key)
    PROVE  x.key \in Keyed(D) /\ Keyed(E) = Keyed(D) \ {x.key}
BY DEF Keyed, Without

(* The function is called for an entry, and may take it out.                 *)
LEMMA FunctionCall ==
    ASSUME IInv, CallFunction
    PROVE  IInv' /\ \E k \in Keys : Map!Visit(k)
<1>1. PICK n : n = buckets_length
  OBVIOUS
<1>2. /\ Sound(buckets, n) /\ n \in Nat \ {0} /\ WalkIs(buckets, n, walking, c, next)
      /\ TableIs(buckets, n, threshold, size)
  BY <1>1 DEF IInv, TableIs, Sound
<1>3. /\ walking \in {"value", "key"} /\ next # <<>>
      /\ result' = Head(next)[walking] /\ next' = Tail(next)
      /\ Unlink(Head(next).key) \/ UNCHANGED <<buckets, size>>
      /\ UNCHANGED <<threshold, c, walking>>
  BY DEF CallFunction, InForeach
<1>4. c \in 0..(n - 1) /\ Ends(next, buckets[c])
  BY <1>2, <1>3 DEF WalkIs
<1>5. PICK x, k, p : x = Head(next) /\ k = x.key /\ p = (Len(buckets[c]) - Len(next)) + 1
  OBVIOUS
<1>6. /\ p \in 1..Len(buckets[c]) /\ buckets[c][p] = x /\ x \in EntryType /\ k \in Keys
      /\ hmap_hash(k, n) = c
  BY <1>2, <1>3, <1>4, <1>5, HeadAt
<1>7. Ends(Tail(next), buckets[c]) /\ LeftIn(buckets, n, c, next, x)
  BY <1>2, <1>3, <1>4, <1>5, TailLeft
<1>8. ASSUME NEW e
      PROVE  LeftIn(buckets, n, c, Tail(next), e) <=> LeftIn(buckets, n, c, next, e) /\ e.key # k
  BY <1>2, <1>3, <1>4, <1>5, TailLeft
<1>9. /\ k \in Keyed(Left(buckets, n, c, next))
      /\ Keyed(Left(buckets, n, c, Tail(next))) = Keyed(Left(buckets, n, c, next)) \ {k}
  <2>1. PICK D, E : D = Left(buckets, n, c, next) /\ E = Left(buckets, n, c, Tail(next))
    OBVIOUS
  <2>2. x \in D /\ Without(D, E, x.key)
    BY <1>5, <1>6, <1>7, <1>8, <2>1 DEF Left, Without
  <2> QED
    BY <1>5, <2>1, <2>2, KeysLeft
<1>10. result' \in {Held[k], k}
  <2>1. Single(EntrySet(buckets, n))
    BY <1>2, EntriesSingle
  <2>2. x \in EntrySet(buckets, n)
    <3>1. In(buckets, n, x)
      BY <1>4, <1>6 DEF In
    <3> QED
      BY <1>6, <3>1 DEF EntrySet
  <2>3. Held[k] = x.value
    BY <1>1, <1>5, <2>1, <2>2, MapHolds DEF Held
  <2>4. result' = x["value"] \/ result' = x["key"]
    BY <1>3, <1>5
  <2> QED
    BY <1>5, <2>3, <2>4
<1>11. /\ TableIs(buckets', n, threshold', size')
       /\ Held' \in {Held, [j \in DOMAIN Held \ {k} |-> Held[j]]}
       /\ Ends(next', buckets'[c])
       /\ Left(buckets', n, c, next') = Left(buckets, n, c, Tail(next))
  <2>1. CASE UNCHANGED <<buckets, size>>
    <3>1. buckets_length' = n
      BY <1>1, <2>1 DEF buckets_length
    <3>2. Held' = Held
      BY <1>1, <2>1, <3>1 DEF Held
    <3> QED
      BY <1>2, <1>3, <1>7, <2>1, <3>2
  <2>2. CASE Unlink(k)
    <3>1. /\ TableIs(buckets', n, threshold', size')
          /\ MadeWithout(EntrySet(buckets, n), EntrySet(buckets', n), k)
      BY <1>1, <1>3, <1>6, <2>2, UnlinkCall
    <3>2. buckets_length' = n
      BY <3>1, LengthNext
    <3>3. Held' = [j \in DOMAIN Held \ {k} |-> Held[j]]
      BY <1>1, <3>1, <3>2 DEF Held, MadeWithout
    <3>4. Find(k) = p
      <4>1. Spot(buckets[c], k) = p
        BY <1>2, <1>4, <1>5, <1>6, SpotIs
      <4> QED
        BY <1>1, <1>6, <4>1 DEF Find, Bucket, Spot
    <3>5. buckets' = [buckets EXCEPT ![c] = RemoveAt(@, p)]
      <4>1. Find(k) # 0
        BY <1>6, <3>4
      <4> QED
        BY <1>1, <1>6, <2>2, <3>4, <4>1 DEF Unlink
    <3>6. PICK new : new = [buckets EXCEPT ![c] = RemoveAt(@, (Len(buckets[c]) - Len(next)) + 1)]
      OBVIOUS
    <3>7. /\ Ends(Tail(next), new[c])
          /\ \A e : LeftIn(new, n, c, Tail(next), e) <=> LeftIn(buckets, n, c, Tail(next), e)
      BY <1>2, <1>3, <1>4, <3>6, TailUnlinked
    <3>8. buckets' = new
      BY <1>5, <3>5, <3>6
    <3>9. Left(new, n, c, Tail(next)) = Left(buckets, n, c, Tail(next))
      BY <3>7 DEF Left
    <3> QED
      BY <1>3, <3>1, <3>3, <3>7, <3>8, <3>9
  <2> QED
    BY <1>3, <1>5, <2>1, <2>2
<1>12. buckets_length' = n
  BY <1>11, LengthNext
<1>13. IInv'
  BY <1>3, <1>4, <1>11, <1>12 DEF IInv, WalkIs
<1>14. /\ WalkNow = Keyed(Left(buckets, n, c, next))
       /\ WalkNow' = Keyed(Left(buckets, n, c, Tail(next)))
  BY <1>1, <1>3, <1>11, <1>12 DEF WalkNow, WalkOf
<1>15. WalkNow # NULL
  BY <1>14, WalkIsSet
<1>16. Seen /\ Seen'
  BY <1>13, SeenNow, SeenNext
<1>17. Map!Visit(k)
  <2>1. ToCome # NULL /\ k \in ToCome /\ ToCome' = ToCome \ {k}
    BY <1>9, <1>14, <1>15, <1>16 DEF Seen
  <2>2. result' \in {Contents[k], k}
    BY <1>10, <1>16 DEF Seen
  <2>3. Contents' \in {Contents, [j \in DOMAIN Contents \ {k} |-> Contents[j]]}
    BY <1>11, <1>16 DEF Seen
  <2> QED
    BY <2>1, <2>2, <2>3 DEF Map!Visit, Map!Restrict, Contents, ToCome
<1> QED
  BY <1>6, <1>13, <1>17

-----------------------------------------------------------------------------
(* The calls of an iterator.                                                 *)
LEMMA IteratorCall ==
    ASSUME IInv, hmap_iterator
    PROVE  IInv' /\ Map!Begin
<1>1. PICK n : n = buckets_length
  OBVIOUS
<1>2. Sound(buckets, n) /\ n \in Nat \ {0}
  BY <1>1 DEF IInv, TableIs, Sound
<1>3. /\ walking = "no" /\ walking' = "iterator" /\ StandAt(0) /\ result' = NULL
      /\ UNCHANGED <<buckets, threshold, size>>
  BY DEF hmap_iterator
<1>4. /\ WalkIs(buckets, n, walking', c', next')
      /\ Left(buckets, n, c', next') = {e \in EntryType : FromOn(buckets, n, 0, e)}
  <2>1. 0 \in 0..n
    BY <1>2
  <2> QED
    BY <1>1, <1>2, <1>3, <2>1, StandAtIs
<1>5. /\ IInv' /\ Seen /\ Seen' /\ Held' = Held
      /\ WalkNow' = WalkOf(buckets, n, walking', c', next')
  BY <1>1, <1>3, <1>4, StillTable
<1>6. Left(buckets, n, c', next') = EntrySet(buckets, n)
  BY <1>4 DEF EntrySet, In, FromOn
<1>7. WalkNow = NULL /\ WalkNow' = DOMAIN Held
  BY <1>1, <1>3, <1>5, <1>6 DEF WalkNow, WalkOf, Held, MapOf
<1> QED
  BY <1>3, <1>5, <1>7 DEF Map!Begin, Seen, Contents, ToCome

(* An iterator that has nothing to come to is at the end.                    *)
LEMMA AtEndOf ==
    ASSUME IInv, walking = "iterator", next = <<>>
    PROVE  WalkNow = {} /\ c = buckets_length
<1>1. PICK n : n = buckets_length
  OBVIOUS
<1>2. Sound(buckets, n) /\ n \in Nat \ {0} /\ WalkIs(buckets, n, walking, c, next)
  BY <1>1 DEF IInv, TableIs, Sound
<1>3. c = n
  BY <1>2 DEF WalkIs
<1>4. n \in Nat /\ n + 1 >= n
  BY <1>2
<1>5. Keyed(Left(buckets, n, n, <<>>)) = {}
  BY <1>2, <1>4, LeftNone
<1> QED
  BY <1>1, <1>3, <1>5 DEF WalkNow, WalkOf

LEMMA IteratorNextCall ==
    ASSUME IInv, hmap_iterator_next
    PROVE  IInv' /\ (Map!End \/ \E k \in Keys : Map!Visit(k))
<1>1. PICK n : n = buckets_length
  OBVIOUS
<1>2. /\ Sound(buckets, n) /\ n \in Nat \ {0} /\ WalkIs(buckets, n, walking, c, next)
  BY <1>1 DEF IInv, TableIs, Sound
<1>3. walking = "iterator" /\ walking' = walking /\ UNCHANGED <<buckets, threshold, size>>
  BY DEF hmap_iterator_next
<1>4. CASE next = <<>>
  <2>1. result' = NULL /\ c' = c /\ next' = next
    BY <1>4 DEF hmap_iterator_next
  <2>2. IInv' /\ Seen /\ Seen' /\ Held' = Held /\ WalkNow' = WalkNow
    BY <1>3, <2>1, Unchanged
  <2>3. WalkNow = {}
    BY <1>3, <1>4, AtEndOf
  <2> QED
    BY <2>1, <2>2, <2>3 DEF Map!End, Seen, Contents, ToCome
<1>5. CASE next # <<>>
  <2>1. c \in 0..(n - 1) /\ Ends(next, buckets[c]) /\ c \in Nat
    BY <1>2, <1>3, <1>5 DEF WalkIs
  <2>2. PICK x, k, p : x = Head(next) /\ k = x.key /\ p = (Len(buckets[c]) - Len(next)) + 1
    OBVIOUS
  <2>3. /\ p \in 1..Len(buckets[c]) /\ buckets[c][p] = x /\ x \in EntryType /\ k \in Keys
    BY <1>2, <1>5, <2>1, <2>2, HeadAt
  <2>4. Ends(Tail(next), buckets[c]) /\ LeftIn(buckets, n, c, next, x)
    BY <1>2, <1>5, <2>1, <2>2, TailLeft
  <2>5. ASSUME NEW e
        PROVE  LeftIn(buckets, n, c, Tail(next), e) <=> LeftIn(buckets, n, c, next, e) /\ e.key # k
    BY <1>2, <1>5, <2>1, <2>2, TailLeft
  <2>6. /\ k \in Keyed(Left(buckets, n, c, next))
        /\ Keyed(Left(buckets, n, c, Tail(next))) = Keyed(Left(buckets, n, c, next)) \ {k}
    <3>1. PICK D, E : D = Left(buckets, n, c, next) /\ E = Left(buckets, n, c, Tail(next))
      OBVIOUS
    <3>2. x \in D /\ Without(D, E, x.key)
      BY <2>2, <2>3, <2>4, <2>5, <3>1 DEF Left, Without
    <3> QED
      BY <2>2, <3>1, <3>2, KeysLeft
  <2>7. result' = Held[k]
    <3>1. Single(EntrySet(buckets, n))
      BY <1>2, EntriesSingle
    <3>2. x \in EntrySet(buckets, n)
      <4>1. In(buckets, n, x)
        BY <2>1, <2>3 DEF In
      <4> QED
        BY <2>3, <4>1 DEF EntrySet
    <3>3. Held[k] = x.value
      BY <1>1, <2>2, <3>1, <3>2, MapHolds DEF Held
    <3> QED
      BY <1>5, <2>2, <3>3 DEF hmap_iterator_next
  <2>8. /\ WalkIs(buckets, n, walking', c', next')
        /\ Left(buckets, n, c', next') = Left(buckets, n, c, Tail(next))
    <3>1. CASE Tail(next) # <<>>
      <4>1. next' = Tail(next) /\ c' = c
        BY <1>5, <3>1 DEF hmap_iterator_next
      <4> QED
        BY <1>3, <2>1, <2>4, <3>1, <4>1 DEF WalkIs
    <3>2. CASE Tail(next) = <<>>
      <4>1. StandAt(c + 1)
        BY <1>5, <3>2 DEF hmap_iterator_next
      <4>2. c + 1 \in 0..n
        BY <1>2, <2>1
      <4>3. /\ WalkIs(buckets, n, "iterator", c', next')
            /\ Left(buckets, n, c', next') = {e \in EntryType : FromOn(buckets, n, c + 1, e)}
        BY <1>1, <1>2, <4>1, <4>2, StandAtIs
      <4>4. ASSUME NEW e PROVE LeftIn(buckets, n, c, <<>>, e) <=> FromOn(buckets, n, c + 1, e)
        BY <1>2, <2>1, LeftFrom
      <4>5. Left(buckets, n, c, <<>>) = {e \in EntryType : FromOn(buckets, n, c + 1, e)}
        BY <4>4 DEF Left
      <4> QED
        BY <1>3, <3>2, <4>3, <4>5
    <3> QED
      BY <3>1, <3>2
  <2>9. /\ IInv' /\ Seen /\ Seen' /\ Held' = Held
        /\ WalkNow' = WalkOf(buckets, n, walking', c', next')
    BY <1>1, <1>3, <2>8, StillTable
  <2>10. /\ WalkNow = Keyed(Left(buckets, n, c, next))
         /\ WalkNow' = Keyed(Left(buckets, n, c, Tail(next)))
    BY <1>1, <1>3, <2>8, <2>9 DEF WalkNow, WalkOf
  <2>11. WalkNow # NULL
    BY <2>10, WalkIsSet
  <2>12. Map!Visit(k)
    <3>1. ToCome # NULL /\ k \in ToCome /\ ToCome' = ToCome \ {k}
      BY <2>6, <2>9, <2>10, <2>11 DEF Seen
    <3>2. result' \in {Contents[k], k}
      BY <2>7, <2>9 DEF Seen
    <3>3. Contents' = Contents
      BY <2>9 DEF Seen
    <3> QED
      BY <3>1, <3>2, <3>3 DEF Map!Visit, Contents, ToCome
  <2> QED
    BY <2>3, <2>9, <2>12
<1> QED
  BY <1>4, <1>5

LEMMA HasNextCall ==
    ASSUME IInv, hmap_iterator_has_next
    PROVE  IInv' /\ (Map!End \/ Map!More)
<1>1. PICK n : n = buckets_length
  OBVIOUS
<1>2. Sound(buckets, n) /\ n \in Nat \ {0} /\ WalkIs(buckets, n, walking, c, next)
  BY <1>1 DEF IInv, TableIs, Sound
<1>3. walking = "iterator" /\ UNCHANGED <<buckets, threshold, size>>
  BY DEF hmap_iterator_has_next
<1>4. CASE next = <<>>
  <2>1. result' = 0 /\ walking' = "no" /\ c' = 0 /\ next' = <<>>
    BY <1>4 DEF hmap_iterator_has_next
  <2>2. WalkIs(buckets, n, walking', c', next')
    BY <2>1 DEF WalkIs
  <2>3. /\ IInv' /\ Seen /\ Seen' /\ Held' = Held
        /\ WalkNow' = WalkOf(buckets, n, walking', c', next')
    BY <1>1, <1>3, <2>2, StillTable
  <2>4. WalkNow = {} /\ WalkNow' = NULL
    BY <1>3, <1>4, <2>1, <2>3, AtEndOf DEF WalkOf
  <2> QED
    BY <2>1, <2>3, <2>4 DEF Map!End, Seen, Contents, ToCome
<1>5. CASE next # <<>>
  <2>1. result' = 1 /\ UNCHANGED <<c, next, walking>>
    BY <1>5 DEF hmap_iterator_has_next
  <2>2. IInv' /\ Seen /\ Seen' /\ Held' = Held /\ WalkNow' = WalkNow
    BY <1>3, <2>1, Unchanged
  <2>3. c \in 0..(n - 1) /\ Ends(next, buckets[c])
    BY <1>2, <1>3, <1>5 DEF WalkIs
  <2>4. LeftIn(buckets, n, c, next, Head(next)) /\ Head(next) \in EntryType
    BY <1>2, <1>5, <2>3, HeadAt, TailLeft
  <2>5. WalkNow # {} /\ WalkNow # NULL
    <3>1. WalkNow = Keyed(Left(buckets, n, c, next))
      BY <1>1, <1>3 DEF WalkNow, WalkOf
    <3>2. Head(next).key \in Keyed(Left(buckets, n, c, next))
      BY <2>4 DEF Keyed, Left
    <3> QED
      BY <3>1, <3>2, WalkIsSet
  <2> QED
    BY <2>1, <2>2, <2>5 DEF Map!More, Seen, Contents, ToCome
<1> QED
  BY <1>4, <1>5

-----------------------------------------------------------------------------
LEMMA InitIInv == Init => IInv /\ Map!Init
<1> SUFFICES ASSUME Init PROVE IInv /\ Map!Init
  OBVIOUS
<1>1. PICK n : n = DefaultCapacity
  OBVIOUS
<1>2. n \in Nat \ {0}
  BY <1>1, CapacityAssumption
<1>3. /\ buckets = Empty(n) /\ threshold = Threshold(n) /\ size = 0 /\ result = NULL
      /\ c = 0 /\ next = <<>> /\ walking = "no"
  BY <1>1 DEF Init
<1>4. TableIs(buckets, n, threshold, size) /\ EntrySet(buckets, n) = {}
  BY <1>2, <1>3, EmptyTable
<1>5. buckets_length = n
  BY <1>4, LengthIs DEF TableIs, buckets_length
<1>6. IInv
  BY <1>3, <1>4, <1>5 DEF IInv, WalkIs
<1>7. Held = <<>> /\ WalkNow = NULL
  <2>1. MapOf({}) = [k \in {} |-> k]
    BY DEF MapOf, Keyed
  <2>2. <<>> = [k \in {} |-> k]
    OBVIOUS
  <2> QED
    BY <1>3, <1>4, <1>5, <2>1, <2>2 DEF Held, WalkNow, WalkOf
<1>8. Seen
  BY <1>6, SeenNow
<1> QED
  BY <1>3, <1>6, <1>7, <1>8 DEF Map!Init, Seen, Contents, ToCome

(* Every call keeps the invariant, and is one of the table or none.          *)
LEMMA StepIInv ==
    ASSUME IInv, [Next]_vars
    PROVE  IInv' /\ [Map!Next]_(Map!vars)
<1>1. CASE UNCHANGED vars
  <2>1. UNCHANGED <<buckets, threshold, size, c, next, walking>> /\ result' = result
    BY <1>1 DEF vars
  <2>2. IInv' /\ Seen /\ Seen' /\ Held' = Held /\ WalkNow' = WalkNow
    BY <2>1, Unchanged
  <2> QED
    BY <2>1, <2>2 DEF Map!vars, Seen, Contents, ToCome
<1>2. ASSUME NEW k \in Keys, hmap_remove(k) PROVE IInv' /\ Map!Next
  BY <1>2, RemoveCall DEF Map!Next
<1>3. ASSUME NEW k \in Keys, hmap_get(k) PROVE IInv' /\ Map!Next
  BY <1>3, LookCall DEF Map!Next
<1>4. ASSUME NEW k \in Keys, hmap_contains_key(k) PROVE IInv' /\ Map!Next
  BY <1>4, LookCall DEF Map!Next
<1>5. ASSUME NEW k \in Keys, NEW v \in Values, hmap_put(k, v) PROVE IInv' /\ Map!Next
  BY <1>5, PutCall DEF Map!Next
<1>6. ASSUME hmap_size PROVE IInv' /\ Map!Next
  BY <1>6, LookCall DEF Map!Next
<1>7. ASSUME hmap_clear PROVE IInv' /\ Map!Next
  BY <1>7, ClearCall DEF Map!Next
<1>8. ASSUME hmap_foreach_value \/ hmap_foreach_key PROVE IInv' /\ Map!Next
  BY <1>8, ForeachCall DEF Map!Next, hmap_foreach_value, hmap_foreach_key
<1>9. ASSUME CallFunction PROVE IInv' /\ Map!Next
  BY <1>9, FunctionCall DEF Map!Next
<1>10. ASSUME NextBucket PROVE IInv' /\ UNCHANGED Map!vars
  BY <1>10, NextBucketCall
<1>11. ASSUME EndOfTable PROVE IInv' /\ Map!Next
  BY <1>11, EndOfTableCall DEF Map!Next
<1>12. ASSUME hmap_iterator PROVE IInv' /\ Map!Next
  BY <1>12, IteratorCall DEF Map!Next
<1>13. ASSUME hmap_iterator_next PROVE IInv' /\ Map!Next
  BY <1>13, IteratorNextCall DEF Map!Next
<1>14. ASSUME hmap_iterator_has_next PROVE IInv' /\ Map!Next
  BY <1>14, HasNextCall DEF Map!Next
<1> QED
  BY <1>1, <1>2, <1>3, <1>4, <1>5, <1>6, <1>7, <1>8, <1>9, <1>10, <1>11, <1>12, <1>13, <1>14
     DEF Next

THEOREM Inductive == Spec => []IInv
<1>1. Init => IInv
  BY InitIInv
<1>2. IInv /\ [Next]_vars => IInv'
  BY StepIInv
<1> QED
  BY <1>1, <1>2, PTL DEF Spec

(* Every variable keeps its type: the buckets are numbered from 0 on, they   *)
(* hold entries, the threshold is that of their number, and a walk is in a   *)
(* bucket or behind the last.                                                *)
THEOREM TypeCorrect == Spec => []TypeOK
<1>1. IInv => TypeOK
  <2> SUFFICES ASSUME IInv PROVE TypeOK
    OBVIOUS
  <2>1. PICK n : n = buckets_length
    OBVIOUS
  <2>2. /\ Sound(buckets, n) /\ n \in Nat \ {0} /\ WalkIs(buckets, n, walking, c, next)
        /\ TableIs(buckets, n, threshold, size)
    BY <2>1 DEF IInv, TableIs, Sound
  <2>3. DOMAIN buckets = 0..(n - 1)
    BY <2>2 DEF Sound
  <2>4. Entries \subseteq [key : Keys, value : Values]
    BY <2>2, EntriesAre DEF Entries, EntrySet, EntryType
  <2>5. threshold = Threshold(n) /\ size \in Nat
    BY <2>2, FS_CardinalityType DEF TableIs
  <2>6. c \in 0..n /\ walking \in {"no", "value", "key", "iterator"}
    BY <2>2 DEF WalkIs
  <2> QED
    BY <2>1, <2>3, <2>4, <2>5, <2>6 DEF TypeOK
<1> QED
  BY <1>1, Inductive, PTL

(* However often the table has grown, and whatever was taken out of it       *)
(* during a walk: every entry is in the bucket its key is looked for, no key *)
(* has two entries, and size counts them and is not above the threshold.     *)
THEOREM AlwaysWellPlaced == Spec => []WellPlaced
<1>1. IInv => WellPlaced
  <2> SUFFICES ASSUME IInv PROVE WellPlaced
    OBVIOUS
  <2>1. PICK n : n = buckets_length
    OBVIOUS
  <2>2. Sound(buckets, n) /\ TableIs(buckets, n, threshold, size)
    BY <2>1 DEF IInv, TableIs
  <2>3. DOMAIN buckets = 0..(n - 1)
    BY <2>2 DEF Sound
  <2>4. ASSUME NEW i \in 0..(n - 1) PROVE DOMAIN buckets[i] = 1..Len(buckets[i])
    <3>1. buckets[i] \in Seq(EntryType)
      BY <2>2 DEF Sound
    <3> QED
      BY <3>1, LenProperties
  <2>5. KeysHeld = Keyed(EntrySet(buckets, n))
    BY <2>2, EntriesAre DEF KeysHeld, Entries, Keyed
  <2>6. size = Cardinality(KeysHeld) /\ size <= threshold
    BY <2>2, <2>5 DEF TableIs
  <2>7. \A i \in DOMAIN buckets : \A j \in DOMAIN buckets[i] :
          hmap_hash(buckets[i][j].key, buckets_length) = i
    <3> SUFFICES ASSUME NEW i \in DOMAIN buckets, NEW j \in DOMAIN buckets[i]
                 PROVE  hmap_hash(buckets[i][j].key, n) = i
      BY <2>1
    <3>1. i \in 0..(n - 1) /\ j \in 1..Len(buckets[i])
      BY <2>3, <2>4
    <3> QED
      BY <2>2, <3>1 DEF Sound
  <2>8. \A i \in DOMAIN buckets : \A j, k \in DOMAIN buckets[i] :
          buckets[i][j].key = buckets[i][k].key => j = k
    <3> SUFFICES ASSUME NEW i \in DOMAIN buckets, NEW j \in DOMAIN buckets[i],
                        NEW k \in DOMAIN buckets[i], buckets[i][j].key = buckets[i][k].key
                 PROVE  j = k
      OBVIOUS
    <3>1. i \in 0..(n - 1) /\ j \in 1..Len(buckets[i]) /\ k \in 1..Len(buckets[i])
      BY <2>3, <2>4
    <3> QED
      BY <2>2, <3>1 DEF Sound
  <2> QED
    BY <2>6, <2>7, <2>8 DEF WellPlaced
<1> QED
  BY <1>1, Inductive, PTL

(* The buckets implement the table that hmap.h promises: no key is lost,     *)
(* none comes back, and every walk comes to each key once, though the        *)
(* entries it has come to are taken out under it.                            *)
THEOREM TableImplemented == Spec => ImplementsTable
<1>1. Init => Map!Init
  BY InitIInv
<1>2. IInv /\ [Next]_vars => [Map!Next]_(Map!vars)
  BY StepIInv
<1> QED
  BY <1>1, <1>2, Inductive, PTL DEF Spec, ImplementsTable, Map!Spec

-----------------------------------------------------------------------------
(* The string buffer.                                                        *)
Memory(room) == [0..(room - 1) -> Cells]

Shape(b) == b = [buf |-> b.buf, len |-> b.len, capacity |-> b.capacity]

BufferSound(b) ==
    /\ Shape(b) /\ b.len \in Nat /\ b.capacity \in Nat
    /\ b.buf \in Memory(b.capacity)
    /\ b.len < b.capacity /\ b.buf[b.len] = NUL

-----------------------------------------------------------------------------
LEMMA ReadElements ==
    ASSUME NEW room \in Nat, NEW mem \in Memory(room), NEW at \in Nat, NEW n \in Nat
    PROVE  /\ Read(mem, at, n) \in Seq(Cells) /\ Len(Read(mem, at, n)) = n
           /\ \A i \in 1..n : at + i <= room => Read(mem, at, n)[i] = mem[at + i - 1]
<1>1. \A i \in 1..n : (IF at + i - 1 \in DOMAIN mem THEN mem[at + i - 1] ELSE Garbage) \in Cells
  BY CellsAssumption DEF Memory
<1>2. Read(mem, at, n) \in [1..n -> Cells]
  BY <1>1 DEF Read
<1>3. \A i \in 1..n : at + i <= room => Read(mem, at, n)[i] = mem[at + i - 1]
  BY DEF Read, Memory
<1> QED
  BY <1>2, <1>3

LEMMA WriteElements ==
    ASSUME NEW room \in Nat, NEW mem \in Memory(room), NEW at \in Nat, NEW str \in Seq(Cells),
           at + Len(str) <= room
    PROVE  /\ Write(mem, at, str) \in Memory(room)
           /\ \A i \in 0..(room - 1) : i < at => Write(mem, at, str)[i] = mem[i]
           /\ \A i \in 0..(room - 1) : i >= at + Len(str) => Write(mem, at, str)[i] = mem[i]
           /\ \A j \in 1..Len(str) : Write(mem, at, str)[at + j - 1] = str[j]
<1>1. Len(str) \in Nat /\ \A j \in 1..Len(str) : str[j] \in Cells
  OBVIOUS
<1>2. DOMAIN mem \cup at..(at + Len(str) - 1) = 0..(room - 1)
  BY <1>1 DEF Memory
<1>3. Write(mem, at, str) =
        [i \in 0..(room - 1) |-> IF i \in at..(at + Len(str) - 1) THEN str[i - at + 1] ELSE mem[i]]
  BY <1>2 DEF Write
<1>4. \A i \in 0..(room - 1) : (IF i \in at..(at + Len(str) - 1) THEN str[i - at + 1] ELSE mem[i]) \in Cells
  BY <1>1 DEF Memory
<1>5. Write(mem, at, str) \in Memory(room)
  BY <1>3, <1>4 DEF Memory
<1>6. \A i \in 0..(room - 1) :
        Write(mem, at, str)[i] = IF i \in at..(at + Len(str) - 1) THEN str[i - at + 1] ELSE mem[i]
  BY <1>3
<1>7. \A i \in 0..(room - 1) : (i < at \/ i >= at + Len(str)) => Write(mem, at, str)[i] = mem[i]
  BY <1>1, <1>6
<1>8. \A j \in 1..Len(str) : Write(mem, at, str)[at + j - 1] = str[j]
  <2> TAKE j \in 1..Len(str)
  <2>1. at + j - 1 \in 0..(room - 1) /\ at + j - 1 \in at..(at + Len(str) - 1) /\ (at + j - 1) - at + 1 = j
    BY <1>1
  <2> QED
    BY <2>1, <1>6
<1> QED
  BY <1>5, <1>7, <1>8

LEMMA CopiesElements ==
    ASSUME NEW times \in Nat, NEW str \in Seq(Cells)
    PROVE  Copies(times, str) \in Seq(Cells)
<1>1. Len(str) \in Nat /\ \A i \in 1..Len(str) : str[i] \in Cells
  OBVIOUS
<1>2. times * Len(str) \in Nat
  BY <1>1
<1>3. CASE Len(str) = 0
  <2>1. times * Len(str) = 0
    BY <1>3
  <2>2. 1..(times * Len(str)) = {}
    BY <2>1
  <2>3. Copies(times, str) \in [1..0 -> Cells]
    BY <2>1, <2>2 DEF Copies
  <2> QED
    BY <2>3
<1>4. CASE Len(str) > 0
  <2>1. \A i \in Nat : i % Len(str) \in 0..(Len(str) - 1)
    BY <1>1, <1>4
  <2>2. \A i \in 1..(times * Len(str)) : str[((i - 1) % Len(str)) + 1] \in Cells
    BY <1>1, <1>2, <2>1
  <2>3. Copies(times, str) \in [1..(times * Len(str)) -> Cells]
    BY <2>2 DEF Copies
  <2> QED
    BY <1>2, <2>3
<1> QED
  BY <1>1, <1>3, <1>4

-----------------------------------------------------------------------------
(* A block that is made larger keeps what it holds.                          *)
LEMMA BlockElements ==
    ASSUME NEW room \in Nat, NEW mem \in Memory(room), NEW more \in Nat, room <= more
    PROVE  /\ Block(mem, more) \in Memory(more)
           /\ \A i \in 0..(room - 1) : Block(mem, more)[i] = mem[i]
<1>1. DOMAIN mem = 0..(room - 1) /\ \A i \in 0..(room - 1) : mem[i] \in Cells
  BY DEF Memory
<1>2. Block(mem, more) = [i \in 0..(more - 1) |-> IF i \in 0..(room - 1) THEN mem[i] ELSE Garbage]
  BY <1>1 DEF Block
<1>3. \A i \in 0..(more - 1) : (IF i \in 0..(room - 1) THEN mem[i] ELSE Garbage) \in Cells
  BY <1>1, CellsAssumption
<1>4. Block(mem, more) \in Memory(more)
  BY <1>2, <1>3 DEF Memory
<1> QED
  BY <1>2, <1>4

(* The NUL of an empty text is put in again.                                 *)
LEMMA EmptyText ==
    ASSUME NEW room \in Nat, NEW mem \in Memory(room), room > 0
    PROVE  /\ Write(mem, 0, <<NUL>>) \in Memory(room)
           /\ Write(mem, 0, <<NUL>>)[0] = NUL
           /\ \A i \in 1..(room - 1) : Write(mem, 0, <<NUL>>)[i] = mem[i]
<1> DEFINE str == <<NUL>>
<1>1. str \in Seq(Cells) /\ Len(str) = 1 /\ str[1] = NUL
  BY CellsAssumption
<1> HIDE DEF str
<1>2. 0 \in Nat /\ 0 + Len(str) <= room
  BY <1>1
<1>3. /\ Write(mem, 0, str) \in Memory(room)
      /\ \A i \in 0..(room - 1) : i >= 0 + Len(str) => Write(mem, 0, str)[i] = mem[i]
      /\ \A j \in 1..Len(str) : Write(mem, 0, str)[0 + j - 1] = str[j]
  BY <1>1, <1>2, WriteElements
<1>4. Write(mem, 0, str)[0] = NUL
  <2>1. 1 \in 1..Len(str) /\ 0 + 1 - 1 = 0
    BY <1>1
  <2> QED
    BY <1>1, <1>3, <2>1
<1>5. \A i \in 1..(room - 1) : Write(mem, 0, str)[i] = mem[i]
  BY <1>1, <1>3
<1> QED
  BY <1>3, <1>4, <1>5 DEF str

LEMMA EnsureCapacitySound ==
    ASSUME NEW b, BufferSound(b), NEW min \in Nat
    PROVE  LET r == strbuf_ensure_capacity(b, min)
           IN  /\ BufferSound(r) /\ r.len = b.len /\ r.capacity >= min /\ r.capacity >= b.capacity
               /\ \A i \in 0..(b.capacity - 1) : r.buf[i] = b.buf[i]
<1> DEFINE r == strbuf_ensure_capacity(b, min)
<1>1. /\ Shape(b) /\ b.len \in Nat /\ b.capacity \in Nat /\ b.buf \in Memory(b.capacity)
      /\ b.len < b.capacity /\ b.buf[b.len] = NUL
  BY DEF BufferSound
<1>2. CASE min <= b.capacity
  <2>1. r = b
    BY <1>2 DEF strbuf_ensure_capacity
  <2> HIDE DEF r
  <2>2. BufferSound(r) /\ r.len = b.len /\ r.capacity >= min /\ r.capacity >= b.capacity /\ r.buf = b.buf
    BY <1>1, <1>2, <2>1
  <2> QED
    BY <2>2 DEF r
<1>3. CASE ~(min <= b.capacity)
  <2> DEFINE capacity == Larger(min, b.len * 2 + 2)
             mem == Block(b.buf, capacity)
             buf == IF b.len = 0 THEN Write(mem, 0, <<NUL>>) ELSE mem
  <2>1. capacity \in Nat /\ capacity >= min /\ capacity > b.capacity /\ capacity > 0
    BY <1>1, <1>3 DEF Larger
  <2>2. r = [buf |-> buf, len |-> b.len, capacity |-> capacity]
    <3>1. r = [b EXCEPT !.capacity = capacity, !.buf = buf]
      BY <1>3 DEF strbuf_ensure_capacity
    <3> HIDE DEF r, capacity, buf, mem
    <3> QED
      BY <1>1, <3>1 DEF Shape
  <2> HIDE DEF capacity
  <2>3. mem \in Memory(capacity) /\ \A i \in 0..(b.capacity - 1) : mem[i] = b.buf[i]
    <3>1. b.capacity <= capacity
      BY <1>1, <2>1
    <3> QED
      BY <1>1, <2>1, <3>1, BlockElements
  <2> HIDE DEF mem
  <2>4. buf \in Memory(capacity) /\ \A i \in 0..(b.capacity - 1) : buf[i] = b.buf[i]
    <3>1. CASE b.len = 0
      <4>1. /\ buf \in Memory(capacity) /\ buf[0] = NUL
            /\ \A i \in 1..(capacity - 1) : buf[i] = mem[i]
        BY <3>1, <2>1, <2>3, EmptyText
      <4> HIDE DEF buf
      <4>2. ASSUME NEW i \in 0..(b.capacity - 1)
            PROVE  buf[i] = b.buf[i]
        <5>1. CASE i = 0
          BY <5>1, <4>1, <3>1, <1>1
        <5>2. CASE i # 0
          <6>1. i \in 1..(capacity - 1)
            BY <5>2, <1>1, <2>1
          <6> QED
            BY <6>1, <4>1, <2>3
        <5> QED
          BY <5>1, <5>2
      <4> QED
        BY <4>1, <4>2
    <3>2. CASE b.len # 0
      <4>1. buf = mem
        BY <3>2
      <4> QED
        BY <4>1, <2>3
    <3> QED
      BY <3>1, <3>2
  <2> HIDE DEF buf, r
  <2>5. r.buf = buf /\ r.len = b.len /\ r.capacity = capacity
    BY <2>2
  <2>6. Shape(r)
    BY <2>2, <2>5 DEF Shape
  <2>7. b.len \in 0..(b.capacity - 1)
    BY <1>1
  <2>8. r.buf[r.len] = NUL
    BY <1>1, <2>4, <2>5, <2>7
  <2>9. r.len \in Nat /\ r.capacity \in Nat /\ r.len < r.capacity /\ r.buf \in Memory(r.capacity)
    BY <1>1, <2>1, <2>4, <2>5
  <2>10. BufferSound(r)
    BY <2>6, <2>8, <2>9 DEF BufferSound
  <2>11. r.capacity >= min /\ r.capacity >= b.capacity
    BY <1>1, <2>1, <2>5
  <2>12. \A i \in 0..(b.capacity - 1) : r.buf[i] = b.buf[i]
    BY <2>4, <2>5
  <2> QED
    BY <2>5, <2>10, <2>11, <2>12 DEF r
<1> QED
  BY <1>2, <1>3

-----------------------------------------------------------------------------
(* What is left of the text, with its NUL, is where MakeRoom has to put it.  *)
LEMMA MakeRoomSound ==
    ASSUME BufferSound(sb), NEW sp \in Nat, NEW ep \in Nat, NEW addlen \in Nat,
           sp <= ep, ep <= sb.len, sb.len + addlen - (ep - sp) < Modulus
    PROVE  LET r == MakeRoom(sp, ep, addlen)
           IN  /\ BufferSound(r) /\ r.len = sb.len + addlen - (ep - sp)
               /\ \A i \in 0..(sp - 1) : r.buf[i] = sb.buf[i]
               /\ \A j \in ep..sb.len : r.buf[j + addlen - (ep - sp)] = sb.buf[j]
<1> DEFINE r == MakeRoom(sp, ep, addlen)
           min == sb.len + 1 - (ep - sp) + addlen
           b == strbuf_ensure_capacity(sb, min)
           str == Read(b.buf, ep, sb.len + 1 - ep)
           mem == Write(b.buf, sp + addlen, str)
           length == sb.len + addlen - (ep - sp)
<1>1. sb.len \in Nat /\ sb.capacity \in Nat /\ sb.len < sb.capacity /\ sb.buf[sb.len] = NUL
  BY DEF BufferSound
<1>2. min \in Nat /\ length \in Nat /\ min = length + 1
  BY <1>1
<1>3. /\ BufferSound(b) /\ b.len = sb.len /\ b.capacity >= min /\ b.capacity >= sb.capacity
      /\ \A i \in 0..(sb.capacity - 1) : b.buf[i] = sb.buf[i]
  <2> HIDE DEF min
  <2> QED
    BY <1>2, EnsureCapacitySound
<1>4. r = [b EXCEPT !.buf = mem, !.len = Unsigned(b.len + addlen - (ep - sp))]
  BY DEF MakeRoom
<1> HIDE DEF b, r, min
<1>5. b.capacity \in Nat /\ b.buf \in Memory(b.capacity) /\ Shape(b)
  BY <1>3 DEF BufferSound
<1>6. Unsigned(b.len + addlen - (ep - sp)) = length
  <2>1. length \in 0..(Modulus - 1)
    BY <1>2, ModulusAssumption
  <2> HIDE DEF length
  <2>2. length % Modulus = length
    BY <2>1, ModulusAssumption
  <2> QED
    BY <1>3, <2>2 DEF Unsigned, length
<1>7. r = [buf |-> mem, len |-> length, capacity |-> b.capacity]
  <2> HIDE DEF mem, length
  <2> QED
    BY <1>4, <1>5, <1>6 DEF Shape
<1>8. /\ str \in Seq(Cells) /\ Len(str) = sb.len + 1 - ep
      /\ \A i \in 1..(sb.len + 1 - ep) : str[i] = sb.buf[ep + i - 1]
  <2>1. sb.len + 1 - ep \in Nat
    BY <1>1
  <2>2. /\ str \in Seq(Cells) /\ Len(str) = sb.len + 1 - ep
        /\ \A i \in 1..(sb.len + 1 - ep) : ep + i <= b.capacity => str[i] = b.buf[ep + i - 1]
    BY <2>1, <1>5, ReadElements, ZenonT(60)
  <2> HIDE DEF str
  <2>3. ASSUME NEW i \in 1..(sb.len + 1 - ep)
        PROVE  str[i] = sb.buf[ep + i - 1]
    <3>1. ep + i - 1 \in 0..(sb.capacity - 1) /\ ep + i <= b.capacity
      BY <1>1, <1>3, <1>5
    <3> QED
      BY <3>1, <2>2, <1>3
  <2> QED
    BY <2>2, <2>3
<1> HIDE DEF str
<1>9. /\ mem \in Memory(b.capacity)
      /\ \A i \in 0..(b.capacity - 1) : i < sp + addlen => mem[i] = b.buf[i]
      /\ \A j \in 1..Len(str) : mem[sp + addlen + j - 1] = str[j]
  <2> DEFINE at == sp + addlen
  <2>1. at \in Nat /\ at + Len(str) <= b.capacity
    <3>1. b.capacity >= length + 1 /\ b.capacity \in Nat
      BY <1>2, <1>3, <1>5
    <3>2. Len(str) = sb.len + 1 - ep /\ sb.len \in Nat
      BY <1>1, <1>8
    <3> QED
      BY <3>1, <3>2
  <2> HIDE DEF at
  <2>2. /\ Write(b.buf, at, str) \in Memory(b.capacity)
        /\ \A i \in 0..(b.capacity - 1) : i < at => Write(b.buf, at, str)[i] = b.buf[i]
        /\ \A j \in 1..Len(str) : Write(b.buf, at, str)[at + j - 1] = str[j]
    BY <2>1, <1>5, <1>8, WriteElements, ZenonT(60)
  <2> QED
    BY <2>2 DEF at
<1> HIDE DEF mem
<1>10. \A i \in 0..(sp - 1) : mem[i] = sb.buf[i]
  <2> TAKE i \in 0..(sp - 1)
  <2>1. i \in 0..(sb.capacity - 1) /\ i \in 0..(b.capacity - 1) /\ i < sp + addlen
    BY <1>1, <1>3, <1>5
  <2> QED
    BY <2>1, <1>3, <1>9
<1>11. \A j \in ep..sb.len : mem[j + addlen - (ep - sp)] = sb.buf[j]
  <2> TAKE j \in ep..sb.len
  <2>1. j - ep + 1 \in 1..Len(str) /\ j - ep + 1 \in 1..(sb.len + 1 - ep)
    BY <1>1, <1>8
  <2>2. sp + addlen + (j - ep + 1) - 1 = j + addlen - (ep - sp) /\ ep + (j - ep + 1) - 1 = j
    BY <1>1
  <2>3. mem[sp + addlen + (j - ep + 1) - 1] = str[j - ep + 1]
    BY <2>1, <1>9
  <2>4. str[j - ep + 1] = sb.buf[ep + (j - ep + 1) - 1]
    BY <2>1, <1>8
  <2> QED
    BY <2>2, <2>3, <2>4
<1> HIDE DEF length
<1>12. r.buf = mem /\ r.len = length /\ r.capacity = b.capacity
  BY <1>7
<1>13. mem[length] = NUL
  <2>1. sb.len \in ep..sb.len /\ length = sb.len + addlen - (ep - sp)
    BY <1>1 DEF length
  <2> QED
    BY <1>1, <1>11, <2>1
<1>14. length < b.capacity
  BY <1>2, <1>3, <1>5
<1>15. BufferSound(r)
  BY <1>2, <1>5, <1>7, <1>9, <1>12, <1>13, <1>14 DEF BufferSound, Shape
<1> QED
  BY <1>10, <1>11, <1>12, <1>15 DEF r, length

-----------------------------------------------------------------------------
TextOf(b) == Read(b.buf, 0, b.len)

(* The text of a buffer is what lies before the NUL.                         *)
LEMMA TextElements ==
    ASSUME NEW b, BufferSound(b)
    PROVE  /\ TextOf(b) \in Seq(Cells) /\ Len(TextOf(b)) = b.len
           /\ \A i \in 1..b.len : TextOf(b)[i] = b.buf[i - 1]
<1>1. b.len \in Nat /\ b.capacity \in Nat /\ b.buf \in Memory(b.capacity) /\ b.len < b.capacity
  BY DEF BufferSound
<1> DEFINE at == 0
<1>2. at \in Nat /\ at = 0
  OBVIOUS
<1> HIDE DEF at
<1>3. /\ Read(b.buf, at, b.len) \in Seq(Cells) /\ Len(Read(b.buf, at, b.len)) = b.len
      /\ \A i \in 1..b.len : at + i <= b.capacity => Read(b.buf, at, b.len)[i] = b.buf[at + i - 1]
  BY <1>1, <1>2, ReadElements, ZenonT(60)
<1>4. \A i \in 1..b.len : at + i <= b.capacity /\ at + i - 1 = i - 1
  BY <1>1, <1>2
<1>5. TextOf(b) = Read(b.buf, at, b.len)
  BY <1>2 DEF TextOf
<1> QED
  BY <1>3, <1>4, <1>5

LEMMA TextEqual ==
    ASSUME NEW b, BufferSound(b), NEW t \in Seq(Cells), Len(t) = b.len,
           \A i \in 1..b.len : t[i] = b.buf[i - 1]
    PROVE  TextOf(b) = t
  BY TextElements, SeqEqual

(* normalize_strbuf_pos says the same of the buffer and of its text.         *)
LEMMA PositionsInText ==
    ASSUME BufferSound(sb), NEW p \in 0..(Modulus - 1), NEW q \in 0..(Modulus - 1)
    PROVE  /\ Start(p, q) \in Nat /\ End(p, q) \in Nat
           /\ Start(p, q) <= End(p, q) /\ End(p, q) <= sb.len
           /\ Smaller(normalize_strbuf_pos(TheText, p), normalize_strbuf_pos(TheText, q)) = Start(p, q)
           /\ Larger(normalize_strbuf_pos(TheText, p), normalize_strbuf_pos(TheText, q)) = End(p, q)
<1>1. sb.len \in Nat
  BY DEF BufferSound
<1>2. Len(TheText) = sb.len
  BY TextElements DEF TheText, TextOf
<1>3. Unsigned(p) \in Nat /\ Unsigned(q) \in Nat
  BY ModulusAssumption DEF Unsigned
<1>4. Smaller(Unsigned(p), sb.len) \in 0..sb.len /\ Smaller(Unsigned(q), sb.len) \in 0..sb.len
  BY <1>1, <1>3 DEF Smaller
<1>5. /\ normalize_strbuf_pos(TheText, p) = Smaller(Unsigned(p), sb.len)
      /\ normalize_strbuf_pos(TheText, q) = Smaller(Unsigned(q), sb.len)
  BY <1>2 DEF normalize_strbuf_pos
<1> DEFINE x == Smaller(Unsigned(p), sb.len)
           y == Smaller(Unsigned(q), sb.len)
<1>6. Start(p, q) = Smaller(x, y) /\ End(p, q) = Larger(x, y)
  BY DEF Start, End
<1>7. x \in 0..sb.len /\ y \in 0..sb.len
  BY <1>4
<1> HIDE DEF x, y
<1>8. /\ Smaller(x, y) \in Nat /\ Larger(x, y) \in Nat
      /\ Smaller(x, y) <= Larger(x, y) /\ Larger(x, y) <= sb.len
  BY <1>1, <1>7 DEF Smaller, Larger
<1> QED
  BY <1>5, <1>6, <1>8 DEF x, y

(* Where each character of a text comes from when a part of it is replaced.  *)
LEMMA ReplaceElements ==
    ASSUME NEW old \in Seq(Cells), NEW new \in Seq(Cells), NEW sp \in Nat, NEW ep \in Nat,
           sp <= ep, ep <= Len(old)
    PROVE  LET t == SubSeq(old, 1, sp) \o new \o SubSeq(old, ep + 1, Len(old))
           IN  /\ t \in Seq(Cells) /\ Len(t) = Len(old) + Len(new) - (ep - sp)
               /\ \A i \in 1..sp : t[i] = old[i]
               /\ \A j \in 1..Len(new) : t[sp + j] = new[j]
               /\ \A i \in (ep + 1)..Len(old) : t[i + Len(new) - (ep - sp)] = old[i]
<1> DEFINE a == SubSeq(old, 1, sp)
           suffix == SubSeq(old, ep + 1, Len(old))
<1>1. Len(old) \in Nat /\ Len(new) \in Nat /\ \A i \in 1..Len(old) : old[i] \in Cells
  OBVIOUS
<1>2. a \in Seq(Cells) /\ Len(a) = sp /\ \A i \in 1..sp : a[i] = old[i]
  <2>1. \A i \in 1..sp : old[i] \in Cells
    BY <1>1
  <2>2. a \in Seq(Cells) /\ Len(a) = (IF 1 <= sp THEN sp - 1 + 1 ELSE 0)
        /\ \A i \in 1..(sp - 1 + 1) : a[i] = old[1 + i - 1]
    BY <2>1, SubSeqProperties
  <2> HIDE DEF a
  <2> QED
    BY <2>2
<1>3. /\ suffix \in Seq(Cells) /\ Len(suffix) = Len(old) - ep
      /\ \A i \in 1..(Len(old) - ep) : suffix[i] = old[ep + i]
  <2> DEFINE m == ep + 1
             n == Len(old)
  <2>1. m \in Int /\ n \in Int /\ \A i \in m..n : old[i] \in Cells
    BY <1>1
  <2> HIDE DEF m, n
  <2>2. /\ SubSeq(old, m, n) \in Seq(Cells)
        /\ Len(SubSeq(old, m, n)) = (IF m <= n THEN n - m + 1 ELSE 0)
        /\ \A i \in 1..(n - m + 1) : SubSeq(old, m, n)[i] = old[m + i - 1]
    BY <2>1, SubSeqProperties
  <2>3. suffix = SubSeq(old, m, n)
    BY DEF m, n
  <2> HIDE DEF suffix
  <2>4. n - m + 1 = Len(old) - ep /\ \A i \in 1..(Len(old) - ep) : m + i - 1 = ep + i
    BY <1>1 DEF m, n
  <2>5. (IF m <= n THEN n - m + 1 ELSE 0) = Len(old) - ep
    BY <1>1 DEF m, n
  <2> QED
    BY <2>2, <2>3, <2>4, <2>5
<1> HIDE DEF a, suffix
<1>4. /\ a \o new \in Seq(Cells) /\ Len(a \o new) = sp + Len(new)
      /\ \A i \in 1..(sp + Len(new)) : (a \o new)[i] = IF i <= sp THEN a[i] ELSE new[i - sp]
  BY <1>2, ConcatProperties
<1> DEFINE u == a \o new
<1> HIDE DEF u
<1>5. u \in Seq(Cells) /\ suffix \in Seq(Cells) /\ Len(u) = sp + Len(new)
  BY <1>3, <1>4 DEF u
<1>6. /\ u \o suffix \in Seq(Cells) /\ Len(u \o suffix) = Len(u) + Len(suffix)
      /\ \A i \in 1..(Len(u) + Len(suffix)) : (u \o suffix)[i] = IF i <= Len(u) THEN u[i] ELSE suffix[i - Len(u)]
  <2>1. u \in Seq(Cells) /\ suffix \in Seq(Cells)
    BY <1>5
  <2> QED
    BY <2>1, ConcatProperties
<1> DEFINE t == (a \o new) \o suffix
<1>7. t = u \o suffix
  BY DEF u
<1> HIDE DEF t
<1>8. t \in Seq(Cells) /\ Len(t) = Len(old) + Len(new) - (ep - sp)
  BY <1>1, <1>3, <1>5, <1>6, <1>7
<1>9. \A i \in 1..sp : t[i] = old[i]
  <2> TAKE i \in 1..sp
  <2>1. i \in 1..(Len(u) + Len(suffix)) /\ i <= Len(u) /\ i \in 1..(sp + Len(new)) /\ i <= sp
    BY <1>1, <1>3, <1>5
  <2>2. t[i] = u[i]
    BY <2>1, <1>6, <1>7
  <2>3. u[i] = a[i]
    BY <2>1, <1>4 DEF u
  <2> QED
    BY <2>2, <2>3, <1>2
<1>10. \A j \in 1..Len(new) : t[sp + j] = new[j]
  <2> TAKE j \in 1..Len(new)
  <2>1. /\ sp + j \in 1..(Len(u) + Len(suffix)) /\ sp + j <= Len(u)
        /\ sp + j \in 1..(sp + Len(new)) /\ ~(sp + j <= sp) /\ (sp + j) - sp = j
    BY <1>1, <1>3, <1>5
  <2>2. t[sp + j] = u[sp + j]
    BY <2>1, <1>6, <1>7
  <2>3. u[sp + j] = new[(sp + j) - sp]
    BY <2>1, <1>4 DEF u
  <2> QED
    BY <2>1, <2>2, <2>3
<1>11. \A i \in (ep + 1)..Len(old) : t[i + Len(new) - (ep - sp)] = old[i]
  <2> TAKE i \in (ep + 1)..Len(old)
  <2> DEFINE k == i + Len(new) - (ep - sp)
  <2>1. k \in 1..(Len(u) + Len(suffix)) /\ ~(k <= Len(u)) /\ k - Len(u) = i - ep
    BY <1>1, <1>3, <1>5
  <2>2. i - ep \in 1..(Len(old) - ep) /\ ep + (i - ep) = i
    BY <1>1
  <2> HIDE DEF k
  <2>3. t[k] = suffix[k - Len(u)]
    BY <2>1, <1>6, <1>7
  <2>4. suffix[i - ep] = old[ep + (i - ep)]
    BY <2>2, <1>3
  <2>5. t[k] = old[i]
    BY <2>1, <2>2, <2>3, <2>4
  <2> QED
    BY <2>5 DEF k
<1> QED
  BY <1>8, <1>9, <1>10, <1>11 DEF t, a, suffix

-----------------------------------------------------------------------------
(* strbuf_replace_data_n does to the memory what replacing does to the text. *)
LEMMA ReplaceKeepsSound ==
    ASSUME BufferSound(sb), NEW sp \in Nat, NEW ep \in Nat, NEW data \in Seq(Cells),
           sp <= ep, ep <= sb.len, sb.len + Len(data) - (ep - sp) < Modulus
    PROVE  LET b == IF Len(data) = ep - sp THEN sb ELSE MakeRoom(sp, ep, Len(data))
               r == [b EXCEPT !.buf = Write(b.buf, sp, data)]
           IN  /\ BufferSound(r) /\ r.len = sb.len + Len(data) - (ep - sp)
               /\ TextOf(r) = SubSeq(TheText, 1, sp) \o data \o SubSeq(TheText, ep + 1, Len(TheText))
<1> DEFINE b == IF Len(data) = ep - sp THEN sb ELSE MakeRoom(sp, ep, Len(data))
           mem == Write(b.buf, sp, data)
           r == [b EXCEPT !.buf = mem]
           t == SubSeq(TheText, 1, sp) \o data \o SubSeq(TheText, ep + 1, Len(TheText))
           n == Len(data)
<1>1. n \in Nat /\ sb.len \in Nat /\ sb.capacity \in Nat /\ sb.len < sb.capacity
  BY DEF BufferSound
<1>2. /\ BufferSound(b) /\ b.len = sb.len + n - (ep - sp)
      /\ \A i \in 0..(sp - 1) : b.buf[i] = sb.buf[i]
      /\ \A j \in ep..sb.len : b.buf[j + n - (ep - sp)] = sb.buf[j]
  <2>1. CASE n = ep - sp
    <3>1. b = sb
      BY <2>1
    <3>2. b.len = sb.len + n - (ep - sp) /\ \A j \in ep..sb.len : j + n - (ep - sp) = j
      BY <1>1, <2>1, <3>1
    <3> HIDE DEF b
    <3> QED
      BY <3>1, <3>2
  <2>2. CASE n # ep - sp
    <3>1. b = MakeRoom(sp, ep, n)
      BY <2>2
    <3> HIDE DEF b, n
    <3> QED
      BY <1>1, <3>1, MakeRoomSound DEF n
  <2> QED
    BY <2>1, <2>2
<1> HIDE DEF b
<1>3. /\ Shape(b) /\ b.capacity \in Nat /\ b.buf \in Memory(b.capacity)
      /\ b.len \in Nat /\ b.len < b.capacity /\ b.buf[b.len] = NUL
  BY <1>2 DEF BufferSound
<1>4. /\ mem \in Memory(b.capacity)
      /\ \A i \in 0..(b.capacity - 1) : i < sp => mem[i] = b.buf[i]
      /\ \A i \in 0..(b.capacity - 1) : i >= sp + n => mem[i] = b.buf[i]
      /\ \A j \in 1..n : mem[sp + j - 1] = data[j]
  <2>1. sp + Len(data) <= b.capacity
    BY <1>1, <1>2, <1>3
  <2> QED
    BY <2>1, <1>3, WriteElements
<1> HIDE DEF mem
<1>5. r = [buf |-> mem, len |-> b.len, capacity |-> b.capacity]
  BY <1>3 DEF Shape
<1>6. r.buf = mem /\ r.len = b.len /\ r.capacity = b.capacity
  BY <1>5
<1> HIDE DEF r
<1>7. mem[b.len] = NUL
  <2>1. b.len \in 0..(b.capacity - 1) /\ b.len >= sp + n
    BY <1>1, <1>2, <1>3
  <2> QED
    BY <2>1, <1>3, <1>4
<1>8. BufferSound(r)
  BY <1>3, <1>4, <1>5, <1>6, <1>7 DEF BufferSound, Shape
<1>9. TheText \in Seq(Cells) /\ Len(TheText) = sb.len /\ \A i \in 1..sb.len : TheText[i] = sb.buf[i - 1]
  BY TextElements DEF TheText, TextOf
<1>10. /\ t \in Seq(Cells) /\ Len(t) = Len(TheText) + n - (ep - sp)
       /\ \A i \in 1..sp : t[i] = TheText[i]
       /\ \A j \in 1..n : t[sp + j] = data[j]
       /\ \A i \in (ep + 1)..Len(TheText) : t[i + n - (ep - sp)] = TheText[i]
  <2> DEFINE old == TheText
  <2>1. old \in Seq(Cells) /\ ep <= Len(old)
    BY <1>9
  <2> HIDE DEF old
  <2>2. LET s == SubSeq(old, 1, sp) \o data \o SubSeq(old, ep + 1, Len(old))
        IN  /\ s \in Seq(Cells) /\ Len(s) = Len(old) + Len(data) - (ep - sp)
            /\ \A i \in 1..sp : s[i] = old[i]
            /\ \A j \in 1..Len(data) : s[sp + j] = data[j]
            /\ \A i \in (ep + 1)..Len(old) : s[i + Len(data) - (ep - sp)] = old[i]
    BY <2>1, ReplaceElements, ZenonT(60)
  <2> QED
    BY <2>2 DEF old
<1> HIDE DEF t, n
<1>11. Len(t) = r.len
  BY <1>2, <1>6, <1>9, <1>10
<1>12. ASSUME NEW i \in 1..r.len
       PROVE  t[i] = mem[i - 1]
  <2>1. i \in 1..(sb.len + n - (ep - sp))
    BY <1>2, <1>6
  <2>2. CASE i <= sp
    <3>1. i \in 1..sp /\ i \in 1..sb.len /\ i - 1 \in 0..(sp - 1) /\ i - 1 \in 0..(b.capacity - 1) /\ i - 1 < sp
      BY <1>1, <1>2, <1>3, <2>1, <2>2, SMTT(40)
    <3> QED
      BY <3>1, <1>2, <1>4, <1>9, <1>10
  <2>3. CASE sp < i /\ i <= sp + n
    <3>1. i - sp \in 1..n /\ sp + (i - sp) = i /\ sp + (i - sp) - 1 = i - 1
      BY <1>1, <2>1, <2>3
    <3>2. t[sp + (i - sp)] = data[i - sp] /\ mem[sp + (i - sp) - 1] = data[i - sp]
      BY <3>1, <1>4, <1>10
    <3> QED
      BY <3>1, <3>2
  <2>4. CASE sp + n < i
    <3> DEFINE k == i - n + (ep - sp)
    <3>1. /\ k \in (ep + 1)..sb.len /\ k \in 1..sb.len /\ k + n - (ep - sp) = i
          /\ k - 1 \in ep..sb.len /\ (k - 1) + n - (ep - sp) = i - 1
          /\ i - 1 \in 0..(b.capacity - 1) /\ i - 1 >= sp + n
      BY <1>1, <1>2, <1>3, <2>1, <2>4, SMTT(40)
    <3> HIDE DEF k
    <3>2. t[k + n - (ep - sp)] = TheText[k]
      BY <3>1, <1>9, <1>10
    <3>3. b.buf[(k - 1) + n - (ep - sp)] = sb.buf[k - 1]
      BY <3>1, <1>2
    <3>4. mem[i - 1] = b.buf[i - 1] /\ TheText[k] = sb.buf[k - 1]
      BY <3>1, <1>4, <1>9
    <3> QED
      BY <3>1, <3>2, <3>3, <3>4
  <2>5. i <= sp \/ (sp < i /\ i <= sp + n) \/ sp + n < i
    BY <1>1, <2>1
  <2> QED
    BY <2>2, <2>3, <2>4, <2>5
<1>13. TextOf(r) = t
  <2>1. \A i \in 1..r.len : t[i] = r.buf[i - 1]
    BY <1>6, <1>12
  <2> QED
    BY <2>1, <1>8, <1>10, <1>11, TextEqual
<1>14. r.len = sb.len + n - (ep - sp)
  BY <1>2, <1>6
<1> QED
  BY <1>8, <1>13, <1>14 DEF r, mem, b, t, n

-----------------------------------------------------------------------------
(* A buffer with other contents and another length.                          *)
LEMMA BufferChanged ==
    ASSUME NEW b, Shape(b), NEW mem, NEW n, NEW r, r = [b EXCEPT !.buf = mem, !.len = n]
    PROVE  r = [buf |-> mem, len |-> n, capacity |-> b.capacity]
  BY DEF Shape

LEMMA NewBlock ==
    ASSUME NEW capacity \in Nat, capacity > 0
    PROVE  LET b == strbuf_new_with_capacity(capacity)
           IN  BufferSound(b) /\ b.len = 0 /\ b.capacity = capacity
<1> DEFINE block == Block(NoMemory, capacity)
           mem == Write(block, 0, <<NUL>>)
           b == [buf |-> mem, len |-> 0, capacity |-> capacity]
<1>1. block \in Memory(capacity)
  <2>1. 0 \in Nat /\ 0 <= capacity
    OBVIOUS
  <2>2. NoMemory \in Memory(0)
    BY DEF NoMemory, Memory
  <2> QED
    BY <2>1, <2>2, BlockElements
<1> HIDE DEF block
<1>2. mem \in Memory(capacity) /\ mem[0] = NUL
  BY <1>1, EmptyText
<1> HIDE DEF mem
<1>3. BufferSound(b)
  BY <1>2 DEF BufferSound, Shape
<1> QED
  BY <1>3 DEF strbuf_new_with_capacity, mem, block

LEMMA NewData ==
    ASSUME NEW data \in Seq(Cells)
    PROVE  LET b   == strbuf_new_with_capacity(Len(data) + 1)
               mem == Write(b.buf, 0, data)
               r   == [b EXCEPT !.buf = Write(mem, Len(data), <<NUL>>), !.len = Len(data)]
           IN  BufferSound(r) /\ r.len = Len(data) /\ TextOf(r) = data
<1> DEFINE n   == Len(data)
           b   == strbuf_new_with_capacity(n + 1)
           mem == Write(b.buf, 0, data)
           end == Write(mem, n, <<NUL>>)
           r   == [b EXCEPT !.buf = end, !.len = n]
<1>1. n \in Nat /\ n + 1 \in Nat /\ n + 1 > 0
  OBVIOUS
<1>2. BufferSound(b) /\ b.capacity = n + 1
  <2> DEFINE suffix == n + 1
  <2>1. suffix \in Nat /\ suffix > 0
    BY <1>1
  <2> HIDE DEF suffix
  <2>2. BufferSound(strbuf_new_with_capacity(suffix)) /\ strbuf_new_with_capacity(suffix).capacity = suffix
    BY <2>1, NewBlock
  <2> QED
    BY <2>2 DEF suffix
<1> HIDE DEF b
<1>3. Shape(b) /\ b.buf \in Memory(n + 1)
  BY <1>2 DEF BufferSound
<1>4. /\ mem \in Memory(n + 1)
      /\ \A j \in 1..n : mem[j - 1] = data[j]
  <2> DEFINE at == 0
             room == n + 1
  <2>1. at \in Nat /\ at = 0 /\ room \in Nat /\ at + Len(data) <= room
    BY <1>1
  <2>2. b.buf \in Memory(room)
    BY <1>3
  <2> HIDE DEF at, room
  <2>3. /\ Write(b.buf, at, data) \in Memory(room)
        /\ \A j \in 1..Len(data) : Write(b.buf, at, data)[at + j - 1] = data[j]
    BY <2>1, <2>2, WriteElements
  <2>4. mem = Write(b.buf, at, data)
    BY <2>1
  <2>5. \A j \in 1..Len(data) : at + j - 1 = j - 1
    BY <2>1
  <2> HIDE DEF mem
  <2> QED
    BY <2>3, <2>4, <2>5 DEF room
<1> HIDE DEF mem
<1>5. /\ end \in Memory(n + 1) /\ end[n] = NUL
      /\ \A i \in 0..n : i < n => end[i] = mem[i]
  <2> DEFINE str == <<NUL>>
             room == n + 1
  <2>1. str \in Seq(Cells) /\ Len(str) = 1 /\ str[1] = NUL
    BY CellsAssumption
  <2>2. room \in Nat /\ mem \in Memory(room) /\ n + Len(str) <= room
    BY <1>1, <1>4, <2>1
  <2>3. end = Write(mem, n, str)
    OBVIOUS
  <2> HIDE DEF str, room, n, end
  <2>4. /\ Write(mem, n, str) \in Memory(room)
        /\ \A i \in 0..(room - 1) : i < n => Write(mem, n, str)[i] = mem[i]
        /\ \A j \in 1..Len(str) : Write(mem, n, str)[n + j - 1] = str[j]
    BY <1>1, <2>1, <2>2, WriteElements, ZenonT(60)
  <2>5. 1 \in 1..Len(str) /\ n + 1 - 1 = n /\ room - 1 = n
    BY <1>1, <2>1 DEF room
  <2>6. end[n] = NUL
    BY <2>1, <2>3, <2>4, <2>5
  <2>7. \A i \in 0..n : i < n => end[i] = mem[i]
    BY <2>3, <2>4, <2>5
  <2> QED
    BY <2>3, <2>4, <2>6, <2>7 DEF room
<1> HIDE DEF end
<1>6. r = [buf |-> end, len |-> n, capacity |-> n + 1]
  <2> HIDE DEF n
  <2> QED
    BY <1>2, <1>3, BufferChanged
<1>7. r.buf = end /\ r.len = n /\ r.capacity = n + 1
  BY <1>6
<1> HIDE DEF r
<1>8. BufferSound(r)
  <2> HIDE DEF n
  <2> QED
    BY <1>1, <1>5, <1>6, <1>7 DEF BufferSound, Shape
<1>9. \A i \in 1..n : data[i] = end[i - 1]
  <2> TAKE i \in 1..n
  <2>1. i - 1 \in 0..n /\ i - 1 < n
    BY <1>1
  <2> QED
    BY <2>1, <1>4, <1>5
<1>10. TextOf(r) = data
  <2>1. Len(data) = r.len /\ \A i \in 1..r.len : data[i] = r.buf[i - 1]
    BY <1>7, <1>9
  <2> QED
    BY <1>8, <2>1, TextEqual
<1> QED
  BY <1>7, <1>8, <1>10 DEF r, end, mem, b

LEMMA SetLengthSound ==
    ASSUME BufferSound(sb), NEW length \in Nat
    PROVE  LET b == strbuf_ensure_capacity(sb, length + 1)
               r == [b EXCEPT !.buf = Write(b.buf, length, <<NUL>>), !.len = length]
           IN  /\ BufferSound(r) /\ r.len = length
               /\ \A i \in 1..length : i <= sb.len => TextOf(r)[i] = TheText[i]
<1> DEFINE b == strbuf_ensure_capacity(sb, length + 1)
           str == <<NUL>>
           mem == Write(b.buf, length, str)
           r == [b EXCEPT !.buf = mem, !.len = length]
<1>1. sb.len \in Nat /\ sb.capacity \in Nat /\ sb.len < sb.capacity
  BY DEF BufferSound
<1>2. /\ BufferSound(b) /\ b.capacity >= length + 1 /\ b.capacity >= sb.capacity
      /\ \A i \in 0..(sb.capacity - 1) : b.buf[i] = sb.buf[i]
  <2> DEFINE min == length + 1
  <2>1. min \in Nat
    OBVIOUS
  <2> HIDE DEF min
  <2>2. LET suffix == strbuf_ensure_capacity(sb, min)
        IN  /\ BufferSound(suffix) /\ suffix.capacity >= min /\ suffix.capacity >= sb.capacity
            /\ \A i \in 0..(sb.capacity - 1) : suffix.buf[i] = sb.buf[i]
    BY <2>1, EnsureCapacitySound
  <2> QED
    BY <2>2 DEF min
<1> HIDE DEF b
<1>3. Shape(b) /\ b.capacity \in Nat /\ b.buf \in Memory(b.capacity)
  BY <1>2 DEF BufferSound
<1>4. str \in Seq(Cells) /\ Len(str) = 1 /\ str[1] = NUL
  BY CellsAssumption
<1> HIDE DEF str
<1>5. /\ mem \in Memory(b.capacity) /\ mem[length] = NUL
      /\ \A i \in 0..(b.capacity - 1) : i < length => mem[i] = b.buf[i]
  <2>1. length + Len(str) <= b.capacity
    BY <1>2, <1>3, <1>4
  <2>2. /\ mem \in Memory(b.capacity)
        /\ \A i \in 0..(b.capacity - 1) : i < length => mem[i] = b.buf[i]
        /\ \A j \in 1..Len(str) : mem[length + j - 1] = str[j]
    BY <1>3, <1>4, <2>1, WriteElements
  <2>3. 1 \in 1..Len(str) /\ length + 1 - 1 = length
    BY <1>4
  <2> HIDE DEF mem
  <2> QED
    BY <1>4, <2>2, <2>3
<1> HIDE DEF mem
<1>6. r = [buf |-> mem, len |-> length, capacity |-> b.capacity]
  BY <1>3, BufferChanged
<1>7. r.buf = mem /\ r.len = length /\ r.capacity = b.capacity
  BY <1>6
<1> HIDE DEF r
<1>8. length < b.capacity
  BY <1>2, <1>3
<1>9. BufferSound(r)
  BY <1>3, <1>5, <1>6, <1>7, <1>8 DEF BufferSound, Shape
<1>10. ASSUME NEW i \in 1..length, i <= sb.len
       PROVE  TextOf(r)[i] = TheText[i]
  <2>1. /\ i - 1 \in 0..(b.capacity - 1) /\ i - 1 < length /\ i - 1 \in 0..(sb.capacity - 1)
        /\ i \in 1..r.len /\ i \in 1..sb.len
    BY <1>1, <1>3, <1>7, <1>8, <1>10
  <2>2. TextOf(r)[i] = mem[i - 1]
    BY <1>7, <1>9, <2>1, TextElements
  <2>3. TheText[i] = sb.buf[i - 1]
    BY <2>1, TextElements DEF TheText, TextOf
  <2> QED
    BY <1>2, <1>5, <2>1, <2>2, <2>3
<1> QED
  BY <1>7, <1>9, <1>10 DEF r, mem, str, b

-----------------------------------------------------------------------------
(* The inductive invariant: there is no buffer, or one that is sound.        *)
BufferIInv == sb = Freed \/ (BufferSound(sb) /\ sb.len <= MaxLen)

LEMMA AliveSound ==
    ASSUME BufferIInv, Alive
    PROVE  BufferSound(sb) /\ sb.len <= MaxLen
<1>1. sb # Freed
  BY DEF Alive, Freed
<1> QED
  BY <1>1 DEF BufferIInv

LEMMA NoText ==
    ASSUME BufferIInv, ~Alive
    PROVE  sb = Freed
<1>1. BufferSound(sb) => sb.capacity > 0
  BY DEF BufferSound
<1> QED
  BY <1>1 DEF BufferIInv, Alive

LEMMA IInvHolds ==
    ASSUME BufferIInv
    PROVE  BufferTypeOK /\ Bounded
<1>1. CASE sb = Freed
  <2>1. NoMemory \in [0..(0 - 1) -> Cells] /\ DOMAIN NoMemory = 0..(0 - 1)
    BY DEF NoMemory
  <2>2. sb.buf = NoMemory /\ sb.len = 0 /\ sb.capacity = 0
    BY <1>1 DEF Freed
  <2>3. BufferTypeOK
    BY <1>1, <2>1, <2>2, SizesAssumption DEF BufferTypeOK, Freed
  <2>4. Bounded
    BY <1>1, <2>1, <2>2 DEF Bounded, Alive
  <2> QED
    BY <2>3, <2>4
<1>2. CASE BufferSound(sb) /\ sb.len <= MaxLen
  <2>1. /\ Shape(sb) /\ sb.len \in Nat /\ sb.capacity \in Nat /\ sb.buf \in [0..(sb.capacity - 1) -> Cells]
        /\ sb.len < sb.capacity /\ sb.buf[sb.len] = NUL
    BY <1>2 DEF BufferSound, Memory
  <2>2. DOMAIN sb.buf = 0..(sb.capacity - 1)
    BY <2>1
  <2>3. sb \in [buf : {sb.buf}, len : 0..MaxLen, capacity : Nat]
    <3>1. sb.buf \in {sb.buf} /\ sb.len \in 0..MaxLen
      BY <1>2, <2>1, SizesAssumption
    <3> QED
      BY <2>1, <3>1 DEF Shape
  <2>4. BufferTypeOK
    BY <2>1, <2>2, <2>3 DEF BufferTypeOK
  <2>5. Bounded
    BY <2>1, <2>2 DEF Bounded, Alive
  <2> QED
    BY <2>4, <2>5
<1> QED
  BY <1>1, <1>2 DEF BufferIInv

-----------------------------------------------------------------------------
(* One lemma for each call: it keeps the invariant, and is a call of Text.   *)
LEMMA StepNew ==
    ASSUME BufferIInv, strbuf_new
    PROVE  BufferIInv' /\ Abstract!Next
<1>1. BufferSound(sb') /\ sb'.len = 0
  <2>1. StrBufCapacity \in Nat /\ StrBufCapacity > 0
    BY SizesAssumption
  <2>2. BufferSound(strbuf_new_with_capacity(StrBufCapacity)) /\ strbuf_new_with_capacity(StrBufCapacity).len = 0
    BY <2>1, NewBlock
  <2> QED
    BY <2>2 DEF strbuf_new
<1>2. BufferIInv'
  BY <1>1, SizesAssumption DEF BufferIInv, BufferSound, Shape, Memory
<1>3. TheText' = <<>>
  <2>1. TextOf(sb') \in Seq(Cells) /\ Len(TextOf(sb')) = 0
    BY <1>1, TextElements
  <2> QED
    BY <2>1 DEF TextOf, TheText
<1>4. Abstract!Copies(0, <<>>) = <<>>
  <2>1. 0 * Len(<<>>) = 0
    OBVIOUS
  <2>2. Abstract!Copies(0, <<>>) \in [1..0 -> Cells]
    BY <2>1 DEF Abstract!Copies
  <2> QED
    BY <2>2
<1>5. call' = [op |-> "new", times |-> 0, str |-> <<>>] /\ returned' = <<>>
  BY DEF strbuf_new, Returns
<1>6. call'.op = "new" /\ call'.times = 0 /\ call'.str = <<>>
  BY <1>5
<1>7. Abstract!New
  BY <1>3, <1>4, <1>5, <1>6 DEF Abstract!New
<1> QED
  BY <1>2, <1>7 DEF Abstract!Next

LEMMA StepNewFrom ==
    ASSUME BufferIInv, NEW times \in Numbers, NEW str \in Strings, strbuf_new_from_data_n(times, str)
    PROVE  BufferIInv' /\ Abstract!Next
<1> DEFINE data == Copies(times, str)
<1>1. data \in Seq(Cells)
  BY CellsAssumption, SizesAssumption, CopiesElements
<1>2. BufferSound(sb') /\ sb'.len = Len(data) /\ TextOf(sb') = data
  <2>1. LET b   == strbuf_new_with_capacity(Len(data) + 1)
            mem == Write(b.buf, 0, data)
        IN  sb' = [b EXCEPT !.buf = Write(mem, Len(data), <<NUL>>), !.len = Len(data)]
    BY DEF strbuf_new_from_data_n
  <2> HIDE DEF data
  <2> QED
    BY <1>1, <2>1, NewData
<1>3. Len(data) <= MaxLen
  BY DEF strbuf_new_from_data_n
<1>4. BufferIInv'
  BY <1>2, <1>3 DEF BufferIInv, BufferSound, Shape, Memory
<1>5. call' = [op |-> "new", times |-> times, str |-> str] /\ returned' = <<>>
  BY DEF strbuf_new_from_data_n, Returns
<1>6. call'.op = "new" /\ call'.times = times /\ call'.str = str
  BY <1>5
<1>7. TheText' = Abstract!Copies(times, str)
  BY <1>2 DEF TheText, TextOf, Copies, Abstract!Copies
<1>8. Abstract!New
  BY <1>5, <1>6, <1>7 DEF Abstract!New
<1> QED
  BY <1>4, <1>8 DEF Abstract!Next

LEMMA StepReplace ==
    ASSUME BufferIInv, NEW p \in Positions, NEW q \in Positions, NEW times \in Numbers, NEW str \in Strings,
           strbuf_replace_data_n(p, q, times, str)
    PROVE  BufferIInv' /\ Abstract!Next
<1> DEFINE data == Copies(times, str)
           sp == Start(p, q)
           ep == End(p, q)
           new == SubSeq(TheText, 1, sp) \o data \o SubSeq(TheText, ep + 1, Len(TheText))
<1>1. data \in Seq(Cells)
  BY CellsAssumption, SizesAssumption, CopiesElements
<1>2. Alive /\ sb.len + Len(data) - (ep - sp) <= MaxLen
  BY DEF strbuf_replace_data_n
<1>3. BufferSound(sb) /\ sb.len <= MaxLen
  BY <1>2, AliveSound
<1>4. p \in 0..(Modulus - 1) /\ q \in 0..(Modulus - 1)
  BY SizesAssumption
<1>5. /\ sp \in Nat /\ ep \in Nat /\ sp <= ep /\ ep <= sb.len
      /\ Smaller(normalize_strbuf_pos(TheText, p), normalize_strbuf_pos(TheText, q)) = sp
      /\ Larger(normalize_strbuf_pos(TheText, p), normalize_strbuf_pos(TheText, q)) = ep
  BY <1>3, <1>4, PositionsInText
<1>6. sb' = LET b == IF Len(data) = ep - sp THEN sb ELSE MakeRoom(sp, ep, Len(data))
            IN  [b EXCEPT !.buf = Write(b.buf, sp, data)]
  BY DEF strbuf_replace_data_n
<1>7. Abstract!strbuf_replace(TheText, p, q, data) = new
  BY <1>5 DEF Abstract!strbuf_replace, Abstract!normalize_strbuf_pos, Abstract!Smaller, Abstract!Larger,
     Abstract!Unsigned, normalize_strbuf_pos, Smaller, Larger, Unsigned
<1>8. call' = [op |-> "replace", p |-> p, q |-> q, times |-> times, str |-> str] /\ returned' = <<>>
  BY DEF strbuf_replace_data_n, Returns
<1>9. Abstract!Copies(times, str) = data
  BY DEF Abstract!Copies, Copies
<1> HIDE DEF data, sp, ep
<1>10. BufferSound(sb') /\ sb'.len = sb.len + Len(data) - (ep - sp) /\ TextOf(sb') = new
  <2>1. sb.len + Len(data) - (ep - sp) < Modulus
    <3>1. sb.len \in Nat /\ Len(data) \in Nat
      BY <1>1, <1>3 DEF BufferSound
    <3> QED
      BY <1>2, <1>5, <3>1, SizesAssumption, ModulusAssumption
  <2> QED
    BY <1>1, <1>3, <1>5, <1>6, <2>1, ReplaceKeepsSound
<1>11. BufferIInv'
  BY <1>2, <1>10 DEF BufferIInv, BufferSound, Shape, Memory
<1>12. call'.op = "replace" /\ call'.p = p /\ call'.q = q /\ call'.times = times /\ call'.str = str
  BY <1>8
<1>13. TheText' = new
  BY <1>10 DEF TheText, TextOf
<1>14. Abstract!Replace
  BY <1>7, <1>8, <1>9, <1>12, <1>13 DEF Abstract!Replace
<1> QED
  BY <1>11, <1>14 DEF Abstract!Next

LEMMA StepSetLength ==
    ASSUME BufferIInv, NEW length \in Numbers, strbuf_set_length(length)
    PROVE  BufferIInv' /\ Abstract!Next
<1>1. Alive /\ length <= MaxLen /\ length \in Nat
  BY SizesAssumption DEF strbuf_set_length
<1>2. BufferSound(sb) /\ sb.len <= MaxLen
  BY <1>1, AliveSound
<1>3. sb' = LET b == strbuf_ensure_capacity(sb, length + 1)
            IN  [b EXCEPT !.buf = Write(b.buf, length, <<NUL>>), !.len = length]
  BY DEF strbuf_set_length
<1>4. /\ BufferSound(sb') /\ sb'.len = length
      /\ \A i \in 1..length : i <= sb.len => TextOf(sb')[i] = TheText[i]
  BY <1>1, <1>2, <1>3, SetLengthSound
<1>5. BufferIInv'
  BY <1>1, <1>4 DEF BufferIInv, BufferSound, Shape, Memory
<1>6. TheText' = TextOf(sb')
  BY DEF TheText, TextOf
<1>7. Len(TheText') = length
  BY <1>4, <1>6, TextElements
<1>8. Len(TheText) = sb.len /\ sb.len \in Nat
  BY <1>2, TextElements DEF TheText, TextOf, BufferSound
<1>9. \A i \in 1..Abstract!Smaller(Len(TheText), Len(TheText')) : TheText'[i] = TheText[i]
  <2> TAKE i \in 1..Abstract!Smaller(Len(TheText), Len(TheText'))
  <2>1. i \in 1..length /\ i <= sb.len
    BY <1>1, <1>7, <1>8 DEF Abstract!Smaller
  <2> QED
    BY <1>4, <1>6, <2>1
<1>10. call' = [op |-> "set_length", length |-> length] /\ returned' = <<>>
  BY DEF strbuf_set_length, Returns
<1>11. call'.op = "set_length" /\ call'.length = length
  BY <1>10
<1>12. Abstract!SetLength
  BY <1>7, <1>9, <1>10, <1>11 DEF Abstract!SetLength
<1> QED
  BY <1>5, <1>12 DEF Abstract!Next

LEMMA StepEnsureCapacity ==
    ASSUME BufferIInv, NEW min \in Numbers, ensure_capacity(min)
    PROVE  BufferIInv' /\ Abstract!Next
<1>1. Alive /\ min \in Nat /\ sb' = strbuf_ensure_capacity(sb, min)
  BY SizesAssumption DEF ensure_capacity
<1>2. BufferSound(sb) /\ sb.len <= MaxLen
  BY <1>1, AliveSound
<1>3. /\ BufferSound(sb') /\ sb'.len = sb.len
      /\ \A i \in 0..(sb.capacity - 1) : sb'.buf[i] = sb.buf[i]
  BY <1>1, <1>2, EnsureCapacitySound
<1>4. BufferIInv'
  BY <1>2, <1>3 DEF BufferIInv, BufferSound, Shape, Memory
<1>5. TheText' = TheText
  <2>1. /\ TheText \in Seq(Cells) /\ Len(TheText) = sb.len
        /\ \A i \in 1..sb.len : TheText[i] = sb.buf[i - 1]
    BY <1>2, TextElements DEF TheText, TextOf
  <2>2. \A i \in 1..sb.len : i - 1 \in 0..(sb.capacity - 1)
    BY <1>2 DEF BufferSound
  <2>3. Len(TheText) = sb'.len /\ \A i \in 1..sb'.len : TheText[i] = sb'.buf[i - 1]
    BY <1>3, <2>1, <2>2
  <2>4. TextOf(sb') = TheText
    BY <1>3, <2>1, <2>3, TextEqual
  <2> QED
    BY <2>4 DEF TheText, TextOf
<1>6. call'.op = "ensure_capacity" /\ returned' = <<>>
  BY DEF ensure_capacity, Returns
<1>7. Abstract!EnsureCapacity
  BY <1>5, <1>6 DEF Abstract!EnsureCapacity
<1> QED
  BY <1>4, <1>7 DEF Abstract!Next

(* What is read from the memory between two positions is that of the text.   *)
LEMMA ReadBetween ==
    ASSUME BufferSound(sb), NEW sp \in Nat, NEW ep \in Nat, sp <= ep, ep <= sb.len
    PROVE  Read(sb.buf, sp, ep - sp) = SubSeq(TheText, sp + 1, ep)
<1> DEFINE n == ep - sp
           read == Read(sb.buf, sp, n)
           m == sp + 1
           sub == SubSeq(TheText, m, ep)
<1>1. /\ sb.len \in Nat /\ sb.capacity \in Nat /\ sb.buf \in Memory(sb.capacity)
      /\ sb.len < sb.capacity /\ n \in Nat /\ m \in Int /\ ep \in Int
  BY DEF BufferSound
<1>2. /\ TheText \in Seq(Cells) /\ Len(TheText) = sb.len
      /\ \A i \in 1..sb.len : TheText[i] = sb.buf[i - 1]
  BY TextElements DEF TheText, TextOf
<1>3. ep - m + 1 = n /\ (IF m <= ep THEN ep - m + 1 ELSE 0) = n
  BY <1>1
<1>4. \A i \in m..ep : TheText[i] \in Cells
  BY <1>1, <1>2
<1>5. \A i \in 1..n : /\ sp + i <= sb.capacity /\ m + i - 1 \in 1..sb.len
                      /\ (m + i - 1) - 1 = sp + i - 1
  BY <1>1
<1> HIDE DEF n, m
<1>6. /\ read \in Seq(Cells) /\ Len(read) = n
      /\ \A i \in 1..n : sp + i <= sb.capacity => read[i] = sb.buf[sp + i - 1]
  BY <1>1, ReadElements, ZenonT(60)
<1>7. /\ sub \in Seq(Cells) /\ Len(sub) = (IF m <= ep THEN ep - m + 1 ELSE 0)
      /\ \A i \in 1..(ep - m + 1) : sub[i] = TheText[m + i - 1]
  BY <1>1, <1>4, SubSeqProperties
<1> HIDE DEF read, sub
<1>8. \A i \in 1..n : read[i] = sub[i]
  <2> TAKE i \in 1..n
  <2>1. read[i] = sb.buf[sp + i - 1]
    BY <1>5, <1>6
  <2>2. sub[i] = TheText[m + i - 1]
    BY <1>3, <1>7
  <2>3. TheText[m + i - 1] = sb.buf[(m + i - 1) - 1]
    BY <1>2, <1>5
  <2> QED
    BY <1>5, <2>1, <2>2, <2>3
<1>9. read = sub
  BY <1>3, <1>6, <1>7, <1>8, SeqEqual
<1> QED
  BY <1>9 DEF read, sub, n, m

LEMMA StepSubstring ==
    ASSUME BufferIInv, NEW p \in Positions, NEW q \in Positions, strbuf_substring(p, q)
    PROVE  BufferIInv' /\ Abstract!Next
<1> DEFINE sp == Start(p, q)
           ep == End(p, q)
<1>1. Alive /\ UNCHANGED sb
  BY DEF strbuf_substring
<1>2. BufferSound(sb)
  BY <1>1, AliveSound
<1>3. p \in 0..(Modulus - 1) /\ q \in 0..(Modulus - 1)
  BY SizesAssumption
<1>4. /\ sp \in Nat /\ ep \in Nat /\ sp <= ep /\ ep <= sb.len
      /\ Smaller(normalize_strbuf_pos(TheText, p), normalize_strbuf_pos(TheText, q)) = sp
      /\ Larger(normalize_strbuf_pos(TheText, p), normalize_strbuf_pos(TheText, q)) = ep
  BY <1>2, <1>3, PositionsInText
<1>5. returned' = Read(sb.buf, sp, ep - sp)
  BY DEF strbuf_substring, Returns
<1>6. Abstract!Between(p, q) = SubSeq(TheText, sp + 1, ep)
  BY <1>4 DEF Abstract!Between, Abstract!normalize_strbuf_pos, Abstract!Smaller, Abstract!Larger,
     Abstract!Unsigned, normalize_strbuf_pos, Smaller, Larger, Unsigned
<1>7. call' = [op |-> "substring", p |-> p, q |-> q]
  BY DEF strbuf_substring
<1>8. call'.op = "substring" /\ call'.p = p /\ call'.q = q
  BY <1>7
<1> HIDE DEF sp, ep
<1>9. returned' = Abstract!Between(p, q)
  BY <1>2, <1>4, <1>5, <1>6, ReadBetween
<1>10. TheText' = TheText /\ BufferIInv'
  BY <1>1 DEF TheText, BufferIInv, BufferSound, Shape, Memory
<1>11. Abstract!Copy
  BY <1>8, <1>9, <1>10 DEF Abstract!Copy
<1> QED
  BY <1>10, <1>11 DEF Abstract!Next

LEMMA StepCharAt ==
    ASSUME BufferIInv, NEW p \in Positions, strbuf_char_at(p)
    PROVE  BufferIInv' /\ Abstract!Next
<1> DEFINE sp == Start(p, p)
           read == Read(sb.buf, sp, 1)
<1>1. Alive /\ UNCHANGED sb /\ returned' = read
  BY DEF strbuf_char_at, Returns
<1>2. BufferSound(sb)
  BY <1>1, AliveSound
<1>3. p \in 0..(Modulus - 1)
  BY SizesAssumption
<1>4. sp \in Nat /\ sp <= sb.len /\ normalize_strbuf_pos(TheText, p) = sp
  <2>1. /\ sp \in Nat /\ sp <= End(p, p) /\ End(p, p) \in Nat /\ End(p, p) <= sb.len
        /\ Smaller(normalize_strbuf_pos(TheText, p), normalize_strbuf_pos(TheText, p)) = sp
    BY <1>2, <1>3, PositionsInText
  <2>2. sb.len \in Nat
    BY <1>2 DEF BufferSound
  <2> HIDE DEF sp
  <2> QED
    BY <2>1, <2>2 DEF Smaller
<1>5. Abstract!normalize_strbuf_pos(TheText, p) = sp
  BY <1>4 DEF Abstract!normalize_strbuf_pos, Abstract!Smaller, Abstract!Unsigned,
     normalize_strbuf_pos, Smaller, Unsigned
<1> HIDE DEF sp
<1>6. /\ sb.len \in Nat /\ sb.capacity \in Nat /\ sb.buf \in Memory(sb.capacity)
      /\ sb.len < sb.capacity /\ sb.buf[sb.len] = NUL
  BY <1>2 DEF BufferSound
<1>7. read = <<sb.buf[sp]>>
  <2> DEFINE one == 1
  <2>1. sp + one - 1 = sp /\ sp + one <= sb.capacity /\ one \in 1..one /\ one = 1
    BY <1>4, <1>6
  <2>2. one \in Nat
    OBVIOUS
  <2> HIDE DEF one
  <2>3. /\ Read(sb.buf, sp, one) \in Seq(Cells) /\ Len(Read(sb.buf, sp, one)) = one
        /\ \A i \in 1..one : sp + i <= sb.capacity => Read(sb.buf, sp, one)[i] = sb.buf[sp + i - 1]
    BY <1>4, <1>6, <2>2, ReadElements, ZenonT(60)
  <2>4. read = Read(sb.buf, sp, one)
    BY <2>1
  <2> HIDE DEF read
  <2>5. read[1] = sb.buf[sp] /\ Len(read) = 1 /\ read \in Seq(Cells)
    BY <2>1, <2>3, <2>4
  <2> QED
    BY <2>5
<1> HIDE DEF read
<1>8. /\ Len(TheText) = sb.len
      /\ \A i \in 1..sb.len : TheText[i] = sb.buf[i - 1]
  BY <1>2, TextElements DEF TheText, TextOf
<1>9. read = IF sp = Len(TheText) THEN <<NUL>> ELSE <<TheText[sp + 1]>>
  <2>1. CASE sp = sb.len
    BY <1>6, <1>7, <1>8, <2>1
  <2>2. CASE sp # sb.len
    <3>1. sp + 1 \in 1..sb.len /\ (sp + 1) - 1 = sp
      BY <1>4, <1>6, <2>2
    <3>2. TheText[sp + 1] = sb.buf[sp]
      BY <1>8, <3>1
    <3> QED
      BY <1>7, <1>8, <2>2, <3>2
  <2> QED
    BY <2>1, <2>2
<1>10. returned' = Abstract!CharAt(p)
  BY <1>1, <1>5, <1>9 DEF Abstract!CharAt
<1>11. call' = [op |-> "char_at", p |-> p]
  BY DEF strbuf_char_at
<1>12. call'.op = "char_at" /\ call'.p = p
  BY <1>11
<1>13. TheText' = TheText /\ BufferIInv'
  BY <1>1 DEF TheText, BufferIInv, BufferSound, Shape, Memory
<1>14. Abstract!Copy
  BY <1>10, <1>12, <1>13 DEF Abstract!Copy
<1> QED
  BY <1>13, <1>14 DEF Abstract!Next

(* The first NUL of the memory is not behind the one that ends the text.     *)
LEMMA StepFree ==
    ASSUME BufferIInv, strbuf_free_to_string
    PROVE  BufferIInv' /\ Abstract!Next
<1>1. Alive /\ sb' = Freed
  BY DEF strbuf_free_to_string
<1>2. BufferSound(sb)
  BY <1>1, AliveSound
<1>3. /\ sb.len \in Nat /\ sb.capacity \in Nat /\ sb.buf \in Memory(sb.capacity)
      /\ sb.len < sb.capacity /\ sb.buf[sb.len] = NUL
  BY <1>2 DEF BufferSound
<1>4. PICK n \in 0..sb.capacity :
        /\ \A i \in 1..n : Read(sb.buf, 0, n)[i] # NUL
        /\ n < sb.capacity => sb.buf[n] = NUL
        /\ returned' = Read(sb.buf, 0, n)
  BY DEF strbuf_free_to_string, Returns
<1> DEFINE str == Read(sb.buf, 0, n)
<1>5. /\ str \in Seq(Cells) /\ Len(str) = n
      /\ \A i \in 1..n : str[i] = sb.buf[i - 1]
  <2> DEFINE at == 0
  <2>1. at = 0
    OBVIOUS
  <2>2. at \in Nat /\ n \in Nat
    BY <1>3
  <2> HIDE DEF at
  <2>3. /\ Read(sb.buf, at, n) \in Seq(Cells) /\ Len(Read(sb.buf, at, n)) = n
        /\ \A i \in 1..n : at + i <= sb.capacity => Read(sb.buf, at, n)[i] = sb.buf[at + i - 1]
    BY <1>3, <2>2, ReadElements, ZenonT(60)
  <2>4. str = Read(sb.buf, at, n)
    BY <2>1
  <2>5. \A i \in 1..n : at + i <= sb.capacity /\ at + i - 1 = i - 1
    BY <1>3, <2>1, <2>2
  <2> HIDE DEF str
  <2> QED
    BY <2>3, <2>4, <2>5
<1>6. returned' = str /\ (\A i \in 1..n : str[i] # NUL) /\ (n < sb.capacity => sb.buf[n] = NUL)
  BY <1>4
<1> HIDE DEF str
<1>7. n <= sb.len
  <2> SUFFICES ASSUME sb.len < n
               PROVE  FALSE
    BY <1>3
  <2>1. sb.len + 1 \in 1..n /\ (sb.len + 1) - 1 = sb.len
    BY <1>3
  <2> QED
    BY <1>3, <1>5, <1>6, <2>1
<1>8. /\ TheText \in Seq(Cells) /\ Len(TheText) = sb.len
      /\ \A i \in 1..sb.len : TheText[i] = sb.buf[i - 1]
  BY <1>2, TextElements DEF TheText, TextOf
<1>9. str = SubSeq(TheText, 1, n)
  <2> DEFINE sub == SubSeq(TheText, 1, n)
  <2>1. \A i \in 1..n : TheText[i] \in Cells /\ i \in 1..sb.len
    BY <1>3, <1>7, <1>8
  <2>2. /\ sub \in Seq(Cells) /\ Len(sub) = (IF 1 <= n THEN n - 1 + 1 ELSE 0)
        /\ \A i \in 1..(n - 1 + 1) : sub[i] = TheText[1 + i - 1]
    BY <2>1, SubSeqProperties
  <2> HIDE DEF sub
  <2>3. Len(sub) = n /\ \A i \in 1..n : sub[i] = TheText[i]
    BY <2>2
  <2>4. \A i \in 1..n : str[i] = sub[i]
    BY <1>5, <1>8, <2>1, <2>3
  <2>5. str = sub
    BY <1>5, <2>2, <2>3, <2>4, SeqEqual
  <2> QED
    BY <2>5 DEF sub
<1>10. n < sb.len => TheText[n + 1] = NUL
  <2> SUFFICES ASSUME n < sb.len
               PROVE  TheText[n + 1] = NUL
    OBVIOUS
  <2>1. n + 1 \in 1..sb.len /\ (n + 1) - 1 = n /\ n < sb.capacity
    BY <1>3
  <2> QED
    BY <1>6, <1>8, <2>1
<1>11. Abstract!IsCString(str, TheText)
  BY <1>5, <1>6, <1>7, <1>8, <1>9, <1>10 DEF Abstract!IsCString
<1>12. TheText' = <<>>
  <2>1. sb'.len = 0
    BY <1>1 DEF Freed
  <2>2. TheText' \in [1..0 -> Cells]
    BY <2>1 DEF TheText, Read
  <2> QED
    BY <2>2
<1>13. BufferIInv'
  BY <1>1 DEF BufferIInv, Freed, NoMemory
<1>14. call'.op = "free"
  BY DEF strbuf_free_to_string
<1>15. Abstract!Free
  BY <1>6, <1>11, <1>12, <1>14 DEF Abstract!Free
<1> QED
  BY <1>13, <1>15 DEF Abstract!Next

LEMMA BufferStep ==
    ASSUME BufferIInv, BufferNext
    PROVE  BufferIInv' /\ Abstract!Next
<1>1. CASE strbuf_new
  BY <1>1, StepNew
<1>2. CASE strbuf_free_to_string
  BY <1>2, StepFree
<1>3. ASSUME NEW times \in Numbers, NEW str \in Strings, strbuf_new_from_data_n(times, str)
      PROVE  BufferIInv' /\ Abstract!Next
  BY <1>3, StepNewFrom
<1>4. ASSUME NEW times \in Numbers, NEW str \in Strings, NEW p \in Positions, NEW q \in Positions,
             strbuf_replace_data_n(p, q, times, str)
      PROVE  BufferIInv' /\ Abstract!Next
  BY <1>4, StepReplace
<1>5. ASSUME NEW length \in Numbers, strbuf_set_length(length)
      PROVE  BufferIInv' /\ Abstract!Next
  BY <1>5, StepSetLength
<1>6. ASSUME NEW min \in Numbers, ensure_capacity(min)
      PROVE  BufferIInv' /\ Abstract!Next
  BY <1>6, StepEnsureCapacity
<1>7. ASSUME NEW p \in Positions, strbuf_char_at(p)
      PROVE  BufferIInv' /\ Abstract!Next
  BY <1>7, StepCharAt
<1>8. ASSUME NEW p \in Positions, NEW q \in Positions, strbuf_substring(p, q)
      PROVE  BufferIInv' /\ Abstract!Next
  BY <1>8, StepSubstring
<1> QED
  BY <1>1, <1>2, <1>3, <1>4, <1>5, <1>6, <1>7, <1>8 DEF BufferNext

LEMMA BufferStart ==
    ASSUME BufferInit
    PROVE  BufferIInv /\ Abstract!Init
<1>1. sb = Freed /\ call = [op |-> "none"] /\ returned = <<>>
  BY DEF BufferInit
<1>2. TheText = <<>>
  <2>1. sb.len = 0
    BY <1>1 DEF Freed
  <2>2. TheText \in [1..0 -> Cells]
    BY <2>1 DEF TheText, Read
  <2> QED
    BY <2>2
<1> QED
  BY <1>1, <1>2 DEF BufferIInv, Abstract!Init

LEMMA BufferInvariant == BufferSpec => []BufferIInv
<1>1. BufferInit => BufferIInv
  BY BufferStart
<1>2. BufferIInv /\ [BufferNext]_buffer_vars => BufferIInv'
  <2>1. BufferIInv /\ UNCHANGED buffer_vars => BufferIInv'
    BY DEF buffer_vars, BufferIInv, BufferSound, Shape, Memory
  <2> QED
    BY <2>1, BufferStep
<1> QED
  BY <1>1, <1>2, PTL DEF BufferSpec

(* For every string, position and number of copies, the buffer is always of  *)
(* the right type.                                                           *)
THEOREM BufferTypeCorrect == BufferSpec => []BufferTypeOK
<1>1. BufferIInv => BufferTypeOK
  BY IInvHolds
<1> QED
  BY <1>1, BufferInvariant, PTL

(* strbuf.c never writes outside of the block it has allocated, and always   *)
(* has a NUL behind the text, in whatever order its functions are called.    *)
THEOREM BufferBounded == BufferSpec => []Bounded
<1>1. BufferIInv => Bounded
  BY IInvHolds
<1> QED
  BY <1>1, BufferInvariant, PTL

(* The memory of strbuf.c implements the text that Execute and Wrap compute  *)
(* with: every call does to it what Text says, and none does anything else.  *)
THEOREM BufferImplementsText == BufferSpec => ImplementsText
<1>1. BufferInit => Abstract!Init
  BY BufferStart
<1>2. BufferIInv /\ [BufferNext]_buffer_vars => [Abstract!Next]_Abstract!vars
  <2>1. UNCHANGED buffer_vars => UNCHANGED Abstract!vars
    BY DEF buffer_vars, Abstract!vars, TheText
  <2> QED
    BY <2>1, BufferStep
<1> QED
  BY <1>1, <1>2, BufferInvariant, PTL DEF BufferSpec, ImplementsText, Abstract!Spec

-----------------------------------------------------------------------------
(* The instance of both: a behaviour of it is one of the table and one of    *)
(* the buffer, whatever keys, values, strings and sizes it is given.         *)
THEOREM ContainersTypeCorrect == ContainersSpec => []ContainersTypeOK
<1>1. ContainersInit => Init /\ BufferInit
  BY DEF ContainersInit
<1>2. [Calls /\ UNCHANGED called]_<<vars, buffer_vars, called>>
        => [Next]_vars /\ [BufferNext]_buffer_vars
  BY DEF Calls
<1>3. ContainersSpec => Spec /\ BufferSpec
  BY <1>1, <1>2, PTL DEF ContainersSpec, Spec, BufferSpec
<1>4. TypeOK /\ BufferTypeOK => ContainersTypeOK
  BY DEF ContainersTypeOK
<1> QED
  BY <1>3, <1>4, TypeCorrect, BufferTypeCorrect, PTL
===============================================================================
