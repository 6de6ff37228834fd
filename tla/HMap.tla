--------------------------------- MODULE HMap ---------------------------------
(***************************************************************************)
(* The hash table (src/common/hmap.c) that holds the styles and the macros  *)
(* of a script: buckets of entries, which grow when there are too many.  A  *)
(* bucket is a sequence of entries, its chain of next pointers.             *)
(*                                                                         *)
(* A bucket is empty, or its entries are in the order they are met: the     *)
(* newest first, until the table grows.  hmap_foreach_value calls a         *)
(* function for every value; the function may remove the entry it is called *)
(* for, as the comment there says.  While there is an iterator the table is *)
(* not changed.                                                             *)
(***************************************************************************)
EXTENDS Integers, Sequences, FiniteSets, SequencesExt

CONSTANTS
    Keys, Values,
    NULL,
    Hash,               \* [Keys -> Nat]: map->hash, which may well collide
    DefaultCapacity     \* the buckets of a new table

ASSUME HashAssumption == Hash \in [Keys -> Nat]
ASSUME NullAssumption == NULL \notin Values /\ \A keys \in SUBSET Keys : NULL # keys
ASSUME CapacityAssumption == DefaultCapacity \in Nat \ {0}

VARIABLES
    buckets,            \* from 0 .. buckets_length-1 to the entries of a bucket
    threshold, size,
    result,             \* what the last call returned
    c, next,            \* a walk: its bucket, and the entries of that bucket
                        \* that it has still to come to
    walking             \* "no"; what hmap_foreach_... calls its function for,
                        \* "value" or "key"; or "iterator", if there is one

vars == <<buckets, threshold, size, result, c, next, walking>>

buckets_length == Cardinality(DOMAIN buckets)

hmap_hash(k, length) == Hash[k] % length

(* The load factor is 0.75.                                                  *)
Threshold(length) == (length * 3) \div 4

Empty(length) == [i \in 0..(length - 1) |-> <<>>]

Entry(k, v) == [key |-> k, value |-> v]

(* hmap_get_entry: the index of k in its bucket, 0 if it is not there.       *)
Bucket(k) == buckets[hmap_hash(k, buckets_length)]
Find(k)   == SelectInSeq(Bucket(k), LAMBDA e : e.key = k)

Init ==
    /\ buckets = Empty(DefaultCapacity)
    /\ threshold = Threshold(DefaultCapacity)
    /\ size = 0
    /\ result = NULL
    /\ c = 0 /\ next = <<>> /\ walking = "no"

Idle == walking = "no" /\ UNCHANGED <<c, next, walking>>

(* hmap_rehash: every entry goes behind those of its new bucket, one old     *)
(* bucket after the other.                                                   *)
OldEntries == FlattenSeq([i \in 1..buckets_length |-> buckets[i - 1]])

AtEnd(table, e) ==
    [table EXCEPT ![hmap_hash(e.key, Cardinality(DOMAIN table))] = Append(@, e)]

Rehashed(entries, length) ==
    LET moved[n \in 0..Len(entries)] ==
            IF n = 0 THEN Empty(length) ELSE AtEnd(moved[n - 1], entries[n])
    IN  moved[Len(entries)]

(* Mutants: no more buckets than before; only the first entry of each bucket.  *)
hmap_rehash_same == Rehashed(OldEntries, buckets_length)

hmap_rehash_heads ==
    Rehashed(SetToSeq({Head(buckets[i]) : i \in {j \in DOMAIN buckets : buckets[j] # <<>>}}),
             2 * buckets_length + 1)

hmap_rehash == Rehashed(OldEntries, 2 * buckets_length + 1)

(* Mutant: where the key was before the table grew.                          *)
InsertStale(table, k, v) ==
    [table EXCEPT ![hmap_hash(k, buckets_length)] = <<Entry(k, v)>> \o @]

Insert(table, k, v) ==
    [table EXCEPT ![hmap_hash(k, Cardinality(DOMAIN table))] = <<Entry(k, v)>> \o @]

hmap_put(k, v) ==
    /\ Idle
    /\ IF Find(k) # 0
         THEN /\ buckets' = [buckets EXCEPT ![hmap_hash(k, buckets_length)][Find(k)].value = v]
              /\ result' = Bucket(k)[Find(k)].value
              /\ UNCHANGED <<threshold, size>>
         ELSE /\ size' = size + 1
              /\ IF size' > threshold
                   THEN /\ buckets' = Insert(hmap_rehash, k, v)
                        /\ threshold' = Threshold(2 * buckets_length + 1)
                   ELSE /\ buckets' = Insert(buckets, k, v)
                        /\ UNCHANGED threshold
              /\ result' = NULL

(* The entry of k is unlinked, if there is one.                              *)
Unlink(k) ==
    IF Find(k) = 0 THEN UNCHANGED <<buckets, size>>
    ELSE /\ buckets' = [buckets EXCEPT ![hmap_hash(k, buckets_length)] = RemoveAt(@, Find(k))]
         /\ size' = size - 1

hmap_remove(k) ==
    /\ Idle
    /\ Unlink(k)
    /\ result' = IF Find(k) = 0 THEN NULL ELSE Bucket(k)[Find(k)].value
    /\ UNCHANGED threshold

hmap_get(k) ==
    /\ result' = IF Find(k) = 0 THEN NULL ELSE Bucket(k)[Find(k)].value
    /\ UNCHANGED <<buckets, threshold, size, c, next, walking>>

hmap_contains_key(k) ==
    /\ result' = IF Find(k) = 0 THEN 0 ELSE 1
    /\ UNCHANGED <<buckets, threshold, size, c, next, walking>>

hmap_size ==
    /\ result' = size
    /\ UNCHANGED <<buckets, threshold, size, c, next, walking>>

hmap_clear ==
    /\ Idle
    /\ buckets' = Empty(buckets_length) /\ size' = 0 /\ result' = NULL
    /\ UNCHANGED threshold

-----------------------------------------------------------------------------
(* hmap_foreach_value and hmap_foreach_key: the loop over the buckets and,   *)
(* in it, the one over the entries, which takes the next entry before it     *)
(* calls the function.                                                       *)
Foreach(what) ==
    /\ walking = "no" /\ walking' = what
    /\ c' = 0 /\ next' = buckets[0] /\ result' = NULL
    /\ UNCHANGED <<buckets, threshold, size>>

hmap_foreach_value == Foreach("value")
hmap_foreach_key   == Foreach("key")

InForeach == walking \in {"value", "key"}

(* The function is called; it does nothing to the table, or removes the      *)
(* entry.                                                                    *)
CallFunction ==
    /\ InForeach /\ next # <<>>
    /\ result' = Head(next)[walking]
    /\ next' = Tail(next)
    /\ Unlink(Head(next).key) \/ UNCHANGED <<buckets, size>>
    /\ UNCHANGED <<threshold, c, walking>>

NextBucket ==
    /\ InForeach /\ next = <<>> /\ c + 1 < buckets_length
    /\ c' = c + 1 /\ next' = buckets[c + 1]
    /\ UNCHANGED <<buckets, threshold, size, result, walking>>

EndOfTable ==
    /\ InForeach /\ next = <<>> /\ c + 1 = buckets_length
    /\ walking' = "no" /\ c' = 0 /\ result' = NULL
    /\ UNCHANGED <<buckets, threshold, size, next>>

(* The iterator stands at an entry: the next one to be returned.  Having     *)
(* returned the last of a bucket it looks for the next that is not empty.    *)
Filled(from)    == {i \in DOMAIN buckets : i >= from /\ buckets[i] # <<>>}
StandAt(bucket) ==
    IF Filled(bucket) = {} THEN c' = buckets_length /\ next' = <<>>
    ELSE c' = Min(Filled(bucket)) /\ next' = buckets[c']

hmap_iterator ==
    /\ walking = "no" /\ walking' = "iterator"
    /\ StandAt(0) /\ result' = NULL
    /\ UNCHANGED <<buckets, threshold, size>>

hmap_iterator_next ==
    /\ walking = "iterator"
    /\ IF next = <<>>
         THEN result' = NULL /\ UNCHANGED <<c, next>>
         ELSE /\ result' = Head(next).value
              /\ IF Tail(next) # <<>> THEN next' = Tail(next) /\ UNCHANGED c ELSE StandAt(c + 1)
    /\ UNCHANGED <<buckets, threshold, size, walking>>

(* A loop over an iterator ends when there is no next entry.                 *)
hmap_iterator_has_next ==
    /\ walking = "iterator"
    /\ IF next = <<>>
         THEN result' = 0 /\ walking' = "no" /\ c' = 0 /\ UNCHANGED next
         ELSE result' = 1 /\ UNCHANGED <<c, next, walking>>
    /\ UNCHANGED <<buckets, threshold, size>>

Next ==
    \/ \E k \in Keys : hmap_remove(k) \/ hmap_get(k) \/ hmap_contains_key(k) \/ \E v \in Values : hmap_put(k, v)
    \/ hmap_size \/ hmap_clear
    \/ hmap_foreach_value \/ hmap_foreach_key \/ CallFunction \/ NextBucket \/ EndOfTable
    \/ hmap_iterator \/ hmap_iterator_next \/ hmap_iterator_has_next

Spec == Init /\ [][Next]_vars

-----------------------------------------------------------------------------
Entries  == UNION {Range(buckets[i]) : i \in DOMAIN buckets}
KeysHeld == {e.key : e \in Entries}

TypeOK ==
    /\ DOMAIN buckets = 0..(buckets_length - 1)
    /\ Entries \subseteq [key : Keys, value : Values]
    /\ threshold = Threshold(buckets_length)
    /\ size \in Nat /\ c \in 0..buckets_length
    /\ walking \in {"no", "value", "key", "iterator"}

(* Every entry is in the bucket its key is looked for, no key has two, and   *)
(* size counts them; the table grew before it was too full.                  *)
WellPlaced ==
    /\ \A i \in DOMAIN buckets : \A j \in DOMAIN buckets[i] :
         hmap_hash(buckets[i][j].key, buckets_length) = i
    /\ \A i \in DOMAIN buckets : \A j, k \in DOMAIN buckets[i] :
         buckets[i][j].key = buckets[i][k].key => j = k
    /\ size = Cardinality(KeysHeld)
    /\ size <= threshold

(* The buckets implement a table, in which no key is lost, whatever is put   *)
(* in and taken out and however often it grows; and a walk comes to every    *)
(* value once, though entries are removed under it.                          *)
Ahead  == {e.key : e \in Range(next) \cup UNION {Range(buckets[i]) : i \in (c + 1)..(buckets_length - 1)}}
Map == INSTANCE Table WITH
    table <- [k \in KeysHeld |-> (CHOOSE e \in Entries : e.key = k).value],
    walk  <- IF walking = "no" THEN NULL ELSE Ahead

ImplementsTable == Map!Spec
===============================================================================
