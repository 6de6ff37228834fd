-------------------------------- MODULE LList --------------------------------
(***************************************************************************)
(* The linked list (src/common/llist.c): nodes that are allocated and       *)
(* freed, each with a pointer to the next and to the previous one, a list   *)
(* with its first node, its last node and its size, and one iterator.       *)
(*                                                                         *)
(* A pointer is the name of a node, or NULL.  A freed node may be allocated *)
(* again.  Clients keep the nodes that lnode_add_before and its like gave   *)
(* them (insert_style), and keep an iterator while the list changes         *)
(* (MatchBuffer.styles_it).                                                 *)
(***************************************************************************)
EXTENDS Integers, Sequences, FiniteSets, FiniteSetsExt, Functions

CONSTANTS
    Data,               \* what the nodes hold
    LNode,              \* the nodes there is memory for
    NULL,               \* the null pointer
    Died                \* the result of a call that ended the program

ASSUME NullAssumption == NULL \notin Data \cup LNode /\ Died \notin Data \cup {NULL}
ASSUME MemoryAssumption == IsFiniteSet(LNode) /\ LNode # {}

VARIABLES
    nodes,              \* the memory: from the allocated nodes to their fields
    first, last, size,  \* the list
    entry,              \* the iterator: the node next() returns
    lost,               \* history: the node at "entry" was freed by someone else
    result              \* what the last call returned; a bool is 1 or 0

list == <<nodes, first, last, size>>
vars == <<list, entry, lost, result>>

Alive   == result # Died
Live    == DOMAIN nodes
Free    == LNode \ Live         \* xmalloc returns one of these

Node(d, next, previous) == [data |-> d, next |-> next, previous |-> previous]

Next(n)     == IF n \in Live THEN nodes[n].next ELSE NULL
Previous(n) == IF n \in Live THEN nodes[n].previous ELSE NULL

(* The memory with a node more, and with a node less.                        *)
Malloc(mem, n, rec) == [m \in DOMAIN mem \cup {n} |-> IF m = n THEN rec ELSE mem[m]]
Freed(mem, n)       == Restrict(mem, DOMAIN mem \ {n})

(* entry->f = p, if there is that entry.                                     *)
SetNext(mem, n, p)     == IF n = NULL THEN mem ELSE [mem EXCEPT ![n].next = p]
SetPrevious(mem, n, p) == IF n = NULL THEN mem ELSE [mem EXCEPT ![n].previous = p]

-----------------------------------------------------------------------------
(* Walking the list from either end.                                         *)
FromFirst[k \in Nat] == IF k = 0 THEN first ELSE Next(FromFirst[k - 1])
FromLast[k \in Nat]  == IF k = 0 THEN last ELSE Previous(FromLast[k - 1])

(* Mutant: one step too few from the last node.                              *)
llist_get_entry_short(index) ==
    IF index < size \div 2 THEN FromFirst[index]
    ELSE FromLast[IF index = size - 1 THEN 0 ELSE size - 2 - index]

llist_get_entry(index) ==
    IF index < size \div 2 THEN FromFirst[index] ELSE FromLast[size - 1 - index]

(* The places from the first, and from the last, of the nodes that hold d.   *)
AheadOf(d)  == {k \in 0..(size - 1) : nodes[FromFirst[k]].data = d}
BehindOf(d) == {k \in 0..(size - 1) : nodes[FromLast[k]].data = d}

(* The first node that holds d, or NULL.                                     *)
Holding(d) == IF AheadOf(d) = {} THEN NULL ELSE FromFirst[Min(AheadOf(d))]

Init ==
    /\ nodes = <<>>
    /\ first = NULL /\ last = NULL /\ size = 0
    /\ entry = NULL /\ lost = FALSE
    /\ result = NULL

(* A call that changes the list and leaves the iterator alone.               *)
Done(res) == result' = res /\ UNCHANGED <<entry, lost>>

-----------------------------------------------------------------------------
AddFirst(n, d) ==
    /\ IF size = 0
         THEN nodes' = Malloc(nodes, n, Node(d, NULL, NULL)) /\ last' = n
         ELSE /\ nodes' = Malloc(SetPrevious(nodes, first, n), n, Node(d, first, NULL))
              /\ UNCHANGED last
    /\ first' = n /\ size' = size + 1

AddLast(n, d) ==
    /\ IF size = 0
         THEN nodes' = Malloc(nodes, n, Node(d, NULL, NULL)) /\ first' = n
         ELSE /\ nodes' = Malloc(SetNext(nodes, last, n), n, Node(d, NULL, last))
              /\ UNCHANGED first
    /\ last' = n /\ size' = size + 1

(* Mutant: the node before is not told.                                      *)
LinkOneWay(n, d, previous, next) ==
    /\ nodes' = Malloc(SetPrevious(nodes, next, n), n, Node(d, next, previous))
    /\ first' = IF previous = NULL THEN n ELSE first
    /\ last' = IF next = NULL THEN n ELSE last
    /\ size' = size + 1

(* The code that every insertion within the list repeats.                    *)
Link(n, d, previous, next) ==
    /\ nodes' = Malloc(SetNext(SetPrevious(nodes, next, n), previous, n), n,
                       Node(d, next, previous))
    /\ first' = IF previous = NULL THEN n ELSE first
    /\ last' = IF next = NULL THEN n ELSE last
    /\ size' = size + 1

llist_add_first(d) == Alive /\ (\E n \in Free : AddFirst(n, d)) /\ Done(NULL)
llist_add_last(d)  == Alive /\ (\E n \in Free : AddLast(n, d)) /\ Done(NULL)

llist_add_at(index, d) ==
    /\ Alive
    /\ IF index > size THEN UNCHANGED list
       ELSE \E n \in Free :
              IF index = size THEN AddLast(n, d)
              ELSE LET after == llist_get_entry(index)
                   IN  Link(n, d, Previous(after), after)
    /\ Done(NULL)

lnode_add_after(node, d) ==
    /\ Alive /\ node \in Live
    /\ \E n \in Free :
         IF Next(node) = NULL THEN AddLast(n, d) ELSE Link(n, d, node, Next(node))
    /\ Done(NULL)

lnode_add_before(node, d) ==
    /\ Alive /\ node \in Live
    /\ \E n \in Free :
         IF Previous(node) = NULL THEN AddFirst(n, d) ELSE Link(n, d, Previous(node), node)
    /\ Done(NULL)

-----------------------------------------------------------------------------
(* llist_remove_first and llist_remove_last have their own code.             *)
RemoveFirstNode ==
    /\ nodes' = Freed(SetPrevious(nodes, Next(first), NULL), first)
    /\ last' = IF Next(first) = NULL THEN NULL ELSE last
    /\ first' = Next(first)
    /\ size' = size - 1

(* Mutant: the node before still points to the one that is freed.            *)
RemoveLastDangling ==
    /\ nodes' = Freed(nodes, last)
    /\ first' = IF Previous(last) = NULL THEN NULL ELSE first
    /\ last' = Previous(last)
    /\ size' = size - 1

RemoveLastNode ==
    /\ nodes' = Freed(SetNext(nodes, Previous(last), NULL), last)
    /\ first' = IF Previous(last) = NULL THEN NULL ELSE first
    /\ last' = Previous(last)
    /\ size' = size - 1

llist_remove_entry(n) ==
    /\ IF size = 1
         THEN nodes' = Freed(nodes, n) /\ first' = NULL /\ last' = NULL
       ELSE IF n = first
         THEN /\ first' = Next(n)
              /\ nodes' = Freed(SetPrevious(nodes, Next(n), NULL), n)
              /\ UNCHANGED last
       ELSE IF n = last
         THEN /\ last' = Previous(n)
              /\ nodes' = Freed(SetNext(nodes, Previous(n), NULL), n)
              /\ UNCHANGED first
         ELSE /\ nodes' = Freed(SetNext(SetPrevious(nodes, Next(n), Previous(n)),
                                        Previous(n), Next(n)), n)
              /\ UNCHANGED <<first, last>>
    /\ size' = size - 1

(* Whoever takes out the node the iterator stands at leaves it dangling.     *)
Took(n, res) ==
    /\ lost' = (lost \/ entry = n)
    /\ result' = res
    /\ UNCHANGED entry

Nothing(res) == UNCHANGED list /\ Done(res)

llist_remove_first ==
    /\ Alive
    /\ IF size = 0 THEN Nothing(NULL) ELSE RemoveFirstNode /\ Took(first, nodes[first].data)

llist_remove_last ==
    /\ Alive
    /\ IF size = 0 THEN Nothing(NULL) ELSE RemoveLastNode /\ Took(last, nodes[last].data)

(* Returns whether there was a node that holds d: a bool.                    *)
llist_remove(d) ==
    /\ Alive
    /\ IF Holding(d) = NULL THEN Nothing(0)
       ELSE llist_remove_entry(Holding(d)) /\ Took(Holding(d), 1)

llist_remove_at(index) ==
    /\ Alive
    /\ IF index >= size THEN Nothing(NULL)
       ELSE LET n == llist_get_entry(index)
            IN  llist_remove_entry(n) /\ Took(n, nodes[n].data)

lnode_remove(n) ==
    /\ Alive /\ n \in Live
    /\ llist_remove_entry(n) /\ Took(n, NULL)

llist_clear ==
    /\ Alive
    /\ nodes' = <<>> /\ first' = NULL /\ last' = NULL /\ size' = 0
    /\ lost' = (lost \/ entry # NULL) /\ result' = NULL
    /\ UNCHANGED entry

(* The data of the two ends change places, and so on inwards.                *)
llist_reverse ==
    /\ Alive
    /\ nodes' = [n \in Live |->
                   LET k == CHOOSE j \in 0..(size - 1) : FromFirst[j] = n
                   IN  [nodes[n] EXCEPT !.data = nodes[FromFirst[size - 1 - k]].data]]
    /\ UNCHANGED <<first, last, size>>
    /\ Done(NULL)

llist_get(index) ==
    /\ Alive
    /\ Nothing(IF index >= size THEN NULL ELSE nodes[llist_get_entry(index)].data)

(* As the code has it: the old data is put in again, and d is not looked at. *)
llist_set(index, d) ==
    /\ Alive
    /\ IF index >= size THEN Nothing(NULL)
       ELSE LET n        == llist_get_entry(index)
                old_data == nodes[n].data
            IN  /\ nodes' = [nodes EXCEPT ![n].data = old_data]
                /\ UNCHANGED <<first, last, size>>
                /\ Done(old_data)

-----------------------------------------------------------------------------
(* The calls that only look.                                                 *)
Answer(res) == Alive /\ Nothing(res)
Bool(p)     == IF p THEN 1 ELSE 0

llist_get_first   == Answer(IF size = 0 THEN NULL ELSE nodes[first].data)
llist_get_last    == Answer(IF size = 0 THEN NULL ELSE nodes[last].data)
llist_size        == Answer(size)
llist_is_empty    == Answer(Bool(size = 0))
llist_contains(d) == Answer(Bool(AheadOf(d) # {}))
llist_index_of(d) == Answer(IF AheadOf(d) = {} THEN -1 ELSE Min(AheadOf(d)))

(* Walked from the last node, the index counted down from size - 1.          *)
llist_last_index_of(d) ==
    Answer(IF BehindOf(d) = {} THEN -1 ELSE size - 1 - Min(BehindOf(d)))

lnode_is_first(n) == n \in Live /\ Answer(Bool(Previous(n) = NULL))
lnode_is_last(n)  == n \in Live /\ Answer(Bool(Next(n) = NULL))
lnode_data(n)     == n \in Live /\ Answer(nodes[n].data)

llist_iterator_has_next == ~lost /\ Answer(Bool(entry # NULL))

Look ==
    \/ llist_get_first \/ llist_get_last \/ llist_size \/ llist_is_empty
    \/ \E d \in Data : llist_contains(d) \/ llist_index_of(d) \/ llist_last_index_of(d)
    \/ \E n \in Live : lnode_is_first(n) \/ lnode_is_last(n) \/ lnode_data(n)
    \/ llist_iterator_has_next

-----------------------------------------------------------------------------
(* The iterator.  It must not be used once it is lost: entry is the address  *)
(* of a freed node.                                                          *)
llist_iterator_restart ==
    /\ Alive
    /\ entry' = first /\ lost' = FALSE /\ result' = NULL
    /\ UNCHANGED list

llist_iterator_next ==
    /\ Alive /\ ~lost /\ entry # NULL
    /\ result' = nodes[entry].data
    /\ entry' = Next(entry)
    /\ UNCHANGED <<list, lost>>

llist_iterator_previous ==
    /\ Alive /\ ~lost
    /\ LET n == IF entry = NULL THEN last ELSE Previous(entry)
       IN  n # NULL /\ entry' = n /\ result' = nodes[n].data
    /\ UNCHANGED <<list, lost>>

llist_iterator_remove ==
    /\ Alive /\ ~lost
    /\ IF first = entry
         THEN Nothing(Died)     \* "Called iterator_remove before first iterator_next"
         ELSE /\ llist_remove_entry(IF entry = NULL THEN last ELSE Previous(entry))
              /\ Done(NULL)

(* Mutant: the iterator then stands before what it added.                    *)
llist_iterator_add_before(d) ==
    /\ Alive /\ ~lost
    /\ \E n \in Free :
         /\ IF entry = NULL THEN AddLast(n, d) ELSE Link(n, d, Previous(entry), entry)
         /\ entry' = n
    /\ result' = NULL /\ UNCHANGED lost

llist_iterator_add(d) ==
    /\ Alive /\ ~lost
    /\ \E n \in Free :
         IF entry = NULL THEN AddLast(n, d) ELSE Link(n, d, Previous(entry), entry)
    /\ Done(NULL)

-----------------------------------------------------------------------------
Step ==
    \/ \E d \in Data :
         \/ llist_add_first(d) \/ llist_add_last(d) \/ llist_remove(d) \/ llist_iterator_add(d)
         \/ \E index \in 0..(size + 1) : llist_add_at(index, d) \/ llist_set(index, d)
         \/ \E n \in Live : lnode_add_after(n, d) \/ lnode_add_before(n, d)
    \/ \E index \in 0..(size + 1) : llist_remove_at(index) \/ llist_get(index)
    \/ \E n \in Live : lnode_remove(n)
    \/ llist_remove_first \/ llist_remove_last \/ llist_clear \/ llist_reverse
    \/ llist_iterator_restart \/ llist_iterator_next \/ llist_iterator_previous
    \/ llist_iterator_remove \/ Look

Spec == Init /\ [][Step]_vars

-----------------------------------------------------------------------------
TypeOK ==
    /\ Live \subseteq LNode
    /\ \A n \in Live : nodes[n] \in [data : Data, next : Live \cup {NULL}, previous : Live \cup {NULL}]
    /\ {first, last} \subseteq Live \cup {NULL}
    /\ size \in 0..Cardinality(LNode)
    /\ entry \in LNode \cup {NULL} /\ lost \in BOOLEAN
    /\ result \in Data \cup {NULL, Died} \cup (-1)..Cardinality(LNode)

(* Both ways through the list meet the same nodes, in opposite order, and    *)
(* end; every node that is allocated is on the list, and size counts them.   *)
WellLinked ==
    /\ size = Cardinality(Live)
    /\ FromFirst[size] = NULL /\ FromLast[size] = NULL
    /\ \A k \in 0..(size - 1) :
         FromFirst[k] \in Live /\ FromLast[size - 1 - k] = FromFirst[k]

(* What the list stands for.                                                 *)
Values   == [i \in 1..size |-> nodes[FromFirst[i - 1]].data]
Index(n) == 1 + CHOOSE k \in 0..(size - 1) : FromFirst[k] = n
Cursor   == IF lost THEN 0 ELSE IF entry = NULL THEN size + 1 ELSE Index(entry)

AsSequence == INSTANCE CursorList WITH seq <- Values, cursor <- Cursor

(* The nodes and pointers implement a sequence and its iterator: whatever    *)
(* nodes are taken out or put in, also behind the back of the iterator.      *)
ImplementsSequence == AsSequence!Spec

(* Every call puts in, takes out or looks at the place its name tells.  One  *)
(* does not: llist_set returns the data at its place and should put the new  *)
(* data there, but puts in what it found; only what it returns is claimed.   *)
PutsAsNamed(d) ==
    /\ llist_add_first(d) => AsSequence!Insert(1, d)
    /\ llist_add_last(d) => AsSequence!Insert(size + 1, d)
    /\ llist_iterator_add(d) => AsSequence!Insert(Cursor, d)
    /\ \A index \in 0..size : llist_add_at(index, d) => AsSequence!Insert(index + 1, d)
    /\ \A n \in Live :
         /\ lnode_add_before(n, d) => AsSequence!Insert(Index(n), d)
         /\ lnode_add_after(n, d) => AsSequence!Insert(Index(n) + 1, d)

RemovesFirstOf(d) ==
    llist_remove(d) =>
      /\ result' = Bool(d \in Range(Values))
      /\ IF d \in Range(Values) THEN AsSequence!Delete(AsSequence!FirstIndex(d))
         ELSE UNCHANGED Values

TakesAsNamed ==
    /\ \A n \in Live : lnode_remove(n) => AsSequence!Delete(Index(n))
    /\ \A index \in 0..(size - 1) : llist_remove_at(index) => AsSequence!Delete(index + 1)
    /\ size > 0 =>
         /\ llist_remove_first => AsSequence!Delete(1) /\ result' = Values[1]
         /\ llist_remove_last => AsSequence!Delete(size) /\ result' = Values[size]

LooksAsNamed ==
    /\ \A index \in 0..(size - 1) :
         llist_get(index) \/ (\E d \in Data : llist_set(index, d)) => result' = Values[index + 1]
    /\ llist_size => result' = Len(Values)
    /\ llist_is_empty => result' = Bool(Values = <<>>)
    /\ llist_iterator_has_next => result' = Bool(Cursor <= size)
    /\ size > 0 =>
         /\ llist_get_first => result' = Values[1]
         /\ llist_get_last => result' = Values[size]

FindsAsNamed(d) ==
    /\ llist_contains(d) => result' = Bool(d \in Range(Values))
    /\ llist_index_of(d) => result' = AsSequence!FirstIndex(d) - 1
    /\ llist_last_index_of(d) => result' = AsSequence!LastIndex(d) - 1

TellsOf(n) ==
    /\ lnode_is_first(n) => result' = Bool(Index(n) = 1)
    /\ lnode_is_last(n) => result' = Bool(Index(n) = size)
    /\ lnode_data(n) => result' = Values[Index(n)]

CallsDoAsNamed ==
    [][/\ \A d \in Data : PutsAsNamed(d) /\ RemovesFirstOf(d) /\ FindsAsNamed(d)
       /\ \A n \in Live : TellsOf(n)
       /\ TakesAsNamed /\ LooksAsNamed]_vars
===============================================================================
