---------------------------- MODULE Script_proofs ----------------------------
(***************************************************************************)
(* The script in memory, for every script: any names, any number of         *)
(* objects, any nesting of files and bodies.                                *)
(*                                                                         *)
(* IInv: the objects are well formed and lead only to objects made before   *)
(* them.  The heap only grows, and an object keeps its kind (Grows), so     *)
(* what the rest of the state says of the heap stays true: it is enough to  *)
(* show that every new object, and every changed count, leaves the heap     *)
(* itself Sound.                                                            *)
(*                                                                         *)
(* Parsed: every rule has one owner, and the counts are right.  Inside a    *)
(* step the rule that was just made is Loose, the only one that no one      *)
(* owns, until it is placed.                                                *)
(*                                                                         *)
(* Freed: while the script is given back, every rule is come by once, and   *)
(* a style's count covers the calls and the rules that will still take one  *)
(* off it.                                                                  *)
(***************************************************************************)
EXTENDS Script, FiniteSetTheorems, SequenceTheorems, TLAPS

Kinds == {"style", "macro", "style_rule", "macro_rule", "match", "multi", "leaf"}

Addresses(h)  == 1..Len(h)
OfKind(h, k)  == {a \in Addresses(h) : h[a].kind = k}
RulesIn(h)    == {a \in Addresses(h) : IsRule(h[a])}
RulesOrNil(h) == RulesIn(h) \cup {NoRule}

OpenIn(h) ==
    [what : {"file", "match", "macro", "prepend", "append"},
     name : Names \cup {""}, list : Seq(RulesIn(h))]

CallRecord == [fn : {"free_style", "free_macro", "free_rule", "free"}, of : Nat]

TakesIn(h, call) ==
    CASE call.fn = "free_style" -> call.of \in OfKind(h, "style")
      [] call.fn = "free_macro" -> call.of \in OfKind(h, "macro")
      [] call.fn = "free_rule"  -> call.of \in Addresses(h) \cup {NoRule}
      [] call.fn = "free"       -> call.of \in Addresses(h)
      [] OTHER                  -> FALSE

CallIn(h) == {call \in CallRecord : TakesIn(h, call)}

(* The heap: every object leads to fitting objects made before it.           *)
Sound(h) ==
    /\ h \in Seq(Object)
    /\ \A a \in Addresses(h) : \A b \in Leads(h[a]) :
         b \in Addresses(h) /\ b < a /\ Fits(h[a], h[b])

Grows(h, g) ==
    /\ Len(h) \in Nat /\ Len(g) \in Nat /\ Len(h) <= Len(g)
    /\ \A a \in Addresses(h) : g[a].kind = h[a].kind

(* The inductive invariant.  The types and the order need each other: the    *)
(* types alone say that an object leads to addresses, not that they are old. *)
IInv ==
    /\ Sound(heap)
    /\ freed \subseteq Addresses(heap)
    /\ styles \in [DOMAIN styles -> OfKind(heap, "style")]
    /\ macros \in [DOMAIN macros -> OfKind(heap, "macro")]
    /\ prepend_rule \in RulesOrNil(heap)
    /\ append_rule \in RulesOrNil(heap)
    /\ rule \in RulesOrNil(heap)
    /\ open \in Seq(OpenIn(heap))
    /\ calls \in Seq(CallIn(heap))
    /\ phase \in {"parse", "run", "free", "done", "dead"}

-----------------------------------------------------------------------------
(* Objects.                                                                  *)
LEMMA ObjectParts ==
    ASSUME NEW o \in Object
    PROVE  /\ o.kind \in Kinds
           /\ o.kind \in {"style", "macro"} => o.refs \in Int
           /\ o.kind \in {"macro", "match"} => o.rule \in Nat
           /\ o.kind = "style_rule" => o.style \in Nat
           /\ o.kind = "macro_rule" => o.macro \in Nat
           /\ o.kind = "multi" => o.rules \in Seq(Nat)
  BY DEF Object, Kinds

LEMMA Recounted ==
    ASSUME NEW o \in Object, o.kind \in {"style", "macro"}, NEW n \in Int
    PROVE  /\ [o EXCEPT !.refs = n] \in Object
           /\ [o EXCEPT !.refs = n].kind = o.kind
           /\ Leads([o EXCEPT !.refs = n]) = Leads(o)
<1> DEFINE p == [o EXCEPT !.refs = n]
<1>1. CASE o.kind = "style"
  <2>1. o \in [kind : {"style"}, refs : Int]
    BY <1>1 DEF Object
  <2>2. p \in [kind : {"style"}, refs : Int]
    BY <2>1
  <2> QED
    BY <1>1, <2>2 DEF Object, Leads
<1>2. CASE o.kind = "macro"
  <2>1. o \in [kind : {"macro"}, refs : Int, rule : Nat]
    BY <1>2 DEF Object
  <2>2. p \in [kind : {"macro"}, refs : Int, rule : Nat] /\ p.rule = o.rule
    BY <2>1
  <2> QED
    BY <1>2, <2>1, <2>2 DEF Object, Leads
<1> QED
  BY <1>1, <1>2

(* Whether one object may lead to another depends on their kinds.            *)
LEMMA FitsByKind ==
    ASSUME NEW o, NEW p, NEW x, NEW y, o.kind = p.kind, x.kind = y.kind
    PROVE  Fits(o, x) = Fits(p, y)
  BY DEF Fits, IsRule

-----------------------------------------------------------------------------
(* A heap that grows.                                                        *)
LEMMA GrowsKeeps ==
    ASSUME NEW h, NEW g, Grows(h, g)
    PROVE  /\ Addresses(h) \subseteq Addresses(g)
           /\ \A k : OfKind(h, k) \subseteq OfKind(g, k)
           /\ RulesIn(h) \subseteq RulesIn(g)
           /\ RulesOrNil(h) \subseteq RulesOrNil(g)
  BY DEF Grows, Addresses, OfKind, RulesIn, RulesOrNil, IsRule

LEMMA GrowsTwice ==
    ASSUME NEW h, NEW g, NEW f, Grows(h, g), Grows(g, f)
    PROVE  Grows(h, f)
  BY DEF Grows, Addresses

LEMMA GrowsSeq ==
    ASSUME NEW h, NEW g, Grows(h, g)
    PROVE  /\ Seq(RulesIn(h)) \subseteq Seq(RulesIn(g))
           /\ OpenIn(h) \subseteq OpenIn(g)
           /\ Seq(OpenIn(h)) \subseteq Seq(OpenIn(g))
           /\ CallIn(h) \subseteq CallIn(g)
           /\ Seq(CallIn(h)) \subseteq Seq(CallIn(g))
<1>1. Seq(RulesIn(h)) \subseteq Seq(RulesIn(g))
  BY GrowsKeeps, SeqMonotonic
<1>2. OpenIn(h) \subseteq OpenIn(g)
  BY <1>1 DEF OpenIn
<1>3. CallIn(h) \subseteq CallIn(g)
  BY GrowsKeeps DEF CallIn, TakesIn
<1> QED
  BY <1>1, <1>2, <1>3, SeqMonotonic

(* Everything but the heap stays as it is when the heap grows.               *)
LEMMA GrowsTables ==
    ASSUME NEW h, NEW g, Grows(h, g), NEW k,
           NEW f, f \in [DOMAIN f -> OfKind(h, k)]
    PROVE  f \in [DOMAIN f -> OfKind(g, k)]
  BY GrowsKeeps

(* A new object at the end of the heap.                                      *)
LEMMA AppendSound ==
    ASSUME NEW h, Sound(h), NEW o \in Object,
           \A b \in Leads(o) : b \in Addresses(h) /\ Fits(o, h[b])
    PROVE  /\ Sound(Append(h, o))
           /\ Grows(h, Append(h, o))
           /\ Len(Append(h, o)) = Len(h) + 1
           /\ Len(Append(h, o)) \in Addresses(Append(h, o))
           /\ Append(h, o)[Len(Append(h, o))] = o
<1> DEFINE g == Append(h, o)
<1>1. h \in Seq(Object) /\ Len(h) \in Nat
  BY DEF Sound
<1>2. /\ g \in Seq(Object) /\ Len(g) = Len(h) + 1 /\ g[Len(h) + 1] = o
      /\ \A a \in 1..Len(h) : g[a] = h[a]
  BY <1>1, AppendProperties
<1> HIDE DEF g
<1>3. Grows(h, g)
  BY <1>1, <1>2 DEF Grows, Addresses
<1>4. Sound(g)
  <2> SUFFICES ASSUME NEW a \in Addresses(g), NEW b \in Leads(g[a])
               PROVE  b \in Addresses(g) /\ b < a /\ Fits(g[a], g[b])
    BY <1>2 DEF Sound
  <2>1. CASE a \in Addresses(h)
    BY <2>1, <1>1, <1>2 DEF Sound, Addresses
  <2>2. CASE a = Len(h) + 1
    BY <2>2, <1>1, <1>2 DEF Addresses
  <2> QED
    BY <2>1, <2>2, <1>1, <1>2 DEF Addresses
<1> QED
  BY <1>1, <1>2, <1>3, <1>4 DEF g, Addresses

(* A count that changes.                                                     *)
LEMMA CountSound ==
    ASSUME NEW h, Sound(h), NEW n \in Int,
           NEW a \in OfKind(h, "style") \cup OfKind(h, "macro")
    PROVE  /\ Sound([h EXCEPT ![a].refs = n])
           /\ Grows(h, [h EXCEPT ![a].refs = n])
           /\ Grows([h EXCEPT ![a].refs = n], h)
<1> DEFINE g == [h EXCEPT ![a].refs = n]
<1>1. h \in Seq(Object) /\ Len(h) \in Nat /\ a \in 1..Len(h)
  BY DEF Sound, OfKind, Addresses
<1>2. h[a] \in Object /\ h[a].kind \in {"style", "macro"}
  BY <1>1 DEF OfKind
<1>3. /\ [h[a] EXCEPT !.refs = n] \in Object
      /\ [h[a] EXCEPT !.refs = n].kind = h[a].kind
      /\ Leads([h[a] EXCEPT !.refs = n]) = Leads(h[a])
  BY <1>2, Recounted
<1>4. g = [h EXCEPT ![a] = [h[a] EXCEPT !.refs = n]]
  OBVIOUS
<1>5. /\ g \in Seq(Object) /\ Len(g) = Len(h)
      /\ g[a] = [h[a] EXCEPT !.refs = n]
      /\ \A b \in 1..Len(h) : b # a => g[b] = h[b]
  BY <1>1, <1>3, <1>4, ExceptSeq
<1> HIDE DEF g
<1>6. \A b \in Addresses(h) : g[b].kind = h[b].kind /\ Leads(g[b]) = Leads(h[b])
  BY <1>3, <1>5 DEF Addresses
<1>7. Sound(g)
  <2> SUFFICES ASSUME NEW x \in Addresses(g), NEW b \in Leads(g[x])
               PROVE  b \in Addresses(g) /\ b < x /\ Fits(g[x], g[b])
    BY <1>5 DEF Sound
  <2>1. x \in Addresses(h) /\ b \in Leads(h[x])
    BY <1>5, <1>6 DEF Addresses
  <2>2. b \in Addresses(h) /\ b < x /\ Fits(h[x], h[b])
    BY <2>1 DEF Sound
  <2>3. g[x].kind = h[x].kind /\ g[b].kind = h[b].kind
    BY <2>1, <2>2, <1>6
  <2>4. Fits(g[x], g[b]) = Fits(h[x], h[b])
    BY <2>3, FitsByKind
  <2> QED
    BY <2>2, <2>4, <1>5 DEF Addresses
<1>8. Grows(h, g) /\ Grows(g, h)
  BY <1>1, <1>5, <1>6 DEF Grows, Addresses
<1> QED
  BY <1>7, <1>8 DEF g

-----------------------------------------------------------------------------
(* A list of rules becomes one rule.                                         *)
LEMMA MultiSound ==
    ASSUME NEW h, Sound(h), NEW list \in Seq(RulesIn(h))
    PROVE  /\ Sound(new_multi_rule(h, list).heap)
           /\ Grows(h, new_multi_rule(h, list).heap)
           /\ new_multi_rule(h, list).rule \in RulesIn(new_multi_rule(h, list).heap)
<1>1. h \in Seq(Object) /\ Len(h) \in Nat
  BY DEF Sound
<1>2. CASE Len(list) = 1
  <2>1. list[1] \in RulesIn(h)
    BY <1>2, LenProperties
  <2> QED
    BY <1>1, <1>2, <2>1 DEF new_multi_rule, Grows
<1>3. CASE Len(list) # 1
  <2> DEFINE o == MultiRule(list)
             g == Append(h, o)
  <2>1. RulesIn(h) \subseteq Nat
    BY <1>1 DEF RulesIn, Addresses
  <2>2. list \in Seq(Nat)
    BY <2>1, SeqMonotonic
  <2>3. o \in Object
    BY <2>2 DEF MultiRule, Object
  <2>4. Leads(o) = Range(list)
    BY DEF Leads, MultiRule
  <2>5. ASSUME NEW b \in Range(list)
        PROVE  b \in Addresses(h) /\ Fits(o, h[b])
    <3>1. b \in RulesIn(h)
      BY RangeOfSeq
    <3> QED
      BY <3>1 DEF RulesIn, Fits, MultiRule
  <2>6. /\ Sound(g) /\ Grows(h, g) /\ Len(g) = Len(h) + 1
        /\ Len(g) \in Addresses(g) /\ g[Len(g)] = o
    BY <2>3, <2>4, <2>5, AppendSound
  <2>7. Len(g) \in RulesIn(g)
    BY <2>6 DEF RulesIn, IsRule, MultiRule
  <2>8. new_multi_rule(h, list) = [heap |-> g, rule |-> Len(g)]
    BY <1>3, <2>6 DEF new_multi_rule
  <2> QED
    BY <2>6, <2>7, <2>8
<1> QED
  BY <1>2, <1>3

-----------------------------------------------------------------------------
(* What is being read.                                                       *)
LEMMA TopIn ==
    ASSUME NEW h, NEW stack \in Seq(OpenIn(h)), stack # <<>>
    PROVE  /\ Last(stack).list \in Seq(RulesIn(h))
           /\ Last(stack).name \in Names \cup {""}
           /\ Front(stack) \in Seq(OpenIn(h))
<1>1. Len(stack) \in Nat /\ Len(stack) # 0
  BY EmptySeq
<1>2. Last(stack) \in OpenIn(h)
  BY <1>1, ElementOfSeq DEF Last
<1>3. Front(stack) \in Seq(OpenIn(h))
  BY <1>1, SubSeqProperties DEF Front
<1> QED
  BY <1>2, <1>3 DEF OpenIn

LEMMA OpenedIn ==
    ASSUME NEW h, NEW stack \in Seq(OpenIn(h)),
           NEW what \in {"file", "match", "macro", "prepend", "append"},
           NEW name \in Names \cup {""}
    PROVE  Append(stack, Open(what, name)) \in Seq(OpenIn(h))
<1>1. <<>> \in Seq(RulesIn(h))
  BY EmptySeq
<1>2. Open(what, name) \in OpenIn(h)
  BY <1>1 DEF Open, OpenIn
<1> QED
  BY <1>2, AppendProperties

LEMMA StatementIn ==
    ASSUME NEW h, NEW stack \in Seq(OpenIn(h)), NEW r \in RulesIn(h)
    PROVE  Statement(stack, r) \in Seq(OpenIn(h))
<1> DEFINE n == Len(stack)
<1>1. n \in Nat
  OBVIOUS
<1>2. CASE n = 0
  <2> DEFINE e == [stack[n] EXCEPT !.list = Append(stack[n].list, r)]
  <2>1. stack \in [{} -> OpenIn(h)]
    BY <1>2, LenProperties
  <2>2. [stack EXCEPT ![n] = e] \in [{} -> OpenIn(h)]
    <3> HIDE DEF e
    <3> QED
      BY <2>1
  <2>3. Statement(stack, r) = [stack EXCEPT ![n] = e]
    BY DEF Statement
  <2>4. 0 \in Nat /\ 1..0 = {}
    OBVIOUS
  <2> QED
    BY <2>2, <2>3, <2>4, SeqDef
<1>3. CASE n # 0
  <2>1. n \in 1..Len(stack) /\ stack[n] \in OpenIn(h)
    BY <1>1, <1>3, ElementOfSeq
  <2>2. stack[n].list \in Seq(RulesIn(h))
    BY <2>1 DEF OpenIn
  <2>3. Append(stack[n].list, r) \in Seq(RulesIn(h))
    BY <2>2, AppendProperties
  <2>4. [stack[n] EXCEPT !.list = Append(stack[n].list, r)] \in OpenIn(h)
    BY <2>1, <2>3 DEF OpenIn
  <2>5. [stack EXCEPT ![n] = [stack[n] EXCEPT !.list = Append(stack[n].list, r)]]
            \in Seq(OpenIn(h))
    BY <2>1, <2>4, ExceptSeq
  <2> QED
    BY <2>5 DEF Statement
<1> QED
  BY <1>2, <1>3

-----------------------------------------------------------------------------
(* The calls of free_script.                                                 *)
LEMMA CallsIn ==
    ASSUME NEW h, NEW fn, NEW S, NEW as \in Seq(S),
           \A x \in S : Call(fn, x) \in CallIn(h)
    PROVE  Calls(fn, as) \in Seq(CallIn(h))
<1>1. Len(as) \in Nat /\ \A i \in 1..Len(as) : as[i] \in S
  BY LenProperties
<1>2. \A i \in 1..Len(as) : Call(fn, as[i]) \in CallIn(h)
  BY <1>1
<1>3. Calls(fn, as) \in [1..Len(as) -> CallIn(h)]
  BY <1>2 DEF Calls
<1> QED
  BY <1>1, <1>3, SeqDef

(* The order in which a table is visited is a list of what it holds.         *)
LEMMA TableListed ==
    ASSUME NEW h, Len(h) \in Nat, NEW k,
           NEW f, f \in [DOMAIN f -> OfKind(h, k)], NEW s \in SetToSeqs(Range(f))
    PROVE  s \in Seq(OfKind(h, k))
<1>1. Range(f) \subseteq OfKind(h, k)
  BY DEF Range
<1>2. Range(f) \in SUBSET (1..Len(h))
  BY <1>1 DEF OfKind, Addresses
<1>3. IsFiniteSet(1..Len(h))
  <2>1. 1 \in Int /\ Len(h) \in Int
    OBVIOUS
  <2> QED
    BY <2>1, FS_Interval, Zenon
<1>4. IsFiniteSet(Range(f))
  BY <1>2, <1>3, FS_Subset
<1>5. Cardinality(Range(f)) \in Nat
  BY <1>4, FS_CardinalityType
<1>6. s \in [1..Cardinality(Range(f)) -> Range(f)]
  BY DEF SetToSeqs
<1>7. s \in Seq(Range(f))
  BY <1>5, <1>6, SeqDef
<1> QED
  BY <1>1, <1>7, SeqMonotonic

LEMMA ReturnIn ==
    ASSUME NEW h, NEW list \in Seq(CallIn(h)), list # <<>>, NEW more \in Seq(CallIn(h))
    PROVE  more \o Tail(list) \in Seq(CallIn(h))
  BY HeadTailProperties, ConcatProperties

-----------------------------------------------------------------------------
(* What the state says of the heap stays true when the heap grows.           *)
LEMMA GrowsState ==
    ASSUME IInv, NEW g, Grows(heap, g)
    PROVE  /\ freed \subseteq Addresses(g)
           /\ styles \in [DOMAIN styles -> OfKind(g, "style")]
           /\ macros \in [DOMAIN macros -> OfKind(g, "macro")]
           /\ prepend_rule \in RulesOrNil(g)
           /\ append_rule \in RulesOrNil(g)
           /\ rule \in RulesOrNil(g)
           /\ open \in Seq(OpenIn(g))
           /\ calls \in Seq(CallIn(g))
<1>1. freed \subseteq Addresses(g) /\ {prepend_rule, append_rule, rule} \subseteq RulesOrNil(g)
  BY GrowsKeeps DEF IInv
<1>2. /\ styles \in [DOMAIN styles -> OfKind(g, "style")]
      /\ macros \in [DOMAIN macros -> OfKind(g, "macro")]
  BY GrowsTables DEF IInv
<1>3. open \in Seq(OpenIn(g)) /\ calls \in Seq(CallIn(g))
  BY GrowsSeq DEF IInv
<1> QED
  BY <1>1, <1>2, <1>3

(* The body that ends, as one rule.                                          *)
LEMMA BodyIn ==
    ASSUME IInv, open # <<>>
    PROVE  /\ Sound(Body.heap)
           /\ Grows(heap, Body.heap)
           /\ Body.rule \in RulesIn(Body.heap)
<1>1. top.list \in Seq(RulesIn(heap))
  BY TopIn DEF IInv, top
<1> QED
  BY <1>1, MultiSound DEF IInv, Body

(* A new name for a new object.                                              *)
LEMMA PutIn ==
    ASSUME NEW S, NEW f, f \in [DOMAIN f -> S], NEW x, NEW y \in S
    PROVE  Put(f, x, y) \in [DOMAIN Put(f, x, y) -> S]
  BY DEF Put

-----------------------------------------------------------------------------
LEMMA InitIInv == Init => IInv
<1> SUFFICES ASSUME Init PROVE IInv
  OBVIOUS
<1>1. heap = <<>> /\ freed = {} /\ styles = <<>> /\ macros = <<>> /\ calls = <<>>
  BY DEF Init
<1>2. Sound(heap)
  <2>1. <<>> \in Seq(Object) /\ Len(<<>>) = 0
    BY EmptySeq
  <2> QED
    BY <1>1, <2>1 DEF Sound, Addresses
<1>3. DOMAIN styles = {} /\ DOMAIN macros = {}
  BY <1>1
<1>4. /\ styles \in [DOMAIN styles -> OfKind(heap, "style")]
      /\ macros \in [DOMAIN macros -> OfKind(heap, "macro")]
  BY <1>1, <1>3
<1>5. {prepend_rule, append_rule, rule} \subseteq RulesOrNil(heap)
  BY DEF Init, RulesOrNil
<1>6. open \in Seq(OpenIn(heap))
  <2>1. <<>> \in Seq(OpenIn(heap))
    BY EmptySeq
  <2>2. Append(<<>>, Open("file", "")) \in Seq(OpenIn(heap))
    BY <2>1, OpenedIn
  <2>3. <<Open("file", "")>> = Append(<<>>, Open("file", ""))
    OBVIOUS
  <2> QED
    BY <2>2, <2>3 DEF Init
<1>7. calls \in Seq(CallIn(heap))
  BY <1>1, EmptySeq
<1> QED
  BY <1>1, <1>2, <1>4, <1>5, <1>6, <1>7 DEF Init, IInv

-----------------------------------------------------------------------------
(* One lemma for each action, or for the actions that do the same things to  *)
(* the heap.                                                                 *)
LEMMA DeclareStyleStep ==
    ASSUME IInv, NEW n \in Names, DeclareStyle(n)
    PROVE  IInv'
<1>1. Style \in Object /\ Leads(Style) = {} /\ Style.kind = "style"
  BY DEF Style, Object, Leads
<1>2. heap' = Append(heap, Style)
  BY DEF DeclareStyle
<1>3. /\ Sound(heap') /\ Grows(heap, heap')
      /\ Len(heap') \in Addresses(heap') /\ heap'[Len(heap')] = Style
  BY <1>1, <1>2, AppendSound DEF IInv
<1>4. Len(heap') \in OfKind(heap', "style")
  BY <1>1, <1>3 DEF OfKind
<1>5. styles' \in [DOMAIN styles' -> OfKind(heap', "style")]
  <2>1. styles \in [DOMAIN styles -> OfKind(heap', "style")]
    BY <1>3, GrowsState
  <2> QED
    BY <2>1, <1>4, PutIn DEF DeclareStyle
<1>6. UNCHANGED <<freed, macros, roots, open, calls, phase>>
  BY DEF DeclareStyle
<1> QED
  BY <1>3, <1>5, <1>6, GrowsState DEF IInv, roots

(* A new rule is the next statement of what is being read.                   *)
LEMMA StatementStep ==
    ASSUME IInv, UNCHANGED <<freed, styles, macros, roots, calls, phase>>,
           Sound(heap'), Grows(heap, heap'),
           NEW stack \in Seq(OpenIn(heap)), NEW r \in RulesIn(heap'),
           open' = Statement(stack, r)
    PROVE  IInv'
<1>1. stack \in Seq(OpenIn(heap'))
  BY GrowsSeq
<1>2. open' \in Seq(OpenIn(heap'))
  BY <1>1, StatementIn
<1> QED
  BY <1>2, GrowsState DEF IInv, roots

LEMMA AppendRule ==
    ASSUME NEW h, Sound(h), NEW o \in Object, IsRule(o),
           \A b \in Leads(o) : b \in Addresses(h) /\ Fits(o, h[b])
    PROVE  Len(Append(h, o)) \in RulesIn(Append(h, o))
<1>1. /\ Len(Append(h, o)) \in Addresses(Append(h, o))
      /\ Append(h, o)[Len(Append(h, o))] = o
  BY AppendSound
<1> QED
  BY <1>1 DEF RulesIn

(* A rule that names a style or a macro, after the use is counted.           *)
LEMMA UseSound ==
    ASSUME NEW h, Sound(h), NEW k \in {"style", "macro"}, NEW a \in OfKind(h, k),
           NEW o \in Object, IsRule(o), Leads(o) = {a},
           \A x : x.kind = k => Fits(o, x)
    PROVE  LET g == Append([h EXCEPT ![a].refs = @ + 1], o)
           IN  Sound(g) /\ Grows(h, g) /\ Len(g) \in RulesIn(g)
<1> DEFINE m == [h EXCEPT ![a].refs = h[a].refs + 1]
           g == Append(m, o)
<1>1. h \in Seq(Object) /\ a \in 1..Len(h) /\ h[a].kind = k
  BY DEF Sound, OfKind, Addresses
<1>2. h[a] \in Object
  BY <1>1, ElementOfSeq
<1>3. h[a].refs + 1 \in Int
  BY <1>1, <1>2, ObjectParts
<1>4. Sound(m) /\ Grows(h, m)
  BY <1>3, CountSound
<1> HIDE DEF m
<1>5. a \in OfKind(m, k)
  BY <1>4, GrowsKeeps
<1>6. \A b \in Leads(o) : b \in Addresses(m) /\ Fits(o, m[b])
  BY <1>5 DEF OfKind
<1>7. Sound(g) /\ Grows(m, g)
  BY <1>4, <1>6, AppendSound
<1>8. Len(g) \in RulesIn(g)
  BY <1>4, <1>6, AppendRule
<1>9. Grows(h, g)
  BY <1>4, <1>7, GrowsTwice
<1> QED
  BY <1>7, <1>8, <1>9 DEF m

LEMMA NameMacroStep ==
    ASSUME IInv, NEW n \in Names, NameMacro(n)
    PROVE  IInv'
<1> DEFINE a == macros[n]
           o == MacroRule(a)
<1>1. a \in OfKind(heap, "macro")
  BY DEF IInv, NameMacro
<1>2. a \in Nat
  BY <1>1 DEF OfKind, Addresses
<1>3. o \in Object /\ IsRule(o) /\ Leads(o) = {a} /\ \A x : x.kind = "macro" => Fits(o, x)
  BY <1>2 DEF MacroRule, Object, IsRule, Leads, Fits
<1>4. heap' = Append([heap EXCEPT ![a].refs = @ + 1], o)
  BY DEF NameMacro, new_macro_rule
<1> HIDE DEF a, o
<1>5. Sound(heap') /\ Grows(heap, heap') /\ Len(heap') \in RulesIn(heap')
  BY <1>1, <1>3, <1>4, UseSound DEF IInv
<1>6. open' = Statement(open, Len(heap'))
  BY DEF NameMacro
<1> QED
  BY <1>5, <1>6, StatementStep DEF NameMacro, IInv

LEMMA NameStyleStep ==
    ASSUME IInv, NEW n \in Names, NameStyle(n)
    PROVE  IInv'
<1> DEFINE a == styles[n]
           o == StyleRule(a)
<1>1. a \in OfKind(heap, "style")
  BY DEF IInv, NameStyle
<1>2. a \in Nat
  BY <1>1 DEF OfKind, Addresses
<1>3. o \in Object /\ IsRule(o) /\ Leads(o) = {a} /\ \A x : x.kind = "style" => Fits(o, x)
  BY <1>2 DEF StyleRule, Object, IsRule, Leads, Fits
<1>4. heap' = Append([heap EXCEPT ![a].refs = @ + 1], o)
  BY DEF NameStyle, new_style_rule
<1> HIDE DEF a, o
<1>5. Sound(heap') /\ Grows(heap, heap') /\ Len(heap') \in RulesIn(heap')
  BY <1>1, <1>3, <1>4, UseSound DEF IInv
<1>6. open' = Statement(open, Len(heap'))
  BY DEF NameStyle
<1> QED
  BY <1>5, <1>6, StatementStep DEF NameStyle, IInv

LEMMA LeafRuleStep ==
    ASSUME IInv, LeafRule
    PROVE  IInv'
<1>1. Leaf \in Object /\ IsRule(Leaf) /\ Leads(Leaf) = {}
  BY DEF Leaf, Object, IsRule, Leads
<1>2. heap' = Append(heap, Leaf)
  BY DEF LeafRule
<1>3. Sound(heap') /\ Grows(heap, heap') /\ Len(heap') \in RulesIn(heap')
  BY <1>1, <1>2, AppendSound, AppendRule DEF IInv
<1>4. open' = Statement(open, Len(heap'))
  BY DEF LeafRule
<1> QED
  BY <1>3, <1>4, StatementStep DEF LeafRule, IInv

LEMMA OpenBodyStep ==
    ASSUME IInv, NEW what \in {"match", "macro", "prepend", "append"},
           NEW n \in Names \cup {""}, OpenBody(what, n)
    PROVE  IInv'
<1>1. open' \in Seq(OpenIn(heap))
  BY OpenedIn DEF IInv, OpenBody
<1> QED
  BY <1>1 DEF IInv, OpenBody, roots

LEMMA IncludeStep ==
    ASSUME IInv, Include
    PROVE  IInv'
<1>1. open' \in Seq(OpenIn(heap))
  BY OpenedIn DEF IInv, Include
<1> QED
  BY <1>1 DEF IInv, Include, roots

LEMMA CloseMatchStep ==
    ASSUME IInv, CloseMatch
    PROVE  IInv'
<1> DEFINE o == MatchRule(Body.rule)
<1>1. open # <<>>
  BY DEF CloseMatch, Parsing
<1>2. Sound(Body.heap) /\ Grows(heap, Body.heap) /\ Body.rule \in RulesIn(Body.heap)
  BY <1>1, BodyIn
<1>3. Body.rule \in Nat
  BY <1>2 DEF RulesIn, Addresses
<1>4. /\ o \in Object /\ IsRule(o)
      /\ \A b \in Leads(o) : b \in Addresses(Body.heap) /\ Fits(o, Body.heap[b])
  BY <1>2, <1>3 DEF MatchRule, Object, IsRule, Leads, Fits, RulesIn
<1>5. heap' = Append(Body.heap, o)
  BY DEF CloseMatch
<1> HIDE DEF o
<1>6. Sound(heap') /\ Grows(heap, heap') /\ Len(heap') \in RulesIn(heap')
  BY <1>2, <1>4, <1>5, AppendSound, AppendRule, GrowsTwice
<1>7. Front(open) \in Seq(OpenIn(heap))
  BY <1>1, TopIn DEF IInv
<1> QED
  BY <1>6, <1>7, StatementStep DEF CloseMatch

LEMMA CloseMacroStep ==
    ASSUME IInv, CloseMacro
    PROVE  IInv'
<1> DEFINE o == Macro(Body.rule)
<1>1. open # <<>>
  BY DEF CloseMacro, Parsing
<1>2. Sound(Body.heap) /\ Grows(heap, Body.heap) /\ Body.rule \in RulesIn(Body.heap)
  BY <1>1, BodyIn
<1>3. Body.rule \in Nat
  BY <1>2 DEF RulesIn, Addresses
<1>4. /\ o \in Object /\ o.kind = "macro"
      /\ \A b \in Leads(o) : b \in Addresses(Body.heap) /\ Fits(o, Body.heap[b])
  BY <1>2, <1>3 DEF Macro, Object, Leads, Fits, RulesIn
<1>5. heap' = Append(Body.heap, o)
  BY DEF CloseMacro
<1> HIDE DEF o
<1>6. /\ Sound(heap') /\ Grows(heap, heap')
      /\ Len(heap') \in Addresses(heap') /\ heap'[Len(heap')] = o
  BY <1>2, <1>4, <1>5, AppendSound, GrowsTwice
<1>7. Len(heap') \in OfKind(heap', "macro")
  BY <1>4, <1>6 DEF OfKind
<1>8. macros' \in [DOMAIN macros' -> OfKind(heap', "macro")]
  <2>1. macros \in [DOMAIN macros -> OfKind(heap', "macro")]
    BY <1>6, GrowsState
  <2> QED
    BY <2>1, <1>7, PutIn DEF CloseMacro
<1>9. open' \in Seq(OpenIn(heap'))
  <2>1. Front(open) \in Seq(OpenIn(heap))
    BY <1>1, TopIn DEF IInv
  <2> QED
    BY <2>1, <1>6, GrowsSeq DEF CloseMacro
<1>10. UNCHANGED <<freed, styles, roots, calls, phase>>
  BY DEF CloseMacro
<1> QED
  BY <1>6, <1>8, <1>9, <1>10, GrowsState DEF IInv, roots

(* PREPEND and APPEND: the body becomes a rule of the script.                *)
LEMMA CloseRootStep ==
    ASSUME IInv, ClosePrepend \/ CloseAppend
    PROVE  IInv'
<1>1. open # <<>>
  BY DEF ClosePrepend, CloseAppend, Parsing
<1>2. Sound(Body.heap) /\ Grows(heap, Body.heap) /\ Body.rule \in RulesIn(Body.heap)
  BY <1>1, BodyIn
<1>3. heap' = Body.heap /\ open' = Front(open)
  BY DEF ClosePrepend, CloseAppend
<1>4. open' \in Seq(OpenIn(heap'))
  <2>1. Front(open) \in Seq(OpenIn(heap))
    BY <1>1, TopIn DEF IInv
  <2> QED
    BY <2>1, <1>2, <1>3, GrowsSeq
<1>5. Body.rule \in RulesOrNil(heap')
  BY <1>2, <1>3 DEF RulesOrNil
<1>6. CASE ClosePrepend
  BY <1>2, <1>3, <1>4, <1>5, <1>6, GrowsState DEF IInv, ClosePrepend
<1>7. CASE CloseAppend
  BY <1>2, <1>3, <1>4, <1>5, <1>7, GrowsState DEF IInv, CloseAppend
<1> QED
  BY <1>6, <1>7

LEMMA EndOfIncludeStep ==
    ASSUME IInv, EndOfInclude
    PROVE  IInv'
<1>1. open # <<>>
  BY DEF EndOfInclude, Parsing
<1>2. Sound(Body.heap) /\ Grows(heap, Body.heap) /\ Body.rule \in RulesIn(Body.heap)
  BY <1>1, BodyIn
<1>3. heap' = Body.heap
  BY DEF EndOfInclude
<1>4. Front(open) \in Seq(OpenIn(heap))
  BY <1>1, TopIn DEF IInv
<1> QED
  BY <1>2, <1>3, <1>4, StatementStep DEF EndOfInclude

LEMMA EndOfScriptStep ==
    ASSUME IInv, EndOfScript
    PROVE  IInv'
<1>1. open # <<>>
  <2>1. Len(<<>>) = 0
    BY EmptySeq
  <2> QED
    BY <2>1 DEF EndOfScript
<1>2. Sound(Body.heap) /\ Grows(heap, Body.heap) /\ Body.rule \in RulesIn(Body.heap)
  BY <1>1, BodyIn
<1>3. heap' = Body.heap /\ rule' \in RulesOrNil(heap')
  BY <1>2 DEF EndOfScript, RulesOrNil
<1>4. open' \in Seq(OpenIn(heap'))
  BY EmptySeq DEF EndOfScript
<1> QED
  BY <1>2, <1>3, <1>4, GrowsState DEF IInv, EndOfScript

-----------------------------------------------------------------------------
(* Which calls the state of the heap allows.                                 *)
LEMMA CallAllowed ==
    ASSUME NEW h, Len(h) \in Nat
    PROVE  /\ \A a \in OfKind(h, "style") : Call("free_style", a) \in CallIn(h)
           /\ \A a \in OfKind(h, "macro") : Call("free_macro", a) \in CallIn(h)
           /\ \A a \in Addresses(h) \cup {NoRule} : Call("free_rule", a) \in CallIn(h)
           /\ \A a \in Addresses(h) : Call("free", a) \in CallIn(h)
<1>1. Addresses(h) \cup {NoRule} \subseteq Nat
  BY DEF Addresses, NoRule
<1>2. \A k : OfKind(h, k) \subseteq Addresses(h)
  BY DEF OfKind
<1>3. \A a \in OfKind(h, "style") : Call("free_style", a) \in CallIn(h)
  BY <1>1, <1>2 DEF CallIn, CallRecord, TakesIn, Call
<1>4. \A a \in OfKind(h, "macro") : Call("free_macro", a) \in CallIn(h)
  BY <1>1, <1>2 DEF CallIn, CallRecord, TakesIn, Call
<1>5. \A a \in Addresses(h) \cup {NoRule} : Call("free_rule", a) \in CallIn(h)
  BY <1>1 DEF CallIn, CallRecord, TakesIn, Call
<1>6. \A a \in Addresses(h) : Call("free", a) \in CallIn(h)
  BY <1>1 DEF CallIn, CallRecord, TakesIn, Call
<1> QED
  BY <1>3, <1>4, <1>5, <1>6

LEMMA OneCall ==
    ASSUME NEW S, NEW x \in S
    PROVE  <<x>> \in Seq(S)
<1>1. <<x>> \in [1..1 -> S]
  OBVIOUS
<1> QED
  BY <1>1, SeqDef

LEMMA FreeScriptStep ==
    ASSUME IInv, free_script
    PROVE  IInv'
<1>1. Len(heap) \in Nat
  BY DEF IInv, Sound
<1>2. PICK ss \in SetToSeqs(Range(styles)), ms \in SetToSeqs(Range(macros)) :
        calls' = Calls("free_style", ss) \o Calls("free_rule", ms)
                   \o Calls("free_rule", roots)
  BY DEF free_script
<1>3. Calls("free_style", ss) \in Seq(CallIn(heap))
  <2>1. ss \in Seq(OfKind(heap, "style"))
    BY <1>1, TableListed DEF IInv
  <2> QED
    BY <2>1, <1>1, CallAllowed, CallsIn
<1>4. Calls("free_rule", ms) \in Seq(CallIn(heap))
  <2>1. ms \in Seq(OfKind(heap, "macro"))
    BY <1>1, TableListed DEF IInv
  <2>2. \A a \in OfKind(heap, "macro") : Call("free_rule", a) \in CallIn(heap)
    BY <1>1, CallAllowed DEF OfKind
  <2> QED
    BY <2>1, <2>2, CallsIn
<1>5. Calls("free_rule", roots) \in Seq(CallIn(heap))
  <2>1. {prepend_rule, append_rule, rule} \subseteq Addresses(heap) \cup {NoRule}
    BY DEF IInv, RulesOrNil, RulesIn
  <2>2. roots \in [1..3 -> Addresses(heap) \cup {NoRule}]
    BY <2>1 DEF roots
  <2>3. roots \in Seq(Addresses(heap) \cup {NoRule})
    BY <2>2, SeqDef
  <2> QED
    BY <2>3, <1>1, CallAllowed, CallsIn
<1>6. calls' \in Seq(CallIn(heap))
  BY <1>2, <1>3, <1>4, <1>5, ConcatProperties
<1> QED
  BY <1>6 DEF IInv, free_script, roots

(* The call that is made, and those that are left.                           *)
LEMMA HeadIn ==
    ASSUME IInv, calls # <<>>
    PROVE  Head(calls) \in CallIn(heap) /\ Tail(calls) \in Seq(CallIn(heap))
  BY HeadTailProperties DEF IInv

LEMMA PartsIn ==
    ASSUME NEW h, Sound(h), NEW a \in Addresses(h)
    PROVE  Parts(h[a]) \in Seq(CallIn(h))
<1>1. h \in Seq(Object) /\ Len(h) \in Nat
  BY DEF Sound
<1>2. h[a] \in Object
  BY <1>1, ElementOfSeq DEF Addresses
<1>3. \A b \in Leads(h[a]) : b \in Addresses(h) /\ Fits(h[a], h[b])
  BY DEF Sound
<1>4. CASE h[a].kind = "macro_rule"
  <2>1. h[a].macro \in OfKind(h, "macro")
    BY <1>3, <1>4 DEF Leads, Fits, OfKind
  <2> QED
    BY <2>1, <1>1, <1>4, CallAllowed, OneCall DEF Parts
<1>5. CASE h[a].kind = "style_rule"
  <2>1. h[a].style \in OfKind(h, "style")
    BY <1>3, <1>5 DEF Leads, Fits, OfKind
  <2> QED
    BY <2>1, <1>1, <1>5, CallAllowed, OneCall DEF Parts
<1>6. CASE h[a].kind = "multi"
  <2>1. h[a].rules \in Seq(Nat)
    BY <1>2, <1>6, ObjectParts
  <2>2. Range(h[a].rules) \subseteq Addresses(h)
    BY <1>3, <1>6 DEF Leads
  <2>3. h[a].rules \in Seq(Addresses(h))
    BY <2>1, <2>2, SeqOfRange, SeqMonotonic
  <2>4. \A b \in Addresses(h) : Call("free_rule", b) \in CallIn(h)
    BY <1>1, CallAllowed
  <2> QED
    BY <2>3, <2>4, <1>6, CallsIn DEF Parts
<1>7. CASE h[a].kind \notin {"macro_rule", "style_rule", "multi"}
  BY <1>7, EmptySeq DEF Parts
<1> QED
  BY <1>4, <1>5, <1>6, <1>7

LEMMA FreeRuleStep ==
    ASSUME IInv, free_rule
    PROVE  IInv'
<1>1. calls # <<>> /\ Head(calls).fn = "free_rule"
  BY DEF free_rule, Calling
<1>2. Head(calls) \in CallIn(heap) /\ Len(heap) \in Nat
  BY <1>1, HeadIn DEF IInv, Sound
<1>3. arg \in Addresses(heap) \cup {NoRule}
  BY <1>1, <1>2 DEF CallIn, TakesIn, arg
<1> DEFINE more == IF arg = NoRule THEN <<>> ELSE Parts(obj) \o <<Call("free", arg)>>
<1>4. more \in Seq(CallIn(heap))
  <2>1. CASE arg = NoRule
    BY <2>1, EmptySeq
  <2>2. CASE arg # NoRule
    <3>1. arg \in Addresses(heap)
      BY <1>3, <2>2
    <3>2. Parts(obj) \in Seq(CallIn(heap))
      BY <3>1, PartsIn DEF IInv, obj
    <3>3. <<Call("free", arg)>> \in Seq(CallIn(heap))
      BY <3>1, <1>2, CallAllowed, OneCall
    <3> QED
      BY <3>2, <3>3, <2>2, ConcatProperties
  <2> QED
    BY <2>1, <2>2
<1>5. calls' = more \o Tail(calls)
  BY DEF free_rule, Returns
<1> HIDE DEF more
<1>6. calls' \in Seq(CallIn(heap))
  BY <1>1, <1>4, <1>5, ReturnIn DEF IInv
<1> QED
  BY <1>6 DEF IInv, free_rule, roots

(* free_style and free_macro: a count goes down, and the heap keeps all that *)
(* the calls rest on.                                                        *)
LEMMA CountStep ==
    ASSUME IInv, UNCHANGED <<freed, styles, macros, roots, open, phase>>, calls # <<>>,
           NEW a \in OfKind(heap, "style") \cup OfKind(heap, "macro"), NEW n \in Int,
           heap' = [heap EXCEPT ![a].refs = n],
           NEW more \in Seq(CallIn(heap)), calls' = more \o Tail(calls)
    PROVE  IInv'
<1>1. Sound(heap') /\ Grows(heap, heap')
  BY CountSound DEF IInv
<1>2. calls' \in Seq(CallIn(heap))
  BY ReturnIn DEF IInv
<1>3. calls' \in Seq(CallIn(heap'))
  BY <1>1, <1>2, GrowsSeq
<1> QED
  BY <1>1, <1>3, GrowsState DEF IInv, roots

LEMMA FreeStyleStep ==
    ASSUME IInv, free_style
    PROVE  IInv'
<1>1. calls # <<>> /\ Head(calls).fn = "free_style"
  BY DEF free_style, Calling
<1>2. Head(calls) \in CallIn(heap) /\ Len(heap) \in Nat /\ heap \in Seq(Object)
  BY <1>1, HeadIn DEF IInv, Sound
<1>3. arg \in OfKind(heap, "style")
  BY <1>1, <1>2 DEF CallIn, TakesIn, arg
<1>4. arg \in Addresses(heap) /\ heap[arg].refs - 1 \in Int
  <2>1. arg \in 1..Len(heap) /\ heap[arg].kind = "style"
    BY <1>3 DEF OfKind, Addresses
  <2>2. heap[arg] \in Object
    BY <2>1, <1>2, ElementOfSeq
  <2> QED
    BY <2>1, <2>2, ObjectParts DEF Addresses
<1>5. heap' = [heap EXCEPT ![arg].refs = heap[arg].refs - 1]
  BY DEF free_style
<1> DEFINE more == IF heap'[arg].refs <= 0 THEN <<Call("free", arg)>> ELSE <<>>
<1>6. more \in Seq(CallIn(heap))
  BY <1>2, <1>4, CallAllowed, OneCall, EmptySeq
<1>7. calls' = more \o Tail(calls)
  BY DEF free_style, Returns
<1> HIDE DEF more
<1> QED
  BY <1>1, <1>3, <1>4, <1>5, <1>6, <1>7, CountStep DEF free_style

LEMMA FreeMacroStep ==
    ASSUME IInv, free_macro
    PROVE  IInv'
<1>1. calls # <<>> /\ Head(calls).fn = "free_macro"
  BY DEF free_macro, Calling
<1>2. Head(calls) \in CallIn(heap) /\ Len(heap) \in Nat /\ heap \in Seq(Object)
  BY <1>1, HeadIn DEF IInv, Sound
<1>3. arg \in OfKind(heap, "macro")
  BY <1>1, <1>2 DEF CallIn, TakesIn, arg
<1>4. /\ arg \in Addresses(heap) /\ heap[arg].refs - 1 \in Int
      /\ obj.rule \in Addresses(heap)
  <2>1. arg \in 1..Len(heap) /\ heap[arg].kind = "macro"
    BY <1>3 DEF OfKind, Addresses
  <2>2. heap[arg] \in Object
    BY <2>1, <1>2, ElementOfSeq
  <2>3. obj.rule \in Leads(heap[arg])
    BY <2>1 DEF Leads, obj
  <2>4. obj.rule \in Addresses(heap)
    BY <2>1, <2>3 DEF IInv, Sound, Addresses
  <2> QED
    BY <2>1, <2>2, <2>4, ObjectParts DEF Addresses
<1>5. heap' = [heap EXCEPT ![arg].refs = heap[arg].refs - 1]
  BY DEF free_macro
<1> DEFINE both == <<Call("free_rule", obj.rule), Call("free", arg)>>
           more == IF heap'[arg].refs <= 0 THEN both ELSE <<>>
<1>6. more \in Seq(CallIn(heap))
  <2>1. Call("free_rule", obj.rule) \in CallIn(heap) /\ Call("free", arg) \in CallIn(heap)
    BY <1>2, <1>4, CallAllowed
  <2>2. both \in [1..2 -> CallIn(heap)]
    BY <2>1
  <2>3. both \in Seq(CallIn(heap))
    BY <2>2, SeqDef
  <2> QED
    BY <2>3, EmptySeq
<1>7. calls' = more \o Tail(calls)
  BY DEF free_macro, Returns
<1> HIDE DEF more
<1> QED
  BY <1>1, <1>3, <1>4, <1>5, <1>6, <1>7, CountStep DEF free_macro

LEMMA FreeStep ==
    ASSUME IInv, free
    PROVE  IInv'
<1>1. calls # <<>> /\ Head(calls).fn = "free"
  BY DEF free, Calling
<1>2. arg \in Addresses(heap)
  BY <1>1, HeadIn DEF CallIn, TakesIn, arg
<1>3. calls' \in Seq(CallIn(heap))
  BY <1>1, EmptySeq, ReturnIn DEF free, Returns, IInv
<1> QED
  BY <1>2, <1>3 DEF IInv, free, roots

-----------------------------------------------------------------------------
LEMMA StepIInv == IInv /\ [Next]_vars => IInv'
<1> SUFFICES ASSUME IInv, [Next]_vars PROVE IInv'
  OBVIOUS
<1>1. CASE UNCHANGED vars
  BY <1>1 DEF vars, IInv
<1>2. CASE Parse
  <2>1. CASE \E n \in Names : DeclareStyle(n)
    BY <2>1, DeclareStyleStep
  <2>2. CASE \E n \in Names : NameMacro(n)
    BY <2>2, NameMacroStep
  <2>3. CASE \E n \in Names : NameStyle(n)
    BY <2>3, NameStyleStep
  <2>4. CASE \E n \in Names : OpenBody("macro", n)
    BY <2>4, OpenBodyStep
  <2>5. CASE \E what \in {"match", "prepend", "append"} : OpenBody(what, "")
    BY <2>5, OpenBodyStep
  <2>6. CASE LeafRule
    BY <2>6, LeafRuleStep
  <2>7. CASE Include
    BY <2>7, IncludeStep
  <2>8. CASE CloseMatch
    BY <2>8, CloseMatchStep
  <2>9. CASE CloseMacro
    BY <2>9, CloseMacroStep
  <2>10. CASE ClosePrepend \/ CloseAppend
    BY <2>10, CloseRootStep
  <2>11. CASE EndOfInclude
    BY <2>11, EndOfIncludeStep
  <2>12. CASE EndOfScript
    BY <2>12, EndOfScriptStep
  <2>13. CASE ScriptDie
    BY <2>13 DEF ScriptDie, IInv, roots
  <2> QED
    BY <1>2, <2>1, <2>2, <2>3, <2>4, <2>5, <2>6, <2>7, <2>8, <2>9, <2>10, <2>11,
       <2>12, <2>13 DEF Parse
<1>3. CASE Teardown
  <2>1. CASE Done
    BY <2>1 DEF Done, IInv, roots
  <2> QED
    BY <1>3, <2>1, FreeScriptStep, FreeRuleStep, FreeStyleStep, FreeMacroStep, FreeStep
       DEF Teardown
<1> QED
  BY <1>1, <1>2, <1>3 DEF Next

LEMMA IInvTypes == IInv => TypeOK
<1> SUFFICES ASSUME IInv PROVE TypeOK
  OBVIOUS
<1>1. Addresses(heap) = Address /\ RulesIn(heap) = Rules
  BY DEF Addresses, Address, RulesIn, Rules
<1>2. \A k : OfKind(heap, k) = Kind(k)
  BY <1>1 DEF OfKind, Kind
<1>3. \A call \in CallIn(heap) : Takes(call)
  BY <1>1, <1>2 DEF CallIn, TakesIn, Takes
<1>4. calls \in Seq(CallRecord) /\ \A i \in 1..Len(calls) : Takes(calls[i])
  <2>1. calls \in Seq(CallRecord)
    BY SeqMonotonic DEF IInv, CallIn
  <2>2. \A i \in 1..Len(calls) : calls[i] \in CallIn(heap)
    BY ElementOfSeq DEF IInv
  <2> QED
    BY <2>1, <2>2, <1>3
<1>5. heap \in Seq(Object)
  BY DEF IInv, Sound
<1>6. \A a \in Address : \A b \in Leads(heap[a]) : b \in Address /\ Fits(heap[a], heap[b])
  BY <1>1 DEF IInv, Sound
<1>7. /\ styles \in [DOMAIN styles -> Kind("style")]
      /\ macros \in [DOMAIN macros -> Kind("macro")]
  BY <1>2 DEF IInv
<1>8. {prepend_rule, append_rule, rule} \subseteq Rules \cup {NoRule} /\ freed \subseteq Address
  BY <1>1 DEF IInv, RulesOrNil
<1>9. open \in Seq([what : {"file", "match", "macro", "prepend", "append"},
                    name : Names \cup {""}, list : Seq(Rules)])
  BY <1>1 DEF IInv, OpenIn
<1> QED
  BY <1>4, <1>5, <1>6, <1>7, <1>8, <1>9 DEF TypeOK, CallRecord, IInv

LEMMA IInvOrder == IInv => NothingLeadsToItself
  BY DEF IInv, Sound, NothingLeadsToItself, Addresses, Address

LEMMA AlwaysIInv == Spec => []IInv
  BY InitIInv, StepIInv, PTL DEF Spec

(* Every object the parser makes is well formed, every name, rule and body   *)
(* that is held is that of an object of the right kind, and every call of    *)
(* free_script is given one, for every script.                               *)
THEOREM TypeCorrect == Spec => []TypeOK
  BY AlwaysIInv, IInvTypes, PTL

(* A rule leads only to what was made before it, for every script: macros    *)
(* that name macros, included files and rules that stand in several places   *)
(* never close a circle, so executing a rule cannot recurse for ever.        *)
THEOREM ExecutionDescends == Spec => []NothingLeadsToItself
  BY AlwaysIInv, IInvOrder, PTL

-----------------------------------------------------------------------------
(* One owner for each rule.  A rule that was just made has none until it is  *)
(* placed: in a body, in another rule, in a macro, or as a rule of the       *)
(* script.                                                                   *)
OpenOwn(op, r) == UNION {Slots("open", i, op[i].list, r) : i \in 1..Len(op)}
RootOwn(rt, r) == Slots("root", 0, rt, r)
HeapOwn(h, r)  == UNION {Slots("heap", a, Owned(h[a]), r) : a \in Addresses(h)}

OwnersIn(h, op, rt, r) == OpenOwn(op, r) \cup RootOwn(rt, r) \cup HeapOwn(h, r)

Sole(S) == \E x : S = {x}

OwnedOnce(h, op, rt) == \A r \in RulesIn(h) : Sole(OwnersIn(h, op, rt, r))

Loose(h, op, rt, u) ==
    /\ u \in RulesIn(h) /\ OwnersIn(h, op, rt, u) = {}
    /\ \A r \in RulesIn(h) \ {u} : Sole(OwnersIn(h, op, rt, r))

(* What holds the rules is of the right types.                               *)
Holds(h, op, rt) ==
    /\ Sound(h) /\ Len(h) \in Nat
    /\ op \in Seq(OpenIn(h))
    /\ rt \in Seq(RulesOrNil(h))

LEMMA SlotsOf ==
    ASSUME NEW what, NEW a, NEW list, NEW r
    PROVE  /\ At(list, r) = {} => Slots(what, a, list, r) = {}
           /\ \A j : At(list, r) = {j} => Slots(what, a, list, r) = {<<what, a, j>>}
  BY DEF Slots

LEMMA OwnerKinds ==
    ASSUME NEW h, NEW op, NEW rt, NEW r
    PROVE  /\ \A x \in OpenOwn(op, r) : x[1] = "open" /\ x[2] \in 1..Len(op)
           /\ \A x \in RootOwn(rt, r) : x[1] = "root"
           /\ \A x \in HeapOwn(h, r) : x[1] = "heap" /\ x[2] \in Addresses(h)
  BY DEF OpenOwn, RootOwn, HeapOwn, Slots

LEMMA OwnedAreRules ==
    ASSUME NEW h, Sound(h), NEW a \in Addresses(h), NEW j \in 1..Len(Owned(h[a]))
    PROVE  Owned(h[a])[j] \in RulesIn(h)
<1> DEFINE o == h[a]
           r == Owned(o)[j]
<1>1. o \in Object
  <2>1. h \in Seq(Object) /\ a \in 1..Len(h)
    BY DEF Sound, Addresses
  <2> QED
    BY <2>1, ElementOfSeq
<1>2. r \in Leads(o) /\ o.kind \in {"macro", "match", "multi"}
  <2>1. CASE o.kind = "multi"
    <3>1. Owned(o) = o.rules /\ Leads(o) = Range(o.rules)
      BY <2>1 DEF Owned, Leads
    <3>2. o.rules \in Seq(Nat)
      BY <1>1, <2>1, ObjectParts
    <3>3. j \in 1..Len(o.rules) /\ r = o.rules[j]
      BY <3>1
    <3> HIDE DEF o, r
    <3>4. r \in Range(o.rules)
      BY <3>2, <3>3, RangeOfSeq DEF Range
    <3> QED
      BY <2>1, <3>1, <3>4
  <2>2. CASE o.kind \in {"macro", "match"}
    <3>1. Owned(o) = <<o.rule>> /\ Leads(o) = {o.rule}
      BY <2>2 DEF Owned, Leads
    <3>2. Len(Owned(o)) = 1 /\ Owned(o)[1] = o.rule
      BY <3>1
    <3>3. j = 1
      BY <3>2
    <3> QED
      BY <2>2, <3>1, <3>2, <3>3
  <2>3. CASE o.kind \notin {"macro", "match", "multi"}
    <3>1. Owned(o) = <<>>
      BY <2>3 DEF Owned
    <3> QED
      BY <3>1
  <2> QED
    BY <2>1, <2>2, <2>3
<1>3. r \in Addresses(h) /\ Fits(o, h[r])
  BY <1>2 DEF Sound
<1>4. IsRule(h[r])
  BY <1>2, <1>3 DEF Fits
<1> QED
  BY <1>3, <1>4 DEF RulesIn

(* What is no rule of the heap has no owner.                                 *)
LEMMA Unknown ==
    ASSUME NEW h, NEW op, NEW rt, Holds(h, op, rt), NEW u, u \notin RulesOrNil(h)
    PROVE  OwnersIn(h, op, rt, u) = {}
<1>1. OpenOwn(op, u) = {}
  <2> SUFFICES ASSUME NEW i \in 1..Len(op), NEW j \in At(op[i].list, u) PROVE FALSE
    BY DEF OpenOwn, Slots
  <2>1. op[i].list \in Seq(RulesIn(h))
    <3>1. op[i] \in OpenIn(h)
      BY ElementOfSeq DEF Holds
    <3> QED
      BY <3>1 DEF OpenIn
  <2>2. j \in 1..Len(op[i].list) /\ op[i].list[j] = u
    BY DEF At
  <2>3. u \in RulesIn(h)
    BY <2>1, <2>2, ElementOfSeq
  <2> QED
    BY <2>3 DEF RulesOrNil
<1>2. RootOwn(rt, u) = {}
  <2> SUFFICES ASSUME NEW j \in At(rt, u) PROVE FALSE
    BY DEF RootOwn, Slots
  <2>1. j \in 1..Len(rt) /\ rt[j] = u /\ rt \in Seq(RulesOrNil(h))
    BY DEF At, Holds
  <2>2. u \in RulesOrNil(h)
    BY <2>1, ElementOfSeq
  <2> QED
    BY <2>2
<1>3. HeapOwn(h, u) = {}
  <2> SUFFICES ASSUME NEW a \in Addresses(h), NEW j \in At(Owned(h[a]), u) PROVE FALSE
    BY DEF HeapOwn, Slots
  <2>1. j \in 1..Len(Owned(h[a])) /\ Owned(h[a])[j] = u
    BY DEF At
  <2>2. u \in RulesIn(h)
    BY <2>1, OwnedAreRules DEF Holds
  <2> QED
    BY <2>2 DEF RulesOrNil
<1> QED
  BY <1>1, <1>2, <1>3 DEF OwnersIn

(* What a new object owns is added to the owners.                            *)
LEMMA AppendOwners ==
    ASSUME NEW h, NEW op, NEW rt, Holds(h, op, rt), NEW o \in Object, NEW r
    PROVE  OwnersIn(Append(h, o), op, rt, r)
             = OwnersIn(h, op, rt, r) \cup Slots("heap", Len(h) + 1, Owned(o), r)
<1>1. PICK g : g = Append(h, o)
  OBVIOUS
<1>2. h \in Seq(Object) /\ Len(h) \in Nat
  BY DEF Holds, Sound
<1>3. Len(g) = Len(h) + 1 /\ g[Len(h) + 1] = o /\ \A a \in 1..Len(h) : g[a] = h[a]
  BY <1>1, <1>2, AppendProperties
<1>4. Addresses(g) = Addresses(h) \cup {Len(h) + 1}
  BY <1>2, <1>3 DEF Addresses
<1>5. HeapOwn(g, r) = HeapOwn(h, r) \cup Slots("heap", Len(h) + 1, Owned(o), r)
  <2>1. \A a \in Addresses(h) : g[a] = h[a]
    BY <1>3 DEF Addresses
  <2> QED
    BY <1>3, <1>4, <2>1 DEF HeapOwn
<1> QED
  BY <1>1, <1>5 DEF OwnersIn

LEMMA AppendedRules ==
    ASSUME NEW h, Sound(h), Len(h) \in Nat, NEW o \in Object
    PROVE  /\ RulesIn(Append(h, o)) = IF IsRule(o) THEN RulesIn(h) \cup {Len(h) + 1} ELSE RulesIn(h)
           /\ Len(h) + 1 \notin RulesOrNil(h)
           /\ Len(Append(h, o)) = Len(h) + 1
<1>1. PICK g : g = Append(h, o)
  OBVIOUS
<1>2. h \in Seq(Object)
  BY DEF Sound
<1>3. Len(g) = Len(h) + 1 /\ g[Len(h) + 1] = o /\ \A a \in 1..Len(h) : g[a] = h[a]
  BY <1>1, <1>2, AppendProperties
<1>4. Addresses(g) = Addresses(h) \cup {Len(h) + 1} /\ \A a \in Addresses(h) : g[a] = h[a]
  BY <1>3 DEF Addresses
<1>5. Len(h) + 1 \notin Addresses(h) /\ Len(h) + 1 # NoRule
  BY DEF Addresses, NoRule
<1> QED
  BY <1>1, <1>3, <1>4, <1>5 DEF RulesIn, RulesOrNil

(* A rule that owns nothing is made.                                         *)
LEMMA NewRuleLoose ==
    ASSUME NEW h, NEW op, NEW rt, Holds(h, op, rt), OwnedOnce(h, op, rt),
           NEW o \in Object, IsRule(o), Owned(o) = <<>>
    PROVE  Loose(Append(h, o), op, rt, Len(Append(h, o)))
<1>1. ASSUME NEW r PROVE OwnersIn(Append(h, o), op, rt, r) = OwnersIn(h, op, rt, r)
  <2>1. At(Owned(o), r) = {}
    BY DEF At
  <2>2. Slots("heap", Len(h) + 1, Owned(o), r) = {}
    BY <2>1, SlotsOf
  <2>3. OwnersIn(Append(h, o), op, rt, r)
          = OwnersIn(h, op, rt, r) \cup Slots("heap", Len(h) + 1, Owned(o), r)
    BY AppendOwners
  <2> QED
    BY <2>2, <2>3
<1>2. /\ RulesIn(Append(h, o)) = RulesIn(h) \cup {Len(h) + 1}
      /\ Len(h) + 1 \notin RulesOrNil(h) /\ Len(Append(h, o)) = Len(h) + 1
  BY AppendedRules DEF Holds
<1>3. OwnersIn(h, op, rt, Len(h) + 1) = {}
  BY <1>2, Unknown
<1> QED
  BY <1>1, <1>2, <1>3 DEF Loose, OwnedOnce

(* A style is made.                                                          *)
LEMMA NoRuleMade ==
    ASSUME NEW h, NEW op, NEW rt, Holds(h, op, rt), OwnedOnce(h, op, rt),
           NEW o \in Object, ~IsRule(o), Owned(o) = <<>>
    PROVE  OwnedOnce(Append(h, o), op, rt)
<1>1. ASSUME NEW r PROVE OwnersIn(Append(h, o), op, rt, r) = OwnersIn(h, op, rt, r)
  <2>1. At(Owned(o), r) = {}
    BY DEF At
  <2>2. Slots("heap", Len(h) + 1, Owned(o), r) = {}
    BY <2>1, SlotsOf
  <2>3. OwnersIn(Append(h, o), op, rt, r)
          = OwnersIn(h, op, rt, r) \cup Slots("heap", Len(h) + 1, Owned(o), r)
    BY AppendOwners
  <2> QED
    BY <2>2, <2>3
<1>2. RulesIn(Append(h, o)) = RulesIn(h)
  BY AppendedRules DEF Holds
<1> QED
  BY <1>1, <1>2 DEF OwnedOnce

(* A match or a macro takes a loose rule as its body.                        *)
LEMMA BodyTaken ==
    ASSUME NEW h, NEW op, NEW rt, Holds(h, op, rt), NEW u, Loose(h, op, rt, u),
           NEW o \in Object, Owned(o) = <<u>>
    PROVE  /\ IsRule(o) => Loose(Append(h, o), op, rt, Len(Append(h, o)))
           /\ ~IsRule(o) => OwnedOnce(Append(h, o), op, rt)
<1>1. At(Owned(o), u) = {1} /\ \A r : r # u => At(Owned(o), r) = {}
  BY DEF At
<1>2. ASSUME NEW r, r # u PROVE OwnersIn(Append(h, o), op, rt, r) = OwnersIn(h, op, rt, r)
  <2>1. Slots("heap", Len(h) + 1, Owned(o), r) = {}
    BY <1>1, <1>2, SlotsOf
  <2>2. OwnersIn(Append(h, o), op, rt, r)
          = OwnersIn(h, op, rt, r) \cup Slots("heap", Len(h) + 1, Owned(o), r)
    BY AppendOwners
  <2> QED
    BY <2>1, <2>2
<1>3. OwnersIn(Append(h, o), op, rt, u) = {<<"heap", Len(h) + 1, 1>>}
  <2>1. Slots("heap", Len(h) + 1, Owned(o), u) = {<<"heap", Len(h) + 1, 1>>}
    BY <1>1, SlotsOf
  <2> QED
    BY <2>1, AppendOwners DEF Loose
<1>4. /\ RulesIn(Append(h, o)) = IF IsRule(o) THEN RulesIn(h) \cup {Len(h) + 1} ELSE RulesIn(h)
      /\ Len(h) + 1 \notin RulesOrNil(h) /\ Len(Append(h, o)) = Len(h) + 1
  BY AppendedRules DEF Holds
<1>5. OwnersIn(h, op, rt, Len(h) + 1) = {}
  BY <1>4, Unknown
<1>6. u # Len(h) + 1
  BY <1>4 DEF Loose, RulesOrNil
<1>7. Sole(OwnersIn(Append(h, o), op, rt, u))
  BY <1>3 DEF Sole
<1>8. \A r \in RulesIn(h) : Sole(OwnersIn(Append(h, o), op, rt, r))
  BY <1>2, <1>7 DEF Loose
<1>9. OwnersIn(Append(h, o), op, rt, Len(h) + 1) = {}
  BY <1>2, <1>5, <1>6
<1>10. CASE IsRule(o)
  BY <1>4, <1>8, <1>9, <1>10 DEF Loose
<1>11. CASE ~IsRule(o)
  BY <1>4, <1>8, <1>11 DEF OwnedOnce
<1> QED
  BY <1>10, <1>11

(* A rule becomes the next statement of the body that is read.               *)
LEMMA StatementOwners ==
    ASSUME NEW h, NEW op \in Seq(OpenIn(h)), op # <<>>, NEW u, NEW r
    PROVE  OpenOwn(Statement(op, u), r)
             = OpenOwn(op, r) \cup (IF r = u THEN {<<"open", Len(op), Len(Last(op).list) + 1>>}
                                             ELSE {})
<1>1. PICK n : n = Len(op)
  OBVIOUS
<1>2. n \in Nat \ {0} /\ n \in 1..Len(op)
  BY <1>1, EmptySeq
<1>3. op[n] \in OpenIn(h) /\ Last(op) = op[n]
  BY <1>1, <1>2, ElementOfSeq DEF Last
<1>4. PICK list : list = op[n].list
  OBVIOUS
<1>5. list \in Seq(RulesIn(h)) /\ Len(list) \in Nat
  BY <1>3, <1>4, LenProperties DEF OpenIn
<1>6. PICK m : m = Append(list, u)
  OBVIOUS
<1>7. Len(m) = Len(list) + 1 /\ m[Len(list) + 1] = u /\ \A j \in 1..Len(list) : m[j] = list[j]
  <2>1. list \in Seq(RulesIn(h) \cup {u})
    BY <1>5, SeqMonotonic
  <2> QED
    BY <1>6, <2>1, AppendProperties
<1>8. PICK g : g = Statement(op, u)
  OBVIOUS
<1>9. /\ Len(g) = n /\ g[n].list = m
      /\ \A i \in 1..n : i # n => g[i] = op[i]
  <2>1. PICK e : e = [op[n] EXCEPT !.list = m]
    OBVIOUS
  <2>2. e.list = m
    BY <1>3, <2>1 DEF OpenIn
  <2>3. op \in Seq(OpenIn(h) \cup {e}) /\ e \in OpenIn(h) \cup {e}
    BY SeqMonotonic
  <2>4. g = [op EXCEPT ![n] = e]
    BY <1>1, <1>4, <1>6, <1>8, <2>1 DEF Statement
  <2>5. Len(g) = Len(op) /\ \A i \in 1..Len(op) : g[i] = IF i = n THEN e ELSE op[i]
    BY <1>2, <2>3, <2>4, ExceptSeq
  <2> QED
    BY <1>1, <1>2, <2>2, <2>5
<1>10. At(m, r) = At(list, r) \cup (IF r = u THEN {Len(list) + 1} ELSE {})
  BY <1>5, <1>7 DEF At
<1>11. ASSUME NEW x
       PROVE  x \in OpenOwn(g, r) <=> x \in OpenOwn(op, r)
                                      \/ (r = u /\ x = <<"open", n, Len(list) + 1>>)
  <2>1. x \in OpenOwn(g, r) <=> \E i \in 1..n : \E j \in At(g[i].list, r) : x = <<"open", i, j>>
    BY <1>9 DEF OpenOwn, Slots
  <2>2. x \in OpenOwn(op, r) <=> \E i \in 1..n : \E j \in At(op[i].list, r) : x = <<"open", i, j>>
    BY <1>1 DEF OpenOwn, Slots
  <2>3. \A i \in 1..n : i # n => At(g[i].list, r) = At(op[i].list, r)
    BY <1>9
  <2>4. At(g[n].list, r) = At(op[n].list, r) \cup (IF r = u THEN {Len(list) + 1} ELSE {})
    BY <1>4, <1>9, <1>10
  <2>5. n \in 1..n
    BY <1>2
  <2> QED
    BY <2>1, <2>2, <2>3, <2>4, <2>5
<1> QED
  BY <1>1, <1>3, <1>4, <1>8, <1>11

LEMMA FrontOwners ==
    ASSUME NEW h, NEW op \in Seq(OpenIn(h)), op # <<>>, NEW r
    PROVE  OpenOwn(op, r)
             = OpenOwn(Front(op), r) \cup Slots("open", Len(op), Last(op).list, r)
<1>1. PICK n : n = Len(op)
  OBVIOUS
<1>2. n \in Nat \ {0}
  BY <1>1, EmptySeq
<1>3. PICK g : g = Front(op)
  OBVIOUS
<1>4. Len(g) = n - 1 /\ \A i \in 1..(n - 1) : g[i] = op[i]
  <2>1. g = SubSeq(op, 1, n - 1) /\ 1 \in 1..(Len(op) + 1) /\ n - 1 \in 0..Len(op)
    BY <1>1, <1>2, <1>3 DEF Front
  <2> QED
    BY <1>1, <1>2, <2>1, SubSeqProperties
<1>5. 1..n = 1..(n - 1) \cup {n}
  BY <1>2
<1>6. Last(op) = op[n]
  BY <1>1 DEF Last
<1> QED
  BY <1>1, <1>3, <1>4, <1>5, <1>6 DEF OpenOwn

LEMMA StatementPlaces ==
    ASSUME NEW h, NEW op, NEW rt, Holds(h, op, rt), op # <<>>, NEW u, Loose(h, op, rt, u)
    PROVE  OwnedOnce(h, Statement(op, u), rt)
<1>1. \A r : OpenOwn(Statement(op, u), r)
               = OpenOwn(op, r) \cup (IF r = u THEN {<<"open", Len(op), Len(Last(op).list) + 1>>}
                                               ELSE {})
  BY StatementOwners DEF Holds
<1>2. ASSUME NEW r \in RulesIn(h), r # u PROVE Sole(OwnersIn(h, Statement(op, u), rt, r))
  <2>1. OwnersIn(h, Statement(op, u), rt, r) = OwnersIn(h, op, rt, r)
    BY <1>1, <1>2 DEF OwnersIn
  <2> QED
    BY <1>2, <2>1 DEF Loose
<1>3. Sole(OwnersIn(h, Statement(op, u), rt, u))
  <2>1. OwnersIn(h, Statement(op, u), rt, u)
          = OwnersIn(h, op, rt, u) \cup {<<"open", Len(op), Len(Last(op).list) + 1>>}
    BY <1>1 DEF OwnersIn
  <2> QED
    BY <2>1 DEF Loose, Sole
<1> QED
  BY <1>2, <1>3 DEF OwnedOnce

(* A rule becomes one of the rules of the script.                            *)
LEMMA RootPlaces ==
    ASSUME NEW h, NEW op, NEW rt, NEW k \in 1..Len(rt), rt[k] = NoRule,
           NEW u, Loose(h, op, rt, u), u # NoRule,
           NEW rt2, Len(rt2) = Len(rt), rt2[k] = u, \A j \in 1..Len(rt) : j # k => rt2[j] = rt[j]
    PROVE  OwnedOnce(h, op, rt2)
<1>1. \A r \in RulesIn(h) : r # NoRule
  BY DEF RulesIn, Addresses, NoRule
<1>2. At(rt2, u) = At(rt, u) \cup {k}
  BY DEF At
<1>3. \A r : r # u /\ r # NoRule => At(rt2, r) = At(rt, r)
  BY DEF At
<1>4. ASSUME NEW r \in RulesIn(h), r # u PROVE Sole(OwnersIn(h, op, rt2, r))
  <2>1. OwnersIn(h, op, rt2, r) = OwnersIn(h, op, rt, r)
    BY <1>1, <1>3, <1>4 DEF OwnersIn, RootOwn, Slots
  <2> QED
    BY <1>4, <2>1 DEF Loose
<1>5. Sole(OwnersIn(h, op, rt2, u))
  <2>1. RootOwn(rt2, u) = RootOwn(rt, u) \cup {<<"root", 0, k>>}
    BY <1>2 DEF RootOwn, Slots
  <2>2. OwnersIn(h, op, rt2, u) = OwnersIn(h, op, rt, u) \cup {<<"root", 0, k>>}
    BY <2>1 DEF OwnersIn
  <2> QED
    BY <2>2 DEF Loose, Sole
<1> QED
  BY <1>4, <1>5 DEF OwnedOnce

(* A body that ends: what owned its rules was the body, and then the rule    *)
(* the body became.                                                          *)
LEMMA SoleStays ==
    ASSUME NEW A, NEW B, NEW C, Sole(A \cup B), A \cap B = {}, B # {} => Sole(C), B = {} => C = {}
    PROVE  Sole(A \cup C)
<1>1. CASE B = {}
  BY <1>1
<1>2. CASE B # {}
  <2>1. A = {}
    BY <1>2 DEF Sole
  <2> QED
    BY <1>2, <2>1
<1> QED
  BY <1>1, <1>2

LEMMA BodyLoose ==
    ASSUME NEW h, NEW op, NEW rt, Holds(h, op, rt), op # <<>>, OwnedOnce(h, op, rt)
    PROVE  LET body == new_multi_rule(h, Last(op).list)
           IN  Loose(body.heap, Front(op), rt, body.rule)
<1> DEFINE Read(r) == Slots("open", Len(op), Last(op).list, r)
           Rest(r) == OwnersIn(h, Front(op), rt, r)
<1>1. PICK list : list = Last(op).list
  OBVIOUS
<1>2. list \in Seq(RulesIn(h)) /\ Front(op) \in Seq(OpenIn(h))
  BY <1>1, TopIn DEF Holds
<1>3. Holds(h, Front(op), rt)
  BY <1>2 DEF Holds
<1>4. ASSUME NEW r PROVE OwnersIn(h, op, rt, r) = Rest(r) \cup Read(r)
  BY FrontOwners DEF OwnersIn, Holds
<1>5. ASSUME NEW r PROVE Rest(r) \cap Read(r) = {}
  <2>1. Len(Front(op)) = Len(op) - 1 /\ Len(op) \in Nat \ {0}
    <3>1. op \in Seq(OpenIn(h)) /\ Len(op) \in Nat \ {0}
      BY EmptySeq DEF Holds
    <3>2. PICK n \in Nat \ {0} : n = Len(op)
      BY <3>1
    <3>3. Front(op) = SubSeq(op, 1, n - 1) /\ 1 \in 1..(Len(op) + 1) /\ n - 1 \in 0..Len(op)
      BY <3>2 DEF Front
    <3>4. Len(Front(op)) = n - 1
      BY <3>1, <3>3, SubSeqProperties
    <3> QED
      BY <3>2, <3>4
  <2>2. Len(op) \notin 1..Len(Front(op))
    BY <2>1
  <2> SUFFICES ASSUME NEW x \in Rest(r), x \in Read(r) PROVE FALSE
    OBVIOUS
  <2>3. x[1] = "open" /\ x[2] = Len(op)
    BY DEF Slots
  <2>4. x \in OpenOwn(Front(op), r)
    BY <2>3, OwnerKinds DEF OwnersIn
  <2> QED
    BY <2>2, <2>3, <2>4, OwnerKinds
<1>6. CASE Len(list) = 1
  <2>1. new_multi_rule(h, list) = [heap |-> h, rule |-> list[1]]
    BY <1>6 DEF new_multi_rule
  <2>2. list[1] \in RulesIn(h)
    <3>1. 1 \in 1..Len(list)
      BY <1>6
    <3> QED
      BY <1>2, <3>1, ElementOfSeq
  <2>3. \A r : At(list, r) = IF r = list[1] THEN {1} ELSE {}
    BY <1>6 DEF At
  <2>4. Read(list[1]) # {} /\ \A r : r # list[1] => Read(r) = {}
    BY <1>1, <2>3 DEF Slots
  <2>5. Sole(Rest(list[1]) \cup Read(list[1]))
    BY <1>4, <2>2 DEF OwnedOnce
  <2> HIDE DEF Read, Rest
  <2>6. Rest(list[1]) = {}
    BY <1>5, <2>4, <2>5 DEF Sole
  <2>7. \A r \in RulesIn(h) \ {list[1]} : Sole(Rest(r))
    <3> SUFFICES ASSUME NEW r \in RulesIn(h) \ {list[1]} PROVE Sole(Rest(r))
      OBVIOUS
    <3>1. Sole(OwnersIn(h, op, rt, r))
      BY DEF OwnedOnce
    <3> QED
      BY <1>4, <2>4, <3>1
  <2>8. Loose(h, Front(op), rt, list[1])
    BY <2>2, <2>6, <2>7 DEF Loose, Rest
  <2> QED
    BY <1>1, <2>1, <2>8
<1>7. CASE Len(list) # 1
  <2> DEFINE o == MultiRule(list)
             g == Append(h, o)
             Taken(r) == Slots("heap", Len(h) + 1, Owned(o), r)
  <2>1. new_multi_rule(h, list) = [heap |-> g, rule |-> Len(h) + 1]
    BY <1>7 DEF new_multi_rule
  <2>2. o \in Object /\ IsRule(o) /\ Owned(o) = list
    <3>1. RulesIn(h) \subseteq Nat
      BY DEF RulesIn, Addresses, Holds
    <3>2. list \in Seq(Nat)
      BY <1>2, <3>1, SeqMonotonic
    <3> QED
      BY <3>2 DEF MultiRule, Object, IsRule, Owned
  <2>3. ASSUME NEW r PROVE OwnersIn(g, Front(op), rt, r) = Rest(r) \cup Taken(r)
    BY <1>3, <2>2, AppendOwners
  <2>4. /\ RulesIn(g) = RulesIn(h) \cup {Len(h) + 1} /\ Len(h) + 1 \notin RulesOrNil(h)
    BY <2>2, AppendedRules DEF Holds
  <2>5. OwnersIn(g, Front(op), rt, Len(h) + 1) = {}
    <3>1. Rest(Len(h) + 1) = {}
      BY <1>3, <2>4, Unknown
    <3>2. At(list, Len(h) + 1) = {}
      <4> SUFFICES ASSUME NEW j \in 1..Len(list), list[j] = Len(h) + 1 PROVE FALSE
        BY DEF At
      <4>1. list[j] \in RulesIn(h)
        BY <1>2, ElementOfSeq
      <4> QED
        BY <2>4, <4>1 DEF RulesOrNil
    <3>3. Taken(Len(h) + 1) = {}
      BY <2>2, <3>2, SlotsOf
    <3> QED
      BY <2>3, <3>1, <3>3
  <2>6. ASSUME NEW r \in RulesIn(h) PROVE Sole(OwnersIn(g, Front(op), rt, r))
    <3>1. Sole(Rest(r) \cup Read(r)) /\ Rest(r) \cap Read(r) = {}
      BY <1>4, <1>5 DEF OwnedOnce
    <3>2. Read(r) = {} => Taken(r) = {}
      BY <1>1, <2>2 DEF Slots
    <3>3. Read(r) # {} => Sole(Taken(r))
      <4> SUFFICES ASSUME Read(r) # {} PROVE Sole(Taken(r))
        OBVIOUS
      <4>1. PICK j \in At(list, r) : TRUE
        BY <1>1 DEF Slots
      <4>2. \A k \in At(list, r) : k = j
        <5> TAKE k \in At(list, r)
        <5>1. <<"open", Len(op), k>> \in Read(r) /\ <<"open", Len(op), j>> \in Read(r)
          BY <1>1, <4>1 DEF Slots
        <5>2. <<"open", Len(op), k>> = <<"open", Len(op), j>>
          BY <3>1, <5>1 DEF Sole
        <5> QED
          BY <5>2
      <4>3. At(list, r) = {j}
        BY <4>1, <4>2
      <4>4. Taken(r) = {<<"heap", Len(h) + 1, j>>}
        BY <2>2, <4>3, SlotsOf
      <4> QED
        BY <4>4 DEF Sole
    <3> HIDE DEF Rest, Read, Taken
    <3>4. Sole(Rest(r) \cup Taken(r))
      BY <3>1, <3>2, <3>3, SoleStays
    <3> QED
      BY <2>3, <3>4
  <2> HIDE DEF g
  <2>7. Loose(g, Front(op), rt, Len(h) + 1)
    BY <2>4, <2>5, <2>6 DEF Loose
  <2> QED
    BY <1>1, <2>1, <2>7
<1> QED
  BY <1>6, <1>7

(* A count that changes, changes no owner.                                   *)
Recounts(h, a, n, g) == g = [h EXCEPT ![a].refs = n]

LEMMA RecountParts ==
    ASSUME NEW h, Sound(h), NEW n \in Int, NEW a \in OfKind(h, "style") \cup OfKind(h, "macro"),
           NEW g, Recounts(h, a, n, g)
    PROVE  /\ g \in Seq(Object) /\ Len(g) = Len(h) /\ g[a].refs = n
           /\ \A b \in Addresses(h) : /\ g[b].kind = h[b].kind /\ Leads(g[b]) = Leads(h[b])
                                      /\ Owned(g[b]) = Owned(h[b])
                                      /\ b # a => g[b] = h[b]
<1>1. h \in Seq(Object) /\ a \in 1..Len(h) /\ h[a].kind \in {"style", "macro"}
  BY DEF Sound, OfKind, Addresses
<1>2. h[a] \in Object
  BY <1>1, ElementOfSeq
<1>3. PICK e : e = [h[a] EXCEPT !.refs = n]
  OBVIOUS
<1>4. e \in Object /\ e.kind = h[a].kind /\ Leads(e) = Leads(h[a])
  BY <1>1, <1>2, <1>3, Recounted
<1>5. e.refs = n /\ (e.kind = "macro" => e.rule = h[a].rule)
  <2>1. CASE h[a].kind = "style"
    <3>1. h[a] \in [kind : {"style"}, refs : Int]
      BY <1>2, <2>1 DEF Object
    <3> QED
      BY <1>3, <1>4, <2>1, <3>1
  <2>2. CASE h[a].kind = "macro"
    <3>1. h[a] \in [kind : {"macro"}, refs : Int, rule : Nat]
      BY <1>2, <2>2 DEF Object
    <3> QED
      BY <1>3, <1>4, <2>2, <3>1
  <2> QED
    BY <1>1, <2>1, <2>2
<1>6. Owned(e) = Owned(h[a])
  <2>1. CASE h[a].kind = "style"
    BY <1>4, <2>1 DEF Owned
  <2>2. CASE h[a].kind = "macro"
    BY <1>4, <1>5, <2>2 DEF Owned
  <2> QED
    BY <1>1, <2>1, <2>2
<1>7. g = [h EXCEPT ![a] = e]
  BY <1>3 DEF Recounts
<1>8. /\ g \in Seq(Object) /\ Len(g) = Len(h)
      /\ \A b \in 1..Len(h) : g[b] = IF b = a THEN e ELSE h[b]
  BY <1>1, <1>4, <1>7, ExceptSeq
<1> QED
  BY <1>1, <1>4, <1>5, <1>6, <1>8 DEF Addresses

LEMMA RecountOwners ==
    ASSUME NEW h, Sound(h), NEW n \in Int, NEW a \in OfKind(h, "style") \cup OfKind(h, "macro"),
           NEW g, Recounts(h, a, n, g), NEW op, NEW rt
    PROVE  /\ RulesIn(g) = RulesIn(h)
           /\ \A r : OwnersIn(g, op, rt, r) = OwnersIn(h, op, rt, r)
           /\ OwnedOnce(h, op, rt) => OwnedOnce(g, op, rt)
           /\ Holds(h, op, rt) => Holds(g, op, rt)
<1>1. /\ Len(g) = Len(h)
      /\ \A b \in Addresses(h) : g[b].kind = h[b].kind /\ Owned(g[b]) = Owned(h[b])
  BY RecountParts
<1>2. RulesIn(g) = RulesIn(h) /\ Addresses(g) = Addresses(h)
  BY <1>1 DEF RulesIn, Addresses, IsRule
<1>3. ASSUME NEW r PROVE HeapOwn(g, r) = HeapOwn(h, r)
  BY <1>1, <1>2 DEF HeapOwn
<1>4. \A r : OwnersIn(g, op, rt, r) = OwnersIn(h, op, rt, r)
  BY <1>3 DEF OwnersIn
<1>5. OwnedOnce(h, op, rt) => OwnedOnce(g, op, rt)
  BY <1>2, <1>4 DEF OwnedOnce
<1>6. Holds(h, op, rt) => Holds(g, op, rt)
  <2>1. Sound(g)
    BY CountSound DEF Recounts
  <2>2. RulesOrNil(g) = RulesOrNil(h) /\ OpenIn(g) = OpenIn(h)
    BY <1>2 DEF RulesOrNil, OpenIn
  <2> QED
    BY <1>1, <2>1, <2>2 DEF Holds
<1> QED
  BY <1>2, <1>4, <1>5, <1>6

-----------------------------------------------------------------------------
(* Styles and macros know how many rules name them.                          *)
Named(h)       == OfKind(h, "style") \cup OfKind(h, "macro")
NamersIn(h)    == OfKind(h, "style_rule") \cup OfKind(h, "macro_rule")
UsersIn(h, a)  == {r \in NamersIn(h) : Leads(h[r]) = {a}}
Counted(h)     == \A a \in Named(h) : h[a].refs = 1 + Cardinality(UsersIn(h, a))

LEMMA FiniteUsers ==
    ASSUME NEW h, Len(h) \in Nat, NEW a
    PROVE  IsFiniteSet(UsersIn(h, a)) /\ Cardinality(UsersIn(h, a)) \in Nat
<1>1. IsFiniteSet(1..Len(h))
  <2>1. 1 \in Int /\ Len(h) \in Int
    OBVIOUS
  <2> QED
    BY <2>1, FS_Interval, Zenon
<1>2. UsersIn(h, a) \subseteq 1..Len(h)
  BY DEF UsersIn, NamersIn, OfKind, Addresses
<1>3. IsFiniteSet(UsersIn(h, a))
  BY <1>1, <1>2, FS_Subset
<1> QED
  BY <1>3, FS_CardinalityType

Appends(h, o, g) == g = Append(h, o)

LEMMA AppendedNamed ==
    ASSUME NEW h, Sound(h), NEW o \in Object, NEW g, Appends(h, o, g)
    PROVE  /\ o.kind \in {"style", "macro"} => Named(g) = Named(h) \cup {Len(h) + 1}
           /\ o.kind \notin {"style", "macro"} => Named(g) = Named(h)
           /\ Addresses(g) = Addresses(h) \cup {Len(h) + 1}
           /\ \A b \in Addresses(h) : g[b] = h[b]
           /\ g[Len(h) + 1] = o /\ Len(h) + 1 \notin Addresses(h)
<1>1. h \in Seq(Object) /\ Len(h) \in Nat
  BY DEF Sound
<1>2. Len(g) = Len(h) + 1 /\ g[Len(h) + 1] = o /\ \A b \in 1..Len(h) : g[b] = h[b]
  BY <1>1, AppendProperties DEF Appends
<1>3. /\ Addresses(g) = Addresses(h) \cup {Len(h) + 1} /\ Len(h) + 1 \notin Addresses(h)
      /\ \A b \in Addresses(h) : g[b] = h[b]
  BY <1>1, <1>2 DEF Addresses
<1>4. o.kind \in {"style", "macro"} => Named(g) = Named(h) \cup {Len(h) + 1}
  BY <1>2, <1>3 DEF Named, OfKind
<1>5. o.kind \notin {"style", "macro"} => Named(g) = Named(h)
  BY <1>2, <1>3 DEF Named, OfKind
<1> QED
  BY <1>2, <1>3, <1>4, <1>5

LEMMA AppendedUsers ==
    ASSUME NEW h, Sound(h), NEW o \in Object, NEW g, Appends(h, o, g), NEW a
    PROVE  /\ o.kind \in {"style_rule", "macro_rule"} /\ Leads(o) = {a} =>
                UsersIn(g, a) = UsersIn(h, a) \cup {Len(h) + 1}
           /\ o.kind \notin {"style_rule", "macro_rule"} \/ Leads(o) # {a} =>
                UsersIn(g, a) = UsersIn(h, a)
<1>1. /\ Addresses(g) = Addresses(h) \cup {Len(h) + 1} /\ Len(h) + 1 \notin Addresses(h)
      /\ g[Len(h) + 1] = o /\ \A b \in Addresses(h) : g[b] = h[b]
  BY AppendedNamed
<1>2. CASE o.kind \in {"style_rule", "macro_rule"} /\ Leads(o) = {a}
  BY <1>1, <1>2 DEF UsersIn, NamersIn, OfKind
<1>3. CASE o.kind \notin {"style_rule", "macro_rule"} \/ Leads(o) # {a}
  BY <1>1, <1>3 DEF UsersIn, NamersIn, OfKind
<1> QED
  BY <1>2, <1>3

(* An object that names nothing.                                             *)
LEMMA AppendCounted ==
    ASSUME NEW h, Sound(h), Counted(h), NEW o \in Object,
           o.kind \notin {"style_rule", "macro_rule"},
           o.kind \in {"style", "macro"} => o.refs = 1
    PROVE  Counted(Append(h, o))
<1>1. PICK g : Appends(h, o, g)
  BY DEF Appends
<1>2. /\ \A a : UsersIn(g, a) = UsersIn(h, a)
      /\ Named(g) \subseteq Named(h) \cup {Len(h) + 1}
      /\ Len(h) + 1 \in Named(g) => o.kind \in {"style", "macro"}
      /\ \A b \in Addresses(h) : g[b] = h[b]
      /\ g[Len(h) + 1] = o /\ Len(h) + 1 \notin Addresses(h)
  <2>1. Named(h) \subseteq Addresses(h)
    BY DEF Named, OfKind
  <2>2. ASSUME NEW a PROVE UsersIn(g, a) = UsersIn(h, a)
    BY <1>1, AppendedUsers
  <2>3. /\ Named(g) = Named(h) \/ (Named(g) = Named(h) \cup {Len(h) + 1}
                                    /\ o.kind \in {"style", "macro"})
        /\ \A b \in Addresses(h) : g[b] = h[b]
        /\ g[Len(h) + 1] = o /\ Len(h) + 1 \notin Addresses(h)
    BY <1>1, AppendedNamed
  <2> QED
    BY <2>1, <2>2, <2>3
<1>3. UsersIn(h, Len(h) + 1) = {}
  <2> SUFFICES ASSUME NEW r \in UsersIn(h, Len(h) + 1) PROVE FALSE
    OBVIOUS
  <2>1. r \in Addresses(h) /\ Len(h) + 1 \in Leads(h[r])
    BY DEF UsersIn, NamersIn, OfKind
  <2>2. Len(h) + 1 \in Addresses(h)
    BY <2>1 DEF Sound
  <2> QED
    BY <1>2, <2>2
<1>4. ASSUME NEW a \in Named(g) PROVE g[a].refs = 1 + Cardinality(UsersIn(g, a))
  <2>1. CASE a \in Named(h)
    <3>1. h[a].refs = 1 + Cardinality(UsersIn(h, a)) /\ a \in Addresses(h)
      BY <2>1 DEF Counted, Named, OfKind
    <3> QED
      BY <1>2, <3>1
  <2>2. CASE a = Len(h) + 1
    <3>1. Cardinality(UsersIn(g, a)) = 0
      BY <1>2, <1>3, <2>2, FS_EmptySet
    <3>2. g[a].refs = 1
      BY <1>2, <2>2
    <3> QED
      BY <3>1, <3>2
  <2> QED
    BY <1>2, <2>1, <2>2
<1> QED
  BY <1>1, <1>4 DEF Counted, Appends

(* A rule that names a style or a macro.                                     *)
LEMMA UseCounted ==
    ASSUME NEW h, Sound(h), Counted(h), NEW a \in Named(h), NEW o \in Object,
           o.kind \in {"style_rule", "macro_rule"}, Leads(o) = {a}
    PROVE  Counted(Append([h EXCEPT ![a].refs = @ + 1], o))
<1>1. h \in Seq(Object) /\ Len(h) \in Nat /\ a \in 1..Len(h) /\ h[a].kind \in {"style", "macro"}
  BY DEF Sound, Named, OfKind, Addresses
<1>2. h[a].refs \in Int
  <2>1. h[a] \in Object
    BY <1>1, ElementOfSeq
  <2> QED
    BY <1>1, <2>1, ObjectParts
<1>3. PICK k \in Int : k = h[a].refs + 1
  BY <1>2
<1>4. PICK m : Recounts(h, a, k, m)
  BY DEF Recounts
<1>5. /\ Len(m) = Len(h) /\ m[a].refs = k /\ Sound(m)
      /\ \A b \in Addresses(h) : /\ m[b].kind = h[b].kind /\ Leads(m[b]) = Leads(h[b])
                                 /\ b # a => m[b] = h[b]
  <2>1. a \in OfKind(h, "style") \cup OfKind(h, "macro")
    BY DEF Named
  <2>2. Sound(m)
    BY <1>4, <2>1, CountSound DEF Recounts
  <2>3. /\ Len(m) = Len(h) /\ m[a].refs = k
        /\ \A b \in Addresses(h) : /\ m[b].kind = h[b].kind /\ Leads(m[b]) = Leads(h[b])
                                   /\ Owned(m[b]) = Owned(h[b]) /\ (b # a => m[b] = h[b])
    BY <1>4, <2>1, RecountParts
  <2> QED
    BY <2>2, <2>3
<1>6. Named(m) = Named(h) /\ Addresses(m) = Addresses(h)
  BY <1>5 DEF Named, OfKind, Addresses
<1>7. ASSUME NEW b PROVE UsersIn(m, b) = UsersIn(h, b)
  BY <1>5 DEF UsersIn, NamersIn, OfKind, Addresses
<1>8. PICK g : Appends(m, o, g)
  BY DEF Appends
<1>9. /\ Named(g) = Named(h) /\ \A b \in Addresses(h) : g[b] = m[b]
      /\ Len(h) + 1 \notin Addresses(h)
  <2>1. /\ Named(g) = Named(m) /\ \A b \in Addresses(m) : g[b] = m[b]
        /\ Len(m) + 1 \notin Addresses(m)
    BY <1>5, <1>8, AppendedNamed
  <2> QED
    BY <1>5, <1>6, <2>1
<1>10. ASSUME NEW b \in Named(g) PROVE g[b].refs = 1 + Cardinality(UsersIn(g, b))
  <2>1. b \in Named(h) /\ b \in Addresses(h) /\ g[b] = m[b]
    BY <1>9 DEF Named, OfKind
  <2>2. h[b].refs = 1 + Cardinality(UsersIn(h, b))
    BY <2>1 DEF Counted
  <2>3. IsFiniteSet(UsersIn(h, b)) /\ Cardinality(UsersIn(h, b)) \in Nat
    BY <1>1, FiniteUsers
  <2>4. CASE b = a
    <3>1. UsersIn(g, b) = UsersIn(m, b) \cup {Len(h) + 1}
      BY <1>5, <1>8, <2>4, AppendedUsers
    <3>2. UsersIn(g, b) = UsersIn(h, b) \cup {Len(h) + 1}
      BY <1>7, <3>1
    <3>3. Len(h) + 1 \notin UsersIn(h, b)
      BY <1>9 DEF UsersIn, NamersIn, OfKind
    <3>4. Cardinality(UsersIn(g, b)) = Cardinality(UsersIn(h, b)) + 1
      BY <2>3, <3>2, <3>3, FS_AddElement
    <3> QED
      BY <1>3, <1>5, <2>1, <2>2, <2>3, <2>4, <3>4
  <2>5. CASE b # a
    <3>1. UsersIn(g, b) = UsersIn(m, b)
      <4>1. Leads(o) # {b}
        BY <2>5
      <4> QED
        BY <1>5, <1>8, <4>1, AppendedUsers
    <3>2. g[b] = h[b]
      BY <1>5, <2>1, <2>5
    <3> QED
      BY <1>7, <2>2, <3>1, <3>2
  <2> QED
    BY <2>4, <2>5
<1>11. g = Append([h EXCEPT ![a].refs = @ + 1], o)
  BY <1>3, <1>4, <1>8 DEF Appends, Recounts
<1> QED
  BY <1>10, <1>11 DEF Counted

LEMMA BodyCounted ==
    ASSUME NEW h, Sound(h), Counted(h), NEW list \in Seq(RulesIn(h))
    PROVE  Counted(new_multi_rule(h, list).heap)
<1>1. CASE Len(list) = 1
  BY <1>1 DEF new_multi_rule
<1>2. CASE Len(list) # 1
  <2>1. PICK o : o = MultiRule(list)
    OBVIOUS
  <2>2. o \in Object /\ o.kind = "multi"
    <3>1. RulesIn(h) \subseteq Nat
      BY DEF RulesIn, Addresses, Sound
    <3>2. list \in Seq(Nat)
      BY <3>1, SeqMonotonic
    <3> QED
      BY <2>1, <3>2 DEF MultiRule, Object
  <2>3. Counted(Append(h, o))
    BY <2>2, AppendCounted
  <2> QED
    BY <1>2, <2>1, <2>3 DEF new_multi_rule
<1> QED
  BY <1>1, <1>2

-----------------------------------------------------------------------------
(* While a script is read, its first file is open, and nothing was freed.    *)
Reading   == phase = "parse" => rule = NoRule /\ open # <<>> /\ open[1].what = "file"
Untouched == phase \in {"parse", "run"} => freed = {} /\ calls = <<>>
Known     == phase \in {"parse", "run"} => Counted(heap)

Parsed == Reading /\ Untouched /\ Known /\ OwnedOnce(heap, open, roots)

LEMMA StateHolds ==
    ASSUME IInv PROVE Holds(heap, open, roots)
<1>1. {prepend_rule, append_rule, rule} \subseteq RulesOrNil(heap)
  BY DEF IInv
<1>2. roots \in [1..3 -> RulesOrNil(heap)]
  BY <1>1 DEF roots
<1>3. roots \in Seq(RulesOrNil(heap))
  BY <1>2, SeqDef
<1> QED
  BY <1>3 DEF IInv, Holds, Sound

LEMMA HoldsGrow ==
    ASSUME NEW h, NEW op, NEW rt, Holds(h, op, rt), NEW g, Sound(g), Grows(h, g)
    PROVE  Holds(g, op, rt)
<1>1. op \in Seq(OpenIn(g)) /\ Len(g) \in Nat
  BY GrowsSeq DEF Holds, Grows
<1>2. RulesOrNil(h) \subseteq RulesOrNil(g)
  BY GrowsKeeps
<1>3. rt \in Seq(RulesOrNil(g))
  BY <1>2, SeqMonotonic DEF Holds
<1> QED
  BY <1>1, <1>3 DEF Holds

(* The first file stays open.                                                *)
LEMMA StatementKeeps ==
    ASSUME NEW h, NEW op \in Seq(OpenIn(h)), op # <<>>, NEW u
    PROVE  Statement(op, u) # <<>> /\ Statement(op, u)[1].what = op[1].what
<1>1. PICK n : n = Len(op)
  OBVIOUS
<1>2. n \in Nat \ {0} /\ n \in 1..Len(op)
  BY <1>1, EmptySeq
<1>3. op[n] \in OpenIn(h)
  BY <1>2, ElementOfSeq
<1>4. PICK m : m = Append(op[n].list, u)
  OBVIOUS
<1>5. PICK e : e = [op[n] EXCEPT !.list = m]
  OBVIOUS
<1>6. e.what = op[n].what
  BY <1>3, <1>5 DEF OpenIn
<1>7. op \in Seq(OpenIn(h) \cup {e}) /\ e \in OpenIn(h) \cup {e}
  BY SeqMonotonic
<1>8. PICK g : g = Statement(op, u)
  OBVIOUS
<1>9. g = [op EXCEPT ![n] = e]
  BY <1>1, <1>4, <1>5, <1>8 DEF Statement
<1>10. /\ g \in Seq(OpenIn(h) \cup {e}) /\ Len(g) = Len(op)
       /\ \A i \in 1..Len(op) : g[i] = IF i = n THEN e ELSE op[i]
  BY <1>2, <1>7, <1>9, ExceptSeq
<1>11. 1 \in 1..Len(op)
  BY <1>1, <1>2
<1>12. g # <<>>
  BY <1>1, <1>2, <1>10, EmptySeq
<1> QED
  BY <1>6, <1>8, <1>10, <1>11, <1>12

LEMMA FrontKeeps ==
    ASSUME NEW h, NEW op \in Seq(OpenIn(h)), op # <<>>,
           op[1].what = "file", Last(op).what # "file" \/ Len(op) > 1
    PROVE  Front(op) # <<>> /\ Front(op)[1].what = "file"
<1>1. PICK n : n = Len(op)
  OBVIOUS
<1>2. n \in Nat \ {0}
  BY <1>1, EmptySeq
<1>3. n > 1
  BY <1>1, <1>2 DEF Last
<1>4. PICK g : g = Front(op)
  OBVIOUS
<1>5. g = SubSeq(op, 1, n - 1) /\ 1 \in 1..(Len(op) + 1) /\ n - 1 \in 0..Len(op)
  BY <1>1, <1>2, <1>4 DEF Front
<1>6. Len(g) = n - 1 /\ \A i \in 1..(n - 1) : g[i] = op[i]
  BY <1>1, <1>2, <1>5, SubSeqProperties
<1>7. g # <<>>
  <2>1. Len(<<>>) = 0 /\ Len(g) # 0
    BY <1>2, <1>3, <1>6, EmptySeq
  <2> QED
    BY <2>1
<1>8. g[1] = op[1]
  <2>1. 1 \in 1..(n - 1)
    BY <1>2, <1>3
  <2> QED
    BY <1>6, <2>1
<1> QED
  BY <1>4, <1>7, <1>8

LEMMA AppendKeeps ==
    ASSUME NEW h, NEW op \in Seq(OpenIn(h)), op # <<>>, NEW x \in OpenIn(h)
    PROVE  Append(op, x) # <<>> /\ Append(op, x)[1] = op[1]
<1>1. Len(op) \in Nat \ {0}
  BY EmptySeq
<1>2. 1 \in 1..Len(op)
  BY <1>1
<1> QED
  BY <1>2, AppendProperties

(* A body that is opened holds no rule yet.                                  *)
LEMMA OpenedOwners ==
    ASSUME NEW h, NEW op \in Seq(OpenIn(h)), NEW x \in OpenIn(h), x.list = <<>>, NEW rt,
           OwnedOnce(h, op, rt)
    PROVE  OwnedOnce(h, Append(op, x), rt)
<1>1. PICK g : g = Append(op, x)
  OBVIOUS
<1>2. PICK n \in Nat : n = Len(op)
  OBVIOUS
<1>3. Len(g) = n + 1 /\ g[n + 1] = x /\ \A i \in 1..n : g[i] = op[i]
  BY <1>1, <1>2, AppendProperties
<1>4. 1..(n + 1) = 1..n \cup {n + 1}
  BY <1>2
<1>5. ASSUME NEW r PROVE OpenOwn(g, r) = OpenOwn(op, r)
  <2>1. At(x.list, r) = {}
    BY DEF At
  <2>2. Slots("open", n + 1, g[n + 1].list, r) = {}
    BY <1>3, <2>1, SlotsOf
  <2>3. OpenOwn(g, r) = UNION {Slots("open", i, g[i].list, r) : i \in 1..n \cup {n + 1}}
    BY <1>3, <1>4 DEF OpenOwn
  <2>4. OpenOwn(op, r) = UNION {Slots("open", i, g[i].list, r) : i \in 1..n}
    BY <1>2, <1>3 DEF OpenOwn
  <2> QED
    BY <2>2, <2>3, <2>4
<1>6. \A r : OwnersIn(h, g, rt, r) = OwnersIn(h, op, rt, r)
  BY <1>5 DEF OwnersIn
<1> QED
  BY <1>1, <1>6 DEF OwnedOnce

(* A new rule that becomes a statement.                                      *)
LEMMA PlacedStep ==
    ASSUME Parsed, phase = "parse", NEW stack, Holds(heap', stack, roots),
           stack # <<>>, stack[1].what = "file", NEW u, Loose(heap', stack, roots, u),
           open' = Statement(stack, u), Counted(heap'),
           UNCHANGED <<freed, styles, macros, roots, calls, phase>>
    PROVE  Parsed'
<1>1. OwnedOnce(heap', Statement(stack, u), roots)
  BY StatementPlaces
<1>2. roots' = roots /\ rule' = rule
  BY DEF roots
<1>3. Statement(stack, u) # <<>> /\ Statement(stack, u)[1].what = "file"
  BY StatementKeeps DEF Holds
<1> QED
  BY <1>1, <1>2, <1>3 DEF Parsed, Reading, Untouched, Known

LEMMA InitParsed == Init => Parsed
<1> SUFFICES ASSUME Init PROVE Parsed
  OBVIOUS
<1>1. heap = <<>> /\ Len(heap) = 0
  BY EmptySeq DEF Init
<1>2. Addresses(heap) = {}
  BY <1>1 DEF Addresses
<1>3. Counted(heap) /\ OwnedOnce(heap, open, roots)
  BY <1>2 DEF Counted, Named, OfKind, OwnedOnce, RulesIn
<1>4. open = <<Open("file", "")>> /\ open # <<>>
  BY DEF Init
<1>5. open[1].what = "file"
  BY <1>4 DEF Open
<1> QED
  BY <1>3, <1>4, <1>5 DEF Init, Parsed, Reading, Untouched, Known

LEMMA DeclareStyleParsed ==
    ASSUME IInv, Parsed, NEW n \in Names, DeclareStyle(n)
    PROVE  Parsed'
<1>1. Style \in Object /\ ~IsRule(Style) /\ Owned(Style) = <<>> /\ Style.kind = "style"
      /\ Style.refs = 1
  BY DEF Style, Object, IsRule, Owned
<1>2. heap' = Append(heap, Style) /\ UNCHANGED <<freed, macros, roots, open, calls, phase>>
      /\ phase = "parse"
  BY DEF DeclareStyle, Parsing
<1>3. OwnedOnce(heap', open, roots)
  BY <1>1, <1>2, StateHolds, NoRuleMade DEF Parsed
<1>4. Counted(heap')
  BY <1>1, <1>2, AppendCounted DEF Parsed, Known, IInv
<1> QED
  BY <1>2, <1>3, <1>4 DEF Parsed, Reading, Untouched, Known, roots

(* A rule that owns nothing, and names nothing or is counted where it does.  *)
LEMMA LeafRuleParsed ==
    ASSUME IInv, Parsed, LeafRule
    PROVE  Parsed'
<1>1. Leaf \in Object /\ IsRule(Leaf) /\ Owned(Leaf) = <<>> /\ Leads(Leaf) = {} /\ Leaf.kind = "leaf"
  BY DEF Leaf, Object, IsRule, Owned, Leads
<1>2. /\ heap' = Append(heap, Leaf) /\ phase = "parse" /\ open # <<>>
      /\ open' = Statement(open, Len(heap'))
      /\ UNCHANGED <<freed, styles, macros, roots, calls, phase>>
  BY DEF LeafRule, Parsing
<1>3. Holds(heap, open, roots)
  BY StateHolds
<1>4. Loose(heap', open, roots, Len(heap'))
  BY <1>1, <1>2, <1>3, NewRuleLoose DEF Parsed
<1>5. Counted(heap')
  BY <1>1, <1>2, AppendCounted DEF Parsed, Known, IInv
<1>6. Holds(heap', open, roots)
  <2>1. Sound(heap') /\ Grows(heap, heap')
    BY <1>1, <1>2, AppendSound DEF IInv
  <2> QED
    BY <1>3, <2>1, HoldsGrow
<1> QED
  BY <1>2, <1>4, <1>5, <1>6, PlacedStep DEF Parsed, Reading

LEMMA NamingParsed ==
    ASSUME IInv, Parsed, phase = "parse", open # <<>>,
           NEW k \in {"style", "macro"}, NEW a \in OfKind(heap, k), NEW o \in Object,
           IsRule(o), o.kind \in {"style_rule", "macro_rule"}, Leads(o) = {a},
           \A x : x.kind = k => Fits(o, x),
           heap' = Append([heap EXCEPT ![a].refs = @ + 1], o),
           open' = Statement(open, Len(heap')),
           UNCHANGED <<freed, styles, macros, roots, calls, phase>>
    PROVE  Parsed'
<1>1. /\ heap \in Seq(Object) /\ a \in 1..Len(heap) /\ heap[a].kind = k
      /\ Sound(heap) /\ Holds(heap, open, roots)
  BY StateHolds DEF IInv, Sound, OfKind, Addresses
<1>2. heap[a].refs + 1 \in Int
  <2>1. heap[a] \in Object
    BY <1>1, ElementOfSeq
  <2> QED
    BY <1>1, <2>1, ObjectParts
<1>3. PICK m : Recounts(heap, a, heap[a].refs + 1, m)
  BY DEF Recounts
<1>4. a \in OfKind(heap, "style") \cup OfKind(heap, "macro")
  OBVIOUS
<1>5. OwnedOnce(m, open, roots) /\ Holds(m, open, roots)
  BY <1>1, <1>2, <1>3, <1>4, RecountOwners DEF Parsed
<1>6. heap' = Append(m, o)
  BY <1>3 DEF Recounts
<1>7. Owned(o) = <<>>
  BY DEF Owned
<1>8. Loose(heap', open, roots, Len(heap'))
  BY <1>5, <1>6, <1>7, NewRuleLoose
<1>9. Counted(heap')
  BY <1>1, <1>4, UseCounted DEF Parsed, Known, Named
<1>10. Holds(heap', open, roots)
  <2>1. Sound(heap') /\ Grows(heap, heap')
    BY <1>1, UseSound
  <2> QED
    BY <1>1, <2>1, HoldsGrow
<1> QED
  BY <1>8, <1>9, <1>10, PlacedStep DEF Parsed, Reading

LEMMA NameMacroParsed ==
    ASSUME IInv, Parsed, NEW n \in Names, NameMacro(n)
    PROVE  Parsed'
<1>1. PICK a : a = macros[n]
  OBVIOUS
<1>2. a \in OfKind(heap, "macro") /\ a \in Nat
  BY <1>1 DEF IInv, NameMacro, OfKind, Addresses
<1>3. PICK o : o = MacroRule(a)
  OBVIOUS
<1>4. /\ o \in Object /\ IsRule(o) /\ o.kind = "macro_rule" /\ Leads(o) = {a}
      /\ \A x : x.kind = "macro" => Fits(o, x)
  BY <1>2, <1>3 DEF MacroRule, Object, IsRule, Leads, Fits
<1>5. heap' = Append([heap EXCEPT ![a].refs = @ + 1], o)
  BY <1>1, <1>3 DEF NameMacro, new_macro_rule
<1>6. /\ phase = "parse" /\ open # <<>> /\ open' = Statement(open, Len(heap'))
      /\ UNCHANGED <<freed, styles, macros, roots, calls, phase>>
  BY DEF NameMacro, Parsing
<1> QED
  BY <1>2, <1>4, <1>5, <1>6, NamingParsed

LEMMA NameStyleParsed ==
    ASSUME IInv, Parsed, NEW n \in Names, NameStyle(n)
    PROVE  Parsed'
<1>1. PICK a : a = styles[n]
  OBVIOUS
<1>2. a \in OfKind(heap, "style") /\ a \in Nat
  BY <1>1 DEF IInv, NameStyle, OfKind, Addresses
<1>3. PICK o : o = StyleRule(a)
  OBVIOUS
<1>4. /\ o \in Object /\ IsRule(o) /\ o.kind = "style_rule" /\ Leads(o) = {a}
      /\ \A x : x.kind = "style" => Fits(o, x)
  BY <1>2, <1>3 DEF StyleRule, Object, IsRule, Leads, Fits
<1>5. heap' = Append([heap EXCEPT ![a].refs = @ + 1], o)
  BY <1>1, <1>3 DEF NameStyle, new_style_rule
<1>6. /\ phase = "parse" /\ open # <<>> /\ open' = Statement(open, Len(heap'))
      /\ UNCHANGED <<freed, styles, macros, roots, calls, phase>>
  BY DEF NameStyle, Parsing
<1> QED
  BY <1>2, <1>4, <1>5, <1>6, NamingParsed

LEMMA OpensParsed ==
    ASSUME IInv, Parsed, Parsing, NEW what \in {"file", "match", "macro", "prepend", "append"},
           NEW n \in Names \cup {""}, open' = Append(open, Open(what, n)),
           UNCHANGED <<heap, freed, styles, macros, roots, calls, phase>>
    PROVE  Parsed'
<1>1. PICK x : x = Open(what, n)
  OBVIOUS
<1>2. x \in OpenIn(heap) /\ x.list = <<>>
  <2>1. <<>> \in Seq(RulesIn(heap))
    BY EmptySeq
  <2> QED
    BY <1>1, <2>1 DEF Open, OpenIn
<1>3. open \in Seq(OpenIn(heap)) /\ open # <<>> /\ phase = "parse"
  BY DEF IInv, Parsing
<1>4. OwnedOnce(heap, open', roots)
  BY <1>1, <1>2, <1>3, OpenedOwners DEF Parsed
<1>5. open' # <<>> /\ open'[1] = open[1]
  BY <1>1, <1>2, <1>3, AppendKeeps
<1>6. roots' = roots /\ rule' = rule
  BY DEF roots
<1> QED
  BY <1>3, <1>4, <1>5, <1>6 DEF Parsed, Reading, Untouched, Known

(* The body that ends is a loose rule of the heap.                           *)
LEMMA BodyParsed ==
    ASSUME IInv, Parsed, phase = "parse"
    PROVE  /\ Loose(Body.heap, Front(open), roots, Body.rule)
           /\ Holds(Body.heap, Front(open), roots)
           /\ Counted(Body.heap) /\ open # <<>>
           /\ Sound(Body.heap) /\ Grows(heap, Body.heap) /\ Body.rule \in RulesIn(Body.heap)
<1>1. open # <<>> /\ Counted(heap) /\ OwnedOnce(heap, open, roots)
  BY DEF Parsed, Reading, Known
<1>2. Holds(heap, open, roots)
  BY StateHolds
<1>3. Loose(Body.heap, Front(open), roots, Body.rule)
  BY <1>1, <1>2, BodyLoose DEF Body, top
<1>4. top.list \in Seq(RulesIn(heap)) /\ Front(open) \in Seq(OpenIn(heap))
  BY <1>1, TopIn DEF IInv, top
<1>5. Counted(Body.heap)
  BY <1>1, <1>4, BodyCounted DEF IInv, Body
<1>6. Sound(Body.heap) /\ Grows(heap, Body.heap) /\ Body.rule \in RulesIn(Body.heap)
  BY <1>1, BodyIn
<1>7. Holds(heap, Front(open), roots)
  BY <1>2, <1>4 DEF Holds
<1> QED
  BY <1>1, <1>3, <1>5, <1>6, <1>7, HoldsGrow

LEMMA StillOpen ==
    ASSUME IInv, Parsed, phase = "parse", top.what # "file" \/ Len(open) > 1
    PROVE  Front(open) # <<>> /\ Front(open)[1].what = "file"
<1>1. open \in Seq(OpenIn(heap)) /\ open # <<>> /\ open[1].what = "file"
  BY DEF IInv, Parsed, Reading
<1> QED
  BY <1>1, FrontKeeps DEF top

LEMMA CloseMatchParsed ==
    ASSUME IInv, Parsed, CloseMatch
    PROVE  Parsed'
<1>1. /\ phase = "parse" /\ top.what = "match" /\ heap' = Append(Body.heap, MatchRule(Body.rule))
      /\ open' = Statement(Front(open), Len(heap'))
      /\ UNCHANGED <<freed, styles, macros, roots, calls, phase>>
  BY DEF CloseMatch, Parsing
<1>2. PICK h : h = Body.heap
  OBVIOUS
<1>3. PICK u : u = Body.rule
  OBVIOUS
<1>4. PICK o : o = MatchRule(u)
  OBVIOUS
<1>5. /\ Loose(h, Front(open), roots, u) /\ Holds(h, Front(open), roots) /\ Counted(h)
      /\ Sound(h) /\ Grows(heap, h) /\ u \in RulesIn(h)
  BY <1>1, <1>2, <1>3, BodyParsed
<1>6. u \in Nat
  BY <1>5 DEF RulesIn, Addresses
<1>7. o \in Object /\ IsRule(o) /\ Owned(o) = <<u>> /\ Leads(o) = {u} /\ o.kind = "match"
  BY <1>4, <1>6 DEF MatchRule, Object, IsRule, Owned, Leads
<1>8. heap' = Append(h, o)
  BY <1>1, <1>2, <1>3, <1>4
<1>9. Loose(heap', Front(open), roots, Len(heap'))
  BY <1>5, <1>7, <1>8, BodyTaken
<1>10. Counted(heap')
  BY <1>5, <1>7, <1>8, AppendCounted
<1>11. Holds(heap', Front(open), roots)
  <2>1. \A b \in Leads(o) : b \in Addresses(h) /\ Fits(o, h[b])
    BY <1>5, <1>7 DEF RulesIn, Fits
  <2>2. Sound(heap') /\ Grows(h, heap')
    BY <1>5, <1>7, <1>8, <2>1, AppendSound
  <2> QED
    BY <1>5, <2>2, HoldsGrow
<1>12. Front(open) # <<>> /\ Front(open)[1].what = "file"
  BY <1>1, StillOpen
<1> QED
  BY <1>1, <1>9, <1>10, <1>11, <1>12, PlacedStep

LEMMA CloseMacroParsed ==
    ASSUME IInv, Parsed, CloseMacro
    PROVE  Parsed'
<1>1. /\ phase = "parse" /\ top.what = "macro" /\ heap' = Append(Body.heap, Macro(Body.rule))
      /\ open' = Front(open)
      /\ UNCHANGED <<freed, styles, roots, calls, phase>>
  BY DEF CloseMacro, Parsing
<1>2. PICK h : h = Body.heap
  OBVIOUS
<1>3. PICK u : u = Body.rule
  OBVIOUS
<1>4. PICK o : o = Macro(u)
  OBVIOUS
<1>5. /\ Loose(h, Front(open), roots, u) /\ Holds(h, Front(open), roots) /\ Counted(h)
      /\ Sound(h) /\ u \in RulesIn(h)
  BY <1>1, <1>2, <1>3, BodyParsed
<1>6. u \in Nat
  BY <1>5 DEF RulesIn, Addresses
<1>7. o \in Object /\ ~IsRule(o) /\ Owned(o) = <<u>> /\ o.kind = "macro" /\ o.refs = 1
  BY <1>4, <1>6 DEF Macro, Object, IsRule, Owned
<1>8. heap' = Append(h, o)
  BY <1>1, <1>2, <1>3, <1>4
<1>9. OwnedOnce(heap', Front(open), roots)
  BY <1>5, <1>7, <1>8, BodyTaken
<1>10. Counted(heap')
  BY <1>5, <1>7, <1>8, AppendCounted
<1>11. Front(open) # <<>> /\ Front(open)[1].what = "file"
  BY <1>1, StillOpen
<1>12. roots' = roots /\ rule' = rule
  BY <1>1 DEF roots
<1> QED
  BY <1>1, <1>9, <1>10, <1>11, <1>12 DEF Parsed, Reading, Untouched, Known

(* The rules of the script.                                                  *)
LEMMA RootPlaced ==
    ASSUME IInv, Parsed, phase = "parse", NEW k \in 1..3, roots[k] = NoRule,
           roots' = [roots EXCEPT ![k] = Body.rule]
    PROVE  OwnedOnce(Body.heap, Front(open), roots')
<1>1. PICK h : h = Body.heap
  OBVIOUS
<1>2. PICK u : u = Body.rule
  OBVIOUS
<1>3. Loose(h, Front(open), roots, u) /\ u \in RulesIn(h)
  BY <1>1, <1>2, BodyParsed
<1>4. u # NoRule
  BY <1>3 DEF RulesIn, Addresses, NoRule
<1>5. PICK new : new = [roots EXCEPT ![k] = u]
  OBVIOUS
<1>6. Len(roots) = 3 /\ Len(new) = 3 /\ new[k] = u /\ \A j \in 1..3 : j # k => new[j] = roots[j]
  BY <1>5 DEF roots
<1>7. OwnedOnce(h, Front(open), new)
  BY <1>3, <1>4, <1>6, RootPlaces
<1> QED
  BY <1>1, <1>2, <1>5, <1>7

LEMMA CloseRootParsed ==
    ASSUME IInv, Parsed, ClosePrepend \/ CloseAppend
    PROVE  Parsed'
<1>1. /\ phase = "parse" /\ top.what \in {"prepend", "append"} /\ heap' = Body.heap
      /\ open' = Front(open) /\ UNCHANGED <<freed, styles, macros, calls, phase, rule>>
  BY DEF ClosePrepend, CloseAppend, Parsing
<1>2. OwnedOnce(Body.heap, Front(open), roots')
  <2>1. CASE ClosePrepend
    <3>1. roots[1] = NoRule /\ roots' = [roots EXCEPT ![1] = Body.rule]
      BY <2>1 DEF ClosePrepend, roots
    <3> QED
      BY <1>1, <3>1, RootPlaced
  <2>2. CASE CloseAppend
    <3>1. roots[2] = NoRule /\ roots' = [roots EXCEPT ![2] = Body.rule]
      BY <2>2 DEF CloseAppend, roots
    <3> QED
      BY <1>1, <3>1, RootPlaced
  <2> QED
    BY <2>1, <2>2
<1>3. Counted(Body.heap)
  BY <1>1, BodyParsed
<1>4. Front(open) # <<>> /\ Front(open)[1].what = "file"
  <2>1. top.what # "file"
    BY <1>1
  <2> QED
    BY <1>1, <2>1, StillOpen
<1> QED
  BY <1>1, <1>2, <1>3, <1>4 DEF Parsed, Reading, Untouched, Known

LEMMA EndOfIncludeParsed ==
    ASSUME IInv, Parsed, EndOfInclude
    PROVE  Parsed'
<1>1. /\ phase = "parse" /\ Len(open) > 1 /\ heap' = Body.heap
      /\ open' = Statement(Front(open), Body.rule)
      /\ UNCHANGED <<freed, styles, macros, roots, calls, phase>>
  BY DEF EndOfInclude, Parsing
<1>2. /\ Loose(heap', Front(open), roots, Body.rule) /\ Holds(heap', Front(open), roots)
      /\ Counted(heap')
  BY <1>1, BodyParsed
<1>3. Front(open) # <<>> /\ Front(open)[1].what = "file"
  BY <1>1, StillOpen
<1> QED
  BY <1>1, <1>2, <1>3, PlacedStep

LEMMA EndOfScriptParsed ==
    ASSUME IInv, Parsed, EndOfScript
    PROVE  Parsed'
<1>1. /\ phase = "parse" /\ Len(open) = 1 /\ heap' = Body.heap /\ open' = <<>> /\ phase' = "run"
      /\ rule' = Body.rule
      /\ UNCHANGED <<freed, styles, macros, prepend_rule, append_rule, calls>>
  BY DEF EndOfScript
<1>2. OwnedOnce(Body.heap, Front(open), roots')
  <2>1. roots[3] = NoRule /\ roots' = [roots EXCEPT ![3] = Body.rule]
    BY <1>1 DEF Parsed, Reading, roots
  <2> QED
    BY <1>1, <2>1, RootPlaced
<1>3. Front(open) = <<>>
  BY <1>1 DEF Front
<1>4. Counted(Body.heap)
  BY <1>1, BodyParsed
<1> QED
  BY <1>1, <1>2, <1>3, <1>4 DEF Parsed, Reading, Untouched, Known

LEMMA ParseParsed ==
    ASSUME IInv, Parsed, Parse
    PROVE  Parsed'
<1>1. CASE \E n \in Names : DeclareStyle(n)
  BY <1>1, DeclareStyleParsed
<1>2. CASE \E n \in Names : NameMacro(n)
  BY <1>2, NameMacroParsed
<1>3. CASE \E n \in Names : NameStyle(n)
  BY <1>3, NameStyleParsed
<1>4. CASE \E n \in Names : OpenBody("macro", n)
  BY <1>4, OpensParsed DEF OpenBody
<1>5. CASE \E what \in {"match", "prepend", "append"} : OpenBody(what, "")
  BY <1>5, OpensParsed DEF OpenBody
<1>6. CASE LeafRule
  BY <1>6, LeafRuleParsed
<1>7. CASE Include
  BY <1>7, OpensParsed DEF Include
<1>8. CASE CloseMatch
  BY <1>8, CloseMatchParsed
<1>9. CASE CloseMacro
  BY <1>9, CloseMacroParsed
<1>10. CASE ClosePrepend \/ CloseAppend
  BY <1>10, CloseRootParsed
<1>11. CASE EndOfInclude
  BY <1>11, EndOfIncludeParsed
<1>12. CASE EndOfScript
  BY <1>12, EndOfScriptParsed
<1>13. CASE ScriptDie
  <2>1. /\ phase' = "dead" /\ heap' = heap /\ open' = open /\ roots' = roots
    BY <1>13 DEF ScriptDie, roots
  <2> QED
    BY <2>1 DEF Parsed, Reading, Untouched, Known
<1> QED
  BY <1>1, <1>2, <1>3, <1>4, <1>5, <1>6, <1>7, <1>8, <1>9, <1>10, <1>11, <1>12, <1>13
     DEF Parse

-----------------------------------------------------------------------------
(* How often something is in a list.                                         *)
Count(s, x) == Cardinality(At(s, x))

LEMMA CountIsNat ==
    ASSUME NEW S, NEW s \in Seq(S), NEW x
    PROVE  /\ IsFiniteSet(At(s, x)) /\ Count(s, x) \in Nat
           /\ Count(s, x) = 0 <=> At(s, x) = {}
<1>1. At(s, x) \subseteq 1..Len(s) /\ Len(s) \in Nat
  BY DEF At
<1>2. IsFiniteSet(1..Len(s))
  <2>1. 1 \in Int /\ Len(s) \in Int
    BY <1>1
  <2> QED
    BY <2>1, FS_Interval, Zenon
<1>3. IsFiniteSet(At(s, x))
  BY <1>1, <1>2, FS_Subset
<1> QED
  BY <1>3, FS_CardinalityType, FS_EmptySet DEF Count

LEMMA CountNone ==
    ASSUME NEW s, NEW x, At(s, x) = {}
    PROVE  Count(s, x) = 0
  BY FS_EmptySet DEF Count

LEMMA CountEmpty ==
    ASSUME NEW x
    PROVE  Count(<<>>, x) = 0
<1>1. At(<<>>, x) = {}
  BY DEF At
<1> QED
  BY <1>1, CountNone

LEMMA CountOne ==
    ASSUME NEW y, NEW x
    PROVE  /\ x = y => Count(<<y>>, x) = 1
           /\ x # y => Count(<<y>>, x) = 0
<1>1. x = y => At(<<y>>, x) = {1}
  BY DEF At
<1>2. x # y => At(<<y>>, x) = {}
  BY DEF At
<1> QED
  BY <1>1, <1>2, CountNone, FS_Singleton DEF Count

LEMMA CountConcat ==
    ASSUME NEW S, NEW s \in Seq(S), NEW t \in Seq(S), NEW x
    PROVE  Count(s \o t, x) = Count(s, x) + Count(t, x)
<1>1. PICK n \in Nat : n = Len(s)
  OBVIOUS
<1>2. PICK m \in Nat : m = Len(t)
  OBVIOUS
<1>3. PICK g : g = s \o t
  OBVIOUS
<1>4. /\ Len(g) = n + m /\ \A i \in 1..n : g[i] = s[i]
      /\ \A j \in 1..m : g[n + j] = t[j]
  <2>1. Len(g) = n + m
    BY <1>1, <1>2, <1>3, ConcatProperties
  <2>2. \A i \in 1..(n + m) : g[i] = IF i <= n THEN s[i] ELSE t[i - n]
    BY <1>1, <1>2, <1>3, ConcatProperties
  <2>3. ASSUME NEW j \in 1..m PROVE g[n + j] = t[j]
    <3>1. n + j \in 1..(n + m) /\ ~(n + j <= n) /\ (n + j) - n = j
      OBVIOUS
    <3> QED
      BY <2>2, <3>1
  <2> QED
    BY <2>1, <2>2, <2>3
<1> DEFINE A == At(s, x)
           B == {n + j : j \in At(t, x)}
<1>5. At(g, x) = A \cup B
  <2>1. ASSUME NEW i, i \in At(g, x) PROVE i \in A \cup B
    <3>1. i \in 1..(n + m) /\ g[i] = x
      BY <1>4, <2>1 DEF At
    <3>2. CASE i <= n
      BY <1>1, <1>4, <3>1, <3>2 DEF At
    <3>3. CASE ~(i <= n)
      <4>1. i - n \in 1..m /\ i = n + (i - n)
        BY <3>1, <3>3
      <4>2. i - n \in At(t, x)
        BY <1>2, <1>4, <3>1, <4>1 DEF At
      <4> QED
        BY <4>1, <4>2
    <3> QED
      BY <3>2, <3>3
  <2>2. ASSUME NEW i \in A PROVE i \in At(g, x)
    BY <1>1, <1>4 DEF At
  <2>3. ASSUME NEW j \in At(t, x) PROVE n + j \in At(g, x)
    <3>1. j \in 1..m /\ t[j] = x
      BY <1>2 DEF At
    <3>2. n + j \in 1..(n + m)
      BY <3>1
    <3> QED
      BY <1>4, <3>1, <3>2 DEF At
  <2> QED
    BY <2>1, <2>2, <2>3
<1>6. IsFiniteSet(A) /\ IsFiniteSet(At(t, x)) /\ Count(s, x) \in Nat /\ Count(t, x) \in Nat
  BY CountIsNat
<1>7. IsFiniteSet(B) /\ Cardinality(B) = Count(t, x)
  <2>1. PICK f : f = [j \in At(t, x) |-> n + j]
    OBVIOUS
  <2>2. At(t, x) \subseteq Nat
    BY <1>2 DEF At
  <2>3. f \in Bijection(At(t, x), B)
    <3>1. f \in [At(t, x) -> B]
      BY <2>1
    <3>2. \A j, k \in At(t, x) : f[j] = f[k] => j = k
      BY <2>1, <2>2
    <3>3. \A y \in B : \E j \in At(t, x) : f[j] = y
      BY <2>1
    <3> HIDE DEF B
    <3>4. f \in Injection(At(t, x), B) /\ f \in Surjection(At(t, x), B)
      BY <3>1, <3>2, <3>3 DEF Injection, Surjection, IsInjective
    <3> QED
      BY <3>4 DEF Bijection
  <2>4. ExistsBijection(At(t, x), B)
    BY <2>3 DEF ExistsBijection
  <2> QED
    BY <1>6, <2>4, FS_Bijection DEF Count
<1>8. A \cap B = {}
  <2>1. \A i \in A : i <= n
    BY <1>1 DEF At
  <2>2. \A j \in At(t, x) : j \in 1..m
    BY <1>2 DEF At
  <2>3. \A i \in B : i > n
    BY <2>2
  <2>4. A \subseteq Int
    BY DEF At
  <2> QED
    BY <2>1, <2>3, <2>4
<1> HIDE DEF A, B
<1>9. Cardinality(A \cup B) = Cardinality(A) + Cardinality(B) - Cardinality(A \cap B)
  BY <1>6, <1>7, FS_Union
<1>10. Cardinality(A \cap B) = 0 /\ Cardinality(A) = Count(s, x)
  BY <1>8, FS_EmptySet DEF A, Count
<1>11. Count(g, x) = Count(s, x) + Count(t, x)
  BY <1>5, <1>6, <1>7, <1>9, <1>10 DEF Count
<1> QED
  BY <1>3, <1>11

(* A call that returns, after it asked for more.                             *)
LEMMA CountReturn ==
    ASSUME NEW S, NEW cs \in Seq(S), cs # <<>>, NEW more \in Seq(S), NEW x
    PROVE  /\ Head(cs) = x => /\ Count(more \o Tail(cs), x) = Count(more, x) + Count(cs, x) - 1
                              /\ Count(cs, x) >= 1
           /\ Head(cs) # x => Count(more \o Tail(cs), x) = Count(more, x) + Count(cs, x)
<1>1. Head(cs) \in S /\ Tail(cs) \in Seq(S)
  BY HeadTailProperties
<1>2. <<Head(cs)>> \in Seq(S)
  BY <1>1, OneCall
<1>3. cs = <<Head(cs)>> \o Tail(cs)
  <2>1. PICK n \in Nat : n = Len(cs)
    OBVIOUS
  <2>2. n # 0 /\ Len(Tail(cs)) = n - 1 /\ \A i \in 1..(n - 1) : Tail(cs)[i] = cs[i + 1]
    BY <2>1, EmptySeq, HeadTailProperties
  <2>3. PICK g : g = <<Head(cs)>> \o Tail(cs)
    OBVIOUS
  <2>4. PICK one : one = <<Head(cs)>>
    OBVIOUS
  <2>5. one \in Seq(S) /\ Len(one) = 1 /\ one[1] = cs[1]
    BY <1>2, <2>4
  <2>6. g \in Seq(S) /\ Len(g) = n /\ \A i \in 1..n : g[i] = IF i <= 1 THEN one[i] ELSE Tail(cs)[i - 1]
    BY <1>1, <2>1, <2>2, <2>3, <2>4, <2>5, ConcatProperties
  <2>7. ASSUME NEW i \in 1..n PROVE g[i] = cs[i]
    <3>1. CASE i = 1
      BY <2>5, <2>6, <3>1
    <3>2. CASE i # 1
      <4>1. i - 1 \in 1..(n - 1) /\ ~(i <= 1) /\ (i - 1) + 1 = i
        BY <3>2
      <4> QED
        BY <2>2, <2>6, <4>1
    <3> QED
      BY <3>1, <3>2
  <2> QED
    BY <2>1, <2>3, <2>6, <2>7, SeqEqual
<1>4. Count(cs, x) = Count(<<Head(cs)>>, x) + Count(Tail(cs), x)
  <2>1. PICK one \in Seq(S) : one = <<Head(cs)>>
    BY <1>1, <1>2
  <2>2. PICK rest \in Seq(S) : rest = Tail(cs)
    BY <1>1
  <2>3. Count(one \o rest, x) = Count(one, x) + Count(rest, x)
    BY CountConcat
  <2> QED
    BY <1>3, <2>1, <2>2, <2>3
<1>5. Count(more \o Tail(cs), x) = Count(more, x) + Count(Tail(cs), x)
  BY <1>1, CountConcat
<1>6. /\ Count(cs, x) \in Nat /\ Count(more, x) \in Nat /\ Count(Tail(cs), x) \in Nat
  BY <1>1, CountIsNat
<1>7. /\ Head(cs) = x => Count(<<Head(cs)>>, x) = 1
      /\ Head(cs) # x => Count(<<Head(cs)>>, x) = 0
  BY CountOne
<1> QED
  BY <1>4, <1>5, <1>6, <1>7

(* Calls for all of a list.                                                  *)
LEMMA CountCalls ==
    ASSUME NEW S, NEW list \in Seq(S), NEW fn, NEW other, NEW a
    PROVE  /\ other = fn => Count(Calls(fn, list), Call(other, a)) = Count(list, a)
           /\ other # fn => Count(Calls(fn, list), Call(other, a)) = 0
<1>1. PICK n \in Nat : n = Len(list)
  <2>1. Len(list) \in Nat
    BY LenProperties
  <2> QED
    BY <2>1
<1>2. PICK g : g = Calls(fn, list)
  OBVIOUS
<1>3. g = [i \in 1..n |-> Call(fn, list[i])]
  BY <1>1, <1>2 DEF Calls
<1>4. Len(g) = n
  <2>1. PICK R : R = {g[i] : i \in 1..n}
    OBVIOUS
  <2>2. g \in [1..n -> R]
    BY <1>3, <2>1
  <2>3. g \in Seq(R)
    BY <1>1, <2>2, SeqDef
  <2>4. DOMAIN g = 1..Len(g) /\ Len(g) \in Nat /\ DOMAIN g = 1..n
    BY <2>2, <2>3, LenProperties
  <2>5. PICK k \in Nat : k = Len(g)
    BY <2>4
  <2>6. 1..k = 1..n
    BY <2>4, <2>5
  <2>7. ~(k < n)
    <3>1. k < n => n \in 1..n /\ n \notin 1..k
      OBVIOUS
    <3> QED
      BY <2>6, <3>1
  <2>8. ~(n < k)
    <3>1. n < k => k \in 1..k /\ k \notin 1..n
      OBVIOUS
    <3> QED
      BY <2>6, <3>1
  <2> QED
    BY <2>5, <2>7, <2>8
<1>5. At(g, Call(fn, a)) = At(list, a)
  <2>1. \A i \in 1..n : g[i] = Call(fn, a) <=> list[i] = a
    BY <1>3 DEF Call
  <2> QED
    BY <1>1, <1>4, <2>1 DEF At
<1>6. other # fn => At(g, Call(other, a)) = {}
  <2>1. other # fn => \A i \in 1..n : g[i] # Call(other, a)
    BY <1>3 DEF Call
  <2> QED
    BY <1>4, <2>1 DEF At
<1> QED
  BY <1>2, <1>5, <1>6, CountNone DEF Count

(* What is nowhere twice.                                                    *)
LEMMA CountAtMostOne ==
    ASSUME NEW s, NEW x, \A i, j \in At(s, x) : i = j
    PROVE  Count(s, x) <= 1
<1>1. CASE At(s, x) = {}
  <2>1. Count(s, x) = 0
    BY <1>1, CountNone
  <2> QED
    BY <2>1
<1>2. CASE At(s, x) # {}
  <2>1. PICK i : i \in At(s, x)
    BY <1>2
  <2>2. At(s, x) = {i}
    BY <2>1
  <2>3. Cardinality({i}) = 1
    BY FS_Singleton
  <2> QED
    BY <2>2, <2>3 DEF Count
<1> QED
  BY <1>1, <1>2

-----------------------------------------------------------------------------
(* Giving the script back.  A rule is come by once: it is called for, is     *)
(* about to be freed, or was freed, and then what owned it was a rule of the *)
(* script or a list that was freed before.  A style or a macro is counted by *)
(* the calls that will take one off, and by the rules that were not come by. *)
N(cs, fn, a) == Count(cs, Call(fn, a))

Times(cs, fr, r) ==
    N(cs, "free_rule", r) + N(cs, "free", r) + (IF r \in fr THEN 1 ELSE 0)

Processed(cs, fr, q)  == q \in fr \/ N(cs, "free", q) > 0
Unspent(h, cs, fr, a) == {q \in UsersIn(h, a) : ~Processed(cs, fr, q)}

Gone(h, cs, fr, x) ==
    \/ x[1] = "root"
    \/ x[1] = "heap" /\ h[x[2]].kind = "multi" /\ Processed(cs, fr, x[2])

OnceEach(h, cs, fr) == \A r \in Addresses(h) : Times(cs, fr, r) <= 1

FromOwner(h, op, rt, cs, fr) ==
    \A r \in RulesIn(h) :
      Times(cs, fr, r) > 0 => \A x \in OwnersIn(h, op, rt, r) : Gone(h, cs, fr, x)

StylesKept(h, cs, fr) ==
    \A s \in OfKind(h, "style") :
      /\ h[s].refs >= N(cs, "free_style", s) + Cardinality(Unspent(h, cs, fr, s))
      /\ Times(cs, fr, s) > 0 => h[s].refs <= 0

MacrosKept(h, cs, fr) ==
    \A m \in OfKind(h, "macro") :
      h[m].refs >= 1 + N(cs, "free_macro", m) + Cardinality(Unspent(h, cs, fr, m))

Freeing(h, op, rt, cs, fr) ==
    /\ OnceEach(h, cs, fr) /\ FromOwner(h, op, rt, cs, fr)
    /\ StylesKept(h, cs, fr) /\ MacrosKept(h, cs, fr)

LEMMA NaturalCounts ==
    ASSUME NEW S, NEW cs \in Seq(S), NEW fn, NEW a
    PROVE  N(cs, fn, a) \in Nat
  BY CountIsNat DEF N

LEMMA NaturalTimes ==
    ASSUME NEW S, NEW cs \in Seq(S), NEW fr, NEW r
    PROVE  /\ Times(cs, fr, r) \in Nat
           /\ Times(cs, fr, r) = 0 <=> /\ N(cs, "free_rule", r) = 0 /\ N(cs, "free", r) = 0
                                       /\ r \notin fr
           /\ Times(cs, fr, r) <= 1 /\ N(cs, "free_rule", r) >= 1 =>
                ~Processed(cs, fr, r)
           /\ Processed(cs, fr, r) => Times(cs, fr, r) > 0
           /\ Times(cs, fr, r) <= 1 /\ N(cs, "free", r) >= 1 => r \notin fr
<1>1. N(cs, "free_rule", r) \in Nat /\ N(cs, "free", r) \in Nat
  BY NaturalCounts
<1>2. PICK n \in {0, 1} : n = IF r \in fr THEN 1 ELSE 0
  OBVIOUS
<1>3. n = 1 <=> r \in fr
  BY <1>2
<1>4. Times(cs, fr, r) = N(cs, "free_rule", r) + N(cs, "free", r) + n
  BY <1>2 DEF Times
<1> QED
  BY <1>1, <1>3, <1>4 DEF Processed

LEMMA FiniteUnspent ==
    ASSUME NEW h, Len(h) \in Nat, NEW cs, NEW fr, NEW a
    PROVE  /\ IsFiniteSet(Unspent(h, cs, fr, a)) /\ Cardinality(Unspent(h, cs, fr, a)) \in Nat
           /\ Unspent(h, cs, fr, a) \subseteq Addresses(h)
<1>1. IsFiniteSet(UsersIn(h, a))
  BY FiniteUsers
<1>2. Unspent(h, cs, fr, a) \subseteq UsersIn(h, a)
  BY DEF Unspent
<1>3. IsFiniteSet(Unspent(h, cs, fr, a))
  BY <1>1, <1>2, FS_Subset
<1>4. UsersIn(h, a) \subseteq Addresses(h)
  BY DEF UsersIn, NamersIn, OfKind
<1> QED
  BY <1>2, <1>3, <1>4, FS_CardinalityType

(* The calls after one of them returned.                                     *)
Returned(cs, more, new) == new = more \o Tail(cs)

LEMMA CallReturns ==
    ASSUME NEW h, NEW cs \in Seq(CallIn(h)), cs # <<>>, NEW more \in Seq(CallIn(h)),
           NEW new, Returned(cs, more, new), NEW fn, NEW a
    PROVE  /\ Head(cs).fn = fn /\ Head(cs).of = a =>
                N(new, fn, a) = N(more, fn, a) + N(cs, fn, a) - 1 /\ N(cs, fn, a) >= 1
           /\ Head(cs).fn # fn \/ Head(cs).of # a =>
                N(new, fn, a) = N(more, fn, a) + N(cs, fn, a)
<1>1. Head(cs) \in CallRecord
  BY HeadTailProperties DEF CallIn
<1>2. Head(cs) = Call(fn, a) <=> Head(cs).fn = fn /\ Head(cs).of = a
  BY <1>1 DEF CallRecord, Call
<1>3. /\ Head(cs) = Call(fn, a) => /\ Count(new, Call(fn, a))
                                        = Count(more, Call(fn, a)) + Count(cs, Call(fn, a)) - 1
                                   /\ Count(cs, Call(fn, a)) >= 1
      /\ Head(cs) # Call(fn, a) => Count(new, Call(fn, a))
                                        = Count(more, Call(fn, a)) + Count(cs, Call(fn, a))
  BY CountReturn DEF Returned
<1> QED
  BY <1>2, <1>3 DEF N

LEMMA NoMoreCalls ==
    ASSUME NEW fn, NEW a PROVE N(<<>>, fn, a) = 0
  BY CountEmpty DEF N

LEMMA OneMoreCall ==
    ASSUME NEW fn, NEW a, NEW f, NEW b
    PROVE  /\ f = fn /\ b = a => N(<<Call(f, b)>>, fn, a) = 1
           /\ f # fn \/ b # a => N(<<Call(f, b)>>, fn, a) = 0
<1>1. Call(fn, a) = Call(f, b) <=> f = fn /\ b = a
  BY DEF Call
<1> QED
  BY <1>1, CountOne DEF N

(* Nothing that matters changes.                                             *)
LEMMA FreeingSame ==
    ASSUME NEW h, NEW op, NEW rt, NEW cs, NEW fr, NEW cs2, NEW fr2, Freeing(h, op, rt, cs, fr),
           \A r \in Addresses(h) : /\ Times(cs2, fr2, r) = Times(cs, fr, r)
                                   /\ Processed(cs2, fr2, r) <=> Processed(cs, fr, r)
                                   /\ N(cs2, "free_style", r) = N(cs, "free_style", r)
                                   /\ N(cs2, "free_macro", r) = N(cs, "free_macro", r)
    PROVE  Freeing(h, op, rt, cs2, fr2)
<1>1. OnceEach(h, cs2, fr2)
  BY DEF Freeing, OnceEach
<1>2. FromOwner(h, op, rt, cs2, fr2)
  <2> SUFFICES ASSUME NEW r \in RulesIn(h), Times(cs2, fr2, r) > 0, NEW x \in OwnersIn(h, op, rt, r)
               PROVE  Gone(h, cs2, fr2, x)
    BY DEF FromOwner
  <2>1. Times(cs, fr, r) > 0
    BY DEF RulesIn
  <2>2. Gone(h, cs, fr, x)
    BY <2>1 DEF Freeing, FromOwner
  <2>3. x[1] = "heap" => x[2] \in Addresses(h)
    BY OwnerKinds DEF OwnersIn
  <2> QED
    BY <2>2, <2>3 DEF Gone
<1>3. \A a : Unspent(h, cs2, fr2, a) = Unspent(h, cs, fr, a)
  BY DEF Unspent, UsersIn, NamersIn, OfKind
<1>4. StylesKept(h, cs2, fr2)
  BY <1>3 DEF Freeing, StylesKept, OfKind
<1>5. MacrosKept(h, cs2, fr2)
  BY <1>3 DEF Freeing, MacrosKept, OfKind
<1> QED
  BY <1>1, <1>2, <1>4, <1>5 DEF Freeing

(* The memory of an object is given back.                                    *)
LEMMA FreeFreeing ==
    ASSUME NEW h, NEW op, NEW rt, NEW cs \in Seq(CallIn(h)), cs # <<>>, NEW fr,
           Freeing(h, op, rt, cs, fr), Head(cs).fn = "free", Head(cs).of \in Addresses(h)
    PROVE  Freeing(h, op, rt, <<>> \o Tail(cs), fr \cup {Head(cs).of})
<1>1. PICK a : a = Head(cs).of
  OBVIOUS
<1>2. PICK new : Returned(cs, <<>>, new)
  BY DEF Returned
<1>3. <<>> \in Seq(CallIn(h))
  BY EmptySeq
<1>4. new \in Seq(CallIn(h))
  BY <1>2, <1>3, ReturnIn DEF Returned
<1>5. ASSUME NEW fn, NEW x
      PROVE  /\ fn = "free" /\ x = a => N(new, fn, x) = N(cs, fn, x) - 1 /\ N(cs, fn, x) >= 1
             /\ fn # "free" \/ x # a => N(new, fn, x) = N(cs, fn, x)
  <2>1. PICK none : none = <<>>
    OBVIOUS
  <2>2. Returned(cs, none, new) /\ none \in Seq(CallIn(h))
    BY <1>2, <1>3, <2>1
  <2>3. /\ Head(cs).fn = fn /\ Head(cs).of = x =>
                N(new, fn, x) = N(none, fn, x) + N(cs, fn, x) - 1 /\ N(cs, fn, x) >= 1
        /\ Head(cs).fn # fn \/ Head(cs).of # x =>
                N(new, fn, x) = N(none, fn, x) + N(cs, fn, x)
    BY <2>2, CallReturns
  <2>4. N(none, fn, x) = 0 /\ N(cs, fn, x) \in Nat
    BY <2>1, NoMoreCalls, NaturalCounts
  <2> QED
    BY <1>1, <2>3, <2>4
<1>6. a \notin fr
  <2>1. Times(cs, fr, a) <= 1
    BY <1>1 DEF Freeing, OnceEach
  <2>2. N(cs, "free", a) >= 1
    BY <1>5
  <2> QED
    BY <2>1, <2>2, NaturalTimes
<1>7. ASSUME NEW r \in Addresses(h)
      PROVE  /\ Times(new, fr \cup {a}, r) = Times(cs, fr, r)
             /\ Processed(new, fr \cup {a}, r) <=> Processed(cs, fr, r)
             /\ N(new, "free_style", r) = N(cs, "free_style", r)
             /\ N(new, "free_macro", r) = N(cs, "free_macro", r)
  <2>1. /\ N(new, "free_rule", r) = N(cs, "free_rule", r)
        /\ N(new, "free_style", r) = N(cs, "free_style", r)
        /\ N(new, "free_macro", r) = N(cs, "free_macro", r)
    BY <1>5
  <2>2. N(cs, "free_rule", r) \in Nat /\ N(cs, "free", r) \in Nat
    BY NaturalCounts
  <2>3. CASE r = a
    <3>1. N(new, "free", r) = N(cs, "free", r) - 1 /\ N(cs, "free", r) >= 1
      BY <1>5, <2>3
    <3>2. r \notin fr /\ r \in fr \cup {a}
      BY <1>6, <2>3
    <3>3. Times(new, fr \cup {a}, r) = Times(cs, fr, r)
      BY <2>1, <2>2, <3>1, <3>2 DEF Times
    <3> QED
      BY <2>1, <2>2, <3>1, <3>2, <3>3 DEF Processed
  <2>4. CASE r # a
    <3>1. N(new, "free", r) = N(cs, "free", r)
      BY <1>5, <2>4
    <3>2. r \in fr <=> r \in fr \cup {a}
      BY <2>4
    <3> QED
      BY <2>1, <3>1, <3>2 DEF Times, Processed
  <2> QED
    BY <2>3, <2>4
<1>8. Freeing(h, op, rt, new, fr \cup {a})
  BY <1>7, FreeingSame
<1> QED
  BY <1>1, <1>2, <1>8 DEF Returned

(* What free_rule calls for, before it frees the rule.                       *)
LEMMA PartCounts ==
    ASSUME NEW h, Sound(h), NEW a \in Addresses(h), NEW x
    PROVE  LET o == h[a]
               p == Parts(o)
           IN  /\ N(p, "free", x) = 0
               /\ o.kind = "multi" => N(p, "free_rule", x) = Count(o.rules, x)
               /\ o.kind # "multi" => N(p, "free_rule", x) = 0
               /\ o.kind = "style_rule" /\ o.style = x => N(p, "free_style", x) = 1
               /\ o.kind # "style_rule" \/ o.style # x => N(p, "free_style", x) = 0
               /\ o.kind = "macro_rule" /\ o.macro = x => N(p, "free_macro", x) = 1
               /\ o.kind # "macro_rule" \/ o.macro # x => N(p, "free_macro", x) = 0
<1>1. PICK o : o = h[a]
  OBVIOUS
<1>2. o \in Object
  <2>1. h \in Seq(Object) /\ a \in 1..Len(h)
    BY DEF Sound, Addresses
  <2> QED
    BY <1>1, <2>1, ElementOfSeq
<1>3. CASE o.kind = "multi"
  <2>1. o.rules \in Seq(Nat) /\ Parts(o) = Calls("free_rule", o.rules)
    BY <1>2, <1>3, ObjectParts DEF Parts
  <2>2. /\ N(Parts(o), "free_rule", x) = Count(o.rules, x)
        /\ \A other : other # "free_rule" => N(Parts(o), other, x) = 0
    BY <2>1, CountCalls DEF N
  <2> QED
    BY <1>1, <1>3, <2>2
<1>4. CASE o.kind = "style_rule"
  <2>1. Parts(o) = <<Call("free_style", o.style)>>
    BY <1>4 DEF Parts
  <2>2. /\ o.style = x => N(Parts(o), "free_style", x) = 1
        /\ o.style # x => N(Parts(o), "free_style", x) = 0
        /\ N(Parts(o), "free", x) = 0 /\ N(Parts(o), "free_rule", x) = 0
        /\ N(Parts(o), "free_macro", x) = 0
    BY <2>1, OneMoreCall
  <2> QED
    BY <1>1, <1>4, <2>2
<1>5. CASE o.kind = "macro_rule"
  <2>1. Parts(o) = <<Call("free_macro", o.macro)>>
    BY <1>5 DEF Parts
  <2>2. /\ o.macro = x => N(Parts(o), "free_macro", x) = 1
        /\ o.macro # x => N(Parts(o), "free_macro", x) = 0
        /\ N(Parts(o), "free", x) = 0 /\ N(Parts(o), "free_rule", x) = 0
        /\ N(Parts(o), "free_style", x) = 0
    BY <2>1, OneMoreCall
  <2> QED
    BY <1>1, <1>5, <2>2
<1>6. CASE o.kind \notin {"multi", "style_rule", "macro_rule"}
  <2>1. Parts(o) = <<>>
    BY <1>6 DEF Parts
  <2>2. \A fn : N(Parts(o), fn, x) = 0
    BY <2>1, NoMoreCalls
  <2> QED
    BY <1>1, <1>6, <2>2
<1> QED
  BY <1>3, <1>4, <1>5, <1>6

(* The calls after free_rule of a rule, against those before.                *)
LEMMA RuleCalls ==
    ASSUME NEW h, Sound(h), NEW cs \in Seq(CallIn(h)), cs # <<>>, Head(cs).fn = "free_rule",
           NEW a \in Addresses(h), Head(cs).of = a,
           NEW new, Returned(cs, Parts(h[a]) \o <<Call("free", a)>>, new), NEW x
    PROVE  LET p == Parts(h[a])
           IN  /\ x = a => /\ N(new, "free_rule", x) = N(p, "free_rule", x) + N(cs, "free_rule", x) - 1
                           /\ N(cs, "free_rule", x) >= 1
                           /\ N(new, "free", x) = N(cs, "free", x) + 1
               /\ x # a => /\ N(new, "free_rule", x) = N(p, "free_rule", x) + N(cs, "free_rule", x)
                           /\ N(new, "free", x) = N(cs, "free", x)
               /\ N(new, "free_style", x) = N(p, "free_style", x) + N(cs, "free_style", x)
               /\ N(new, "free_macro", x) = N(p, "free_macro", x) + N(cs, "free_macro", x)
<1>1. PICK p : p = Parts(h[a])
  OBVIOUS
<1>2. PICK last : last = <<Call("free", a)>>
  OBVIOUS
<1>3. PICK more : more = p \o last
  OBVIOUS
<1>4. p \in Seq(CallIn(h))
  BY <1>1, PartsIn
<1>5. last \in Seq(CallIn(h))
  <2>1. Call("free", a) \in CallIn(h)
    BY CallAllowed DEF Sound
  <2> QED
    BY <1>2, <2>1, OneCall
<1>6. more \in Seq(CallIn(h))
  BY <1>3, <1>4, <1>5, ConcatProperties
<1>7. ASSUME NEW fn PROVE N(more, fn, x) = N(p, fn, x) + N(last, fn, x)
  BY <1>3, <1>4, <1>5, CountConcat DEF N
<1>8. /\ x = a => N(last, "free", x) = 1
      /\ x # a => N(last, "free", x) = 0
      /\ N(last, "free_rule", x) = 0 /\ N(last, "free_style", x) = 0 /\ N(last, "free_macro", x) = 0
  BY <1>2, OneMoreCall
<1>9. N(p, "free", x) = 0
  BY <1>1, PartCounts
<1>10. Returned(cs, more, new)
  BY <1>1, <1>2, <1>3
<1>11. ASSUME NEW fn
       PROVE  /\ fn = "free_rule" /\ x = a =>
                   N(new, fn, x) = N(more, fn, x) + N(cs, fn, x) - 1 /\ N(cs, fn, x) >= 1
              /\ fn # "free_rule" \/ x # a => N(new, fn, x) = N(more, fn, x) + N(cs, fn, x)
  BY <1>6, <1>10, CallReturns
<1>12. \A fn : N(p, fn, x) \in Nat /\ N(cs, fn, x) \in Nat
  BY <1>4, NaturalCounts
<1>13. x = a => /\ N(new, "free_rule", x) = N(p, "free_rule", x) + N(cs, "free_rule", x) - 1
                /\ N(cs, "free_rule", x) >= 1
                /\ N(new, "free", x) = N(cs, "free", x) + 1
  <2>1. x = a => N(new, "free_rule", x) = N(more, "free_rule", x) + N(cs, "free_rule", x) - 1
                 /\ N(cs, "free_rule", x) >= 1
    BY <1>11
  <2>2. N(new, "free", x) = N(more, "free", x) + N(cs, "free", x)
    BY <1>11
  <2>3. N(more, "free", x) = N(last, "free", x)
    <3>1. N(more, "free", x) = N(p, "free", x) + N(last, "free", x)
      BY <1>7
    <3>2. N(last, "free", x) \in Nat
      BY <1>5, NaturalCounts
    <3> QED
      BY <1>9, <3>1, <3>2
  <2>4. N(more, "free_rule", x) = N(p, "free_rule", x) + N(last, "free_rule", x)
    BY <1>7
  <2> QED
    BY <1>8, <1>12, <2>1, <2>2, <2>3, <2>4
<1>14. x # a => /\ N(new, "free_rule", x) = N(p, "free_rule", x) + N(cs, "free_rule", x)
                /\ N(new, "free", x) = N(cs, "free", x)
  <2>1. x # a => /\ N(new, "free_rule", x) = N(more, "free_rule", x) + N(cs, "free_rule", x)
                 /\ N(new, "free", x) = N(more, "free", x) + N(cs, "free", x)
    BY <1>11
  <2>2. /\ N(more, "free", x) = N(p, "free", x) + N(last, "free", x)
        /\ N(more, "free_rule", x) = N(p, "free_rule", x) + N(last, "free_rule", x)
    BY <1>7
  <2> QED
    BY <1>8, <1>9, <1>12, <2>1, <2>2
<1>15. /\ N(new, "free_style", x) = N(p, "free_style", x) + N(cs, "free_style", x)
       /\ N(new, "free_macro", x) = N(p, "free_macro", x) + N(cs, "free_macro", x)
  <2>1. /\ N(new, "free_style", x) = N(more, "free_style", x) + N(cs, "free_style", x)
        /\ N(new, "free_macro", x) = N(more, "free_macro", x) + N(cs, "free_macro", x)
    BY <1>11
  <2>2. /\ N(more, "free_style", x) = N(p, "free_style", x) + N(last, "free_style", x)
        /\ N(more, "free_macro", x) = N(p, "free_macro", x) + N(last, "free_macro", x)
    BY <1>7
  <2> QED
    BY <1>8, <1>12, <2>1, <2>2
<1> QED
  BY <1>1, <1>13, <1>14, <1>15

(* A rule is come by for the first time: it calls for its parts, which were  *)
(* not called for before.                                                    *)
LEMMA PartsFresh ==
    ASSUME NEW h, Sound(h), NEW op, NEW rt, OwnedOnce(h, op, rt),
           NEW cs \in Seq(CallIn(h)), NEW fr, FromOwner(h, op, rt, cs, fr),
           NEW a \in Addresses(h), ~Processed(cs, fr, a),
           NEW x, N(Parts(h[a]), "free_rule", x) # 0
    PROVE  /\ N(Parts(h[a]), "free_rule", x) = 1
           /\ Times(cs, fr, x) = 0
           /\ x \in RulesIn(h) /\ h[a].kind = "multi"
           /\ \A y \in OwnersIn(h, op, rt, x) : y[1] = "heap" /\ y[2] = a
<1>1. PICK o : o = h[a]
  OBVIOUS
<1>2. o \in Object
  <2>1. h \in Seq(Object) /\ a \in 1..Len(h)
    BY DEF Sound, Addresses
  <2> QED
    BY <1>1, <2>1, ElementOfSeq
<1>3. o.kind = "multi" /\ N(Parts(o), "free_rule", x) = Count(o.rules, x)
  BY <1>1, PartCounts
<1>4. o.rules \in Seq(Nat) /\ Owned(o) = o.rules
  BY <1>2, <1>3, ObjectParts DEF Owned
<1>5. Count(o.rules, x) \in Nat /\ (Count(o.rules, x) = 0 <=> At(o.rules, x) = {})
  BY <1>4, CountIsNat
<1>6. At(o.rules, x) # {}
  BY <1>1, <1>3, <1>5
<1>7. x \in RulesIn(h)
  <2>1. PICK j \in At(o.rules, x) : TRUE
    BY <1>6
  <2>2. j \in 1..Len(Owned(h[a])) /\ Owned(h[a])[j] = x
    BY <1>1, <1>4, <2>1 DEF At
  <2> QED
    BY <2>2, OwnedAreRules
<1>8. \A j \in At(o.rules, x) : <<"heap", a, j>> \in OwnersIn(h, op, rt, x)
  BY <1>1, <1>4 DEF OwnersIn, HeapOwn, Slots
<1>9. PICK only : OwnersIn(h, op, rt, x) = {only}
  BY <1>7 DEF OwnedOnce, Sole
<1>10. \A j \in At(o.rules, x) : <<"heap", a, j>> = only
  BY <1>8, <1>9
<1>11. only[1] = "heap" /\ only[2] = a
  BY <1>6, <1>10
<1>12. Count(o.rules, x) <= 1
  <2>1. \A i, j \in At(o.rules, x) : i = j
    BY <1>10
  <2> QED
    BY <2>1, CountAtMostOne
<1>13. Times(cs, fr, x) = 0
  <2>1. ~Gone(h, cs, fr, only)
    BY <1>11 DEF Gone
  <2>2. ~(Times(cs, fr, x) > 0)
    BY <1>7, <1>9, <2>1 DEF FromOwner
  <2>3. Times(cs, fr, x) \in Nat
    BY NaturalTimes
  <2> QED
    BY <2>2, <2>3
<1>14. Count(o.rules, x) = 1
  BY <1>1, <1>3, <1>5, <1>12
<1> QED
  BY <1>1, <1>3, <1>7, <1>9, <1>11, <1>13, <1>14

(* What a rule names is counted by its call instead of by the rule.          *)
ComesBy(cs, cs2, fr, a) == \A q : Processed(cs2, fr, q) <=> Processed(cs, fr, q) \/ q = a

LEMMA UnspentLess ==
    ASSUME NEW h, Len(h) \in Nat, NEW cs, NEW fr, NEW cs2, NEW a, NEW s,
           ComesBy(cs, cs2, fr, a)
    PROVE  /\ Cardinality(Unspent(h, cs2, fr, s)) <= Cardinality(Unspent(h, cs, fr, s))
           /\ a \in Unspent(h, cs, fr, s) =>
                Cardinality(Unspent(h, cs2, fr, s)) = Cardinality(Unspent(h, cs, fr, s)) - 1
<1>1. PICK A : A = Unspent(h, cs, fr, s)
  OBVIOUS
<1>2. PICK B : B = Unspent(h, cs2, fr, s)
  OBVIOUS
<1>3. B = A \ {a}
  BY <1>1, <1>2 DEF Unspent, ComesBy
<1>4. IsFiniteSet(A) /\ Cardinality(A) \in Nat
  BY <1>1, FiniteUnspent
<1>5. Cardinality(A \ {a}) = IF a \in A THEN Cardinality(A) - 1 ELSE Cardinality(A)
  BY <1>4, FS_RemoveElement
<1> QED
  BY <1>1, <1>2, <1>3, <1>4, <1>5

LEMMA RuleFreeing ==
    ASSUME NEW h, Sound(h), Len(h) \in Nat, NEW op, NEW rt, OwnedOnce(h, op, rt),
           NEW cs \in Seq(CallIn(h)), cs # <<>>, NEW fr, Freeing(h, op, rt, cs, fr),
           Head(cs).fn = "free_rule", NEW a \in Addresses(h), Head(cs).of = a,
           NEW new, Returned(cs, Parts(h[a]) \o <<Call("free", a)>>, new)
    PROVE  Freeing(h, op, rt, new, fr)
<1>1. PICK p : p = Parts(h[a])
  OBVIOUS
<1>2. ASSUME NEW x
      PROVE  /\ N(p, "free_rule", x) \in Nat /\ N(cs, "free_rule", x) \in Nat
             /\ N(cs, "free", x) \in Nat
  <2>1. p \in Seq(CallIn(h))
    BY <1>1, PartsIn
  <2> QED
    BY <2>1, NaturalCounts
<1>3. ASSUME NEW x
      PROVE  /\ x = a => /\ N(new, "free_rule", x) = N(p, "free_rule", x) + N(cs, "free_rule", x) - 1
                         /\ N(cs, "free_rule", x) >= 1
                         /\ N(new, "free", x) = N(cs, "free", x) + 1
             /\ x # a => /\ N(new, "free_rule", x) = N(p, "free_rule", x) + N(cs, "free_rule", x)
                         /\ N(new, "free", x) = N(cs, "free", x)
             /\ N(new, "free_style", x) = N(p, "free_style", x) + N(cs, "free_style", x)
             /\ N(new, "free_macro", x) = N(p, "free_macro", x) + N(cs, "free_macro", x)
  BY <1>1, RuleCalls
<1>4. ASSUME NEW x PROVE Times(new, fr, x) = Times(cs, fr, x) + N(p, "free_rule", x)
  <2>1. PICK n \in {0, 1} : n = IF x \in fr THEN 1 ELSE 0
    OBVIOUS
  <2>2. N(new, "free_rule", x) + N(new, "free", x)
          = N(cs, "free_rule", x) + N(cs, "free", x) + N(p, "free_rule", x)
    <3>1. CASE x = a
      <4>1. /\ N(new, "free_rule", x) = N(p, "free_rule", x) + N(cs, "free_rule", x) - 1
            /\ N(new, "free", x) = N(cs, "free", x) + 1
        BY <1>3, <3>1
      <4> QED
        BY <1>2, <4>1
    <3>2. CASE x # a
      <4>1. /\ N(new, "free_rule", x) = N(p, "free_rule", x) + N(cs, "free_rule", x)
            /\ N(new, "free", x) = N(cs, "free", x)
        BY <1>3, <3>2
      <4> QED
        BY <1>2, <4>1
    <3> QED
      BY <3>1, <3>2
  <2>3. /\ Times(new, fr, x) = N(new, "free_rule", x) + N(new, "free", x) + n
        /\ Times(cs, fr, x) = N(cs, "free_rule", x) + N(cs, "free", x) + n
    BY <2>1 DEF Times
  <2> QED
    BY <1>2, <2>1, <2>2, <2>3
<1>5. ASSUME NEW x PROVE Processed(new, fr, x) <=> Processed(cs, fr, x) \/ x = a
  <2>1. CASE x = a
    <3>1. N(new, "free", x) > 0
      BY <1>2, <1>3, <2>1
    <3> QED
      BY <2>1, <3>1 DEF Processed
  <2>2. CASE x # a
    <3>1. N(new, "free", x) = N(cs, "free", x)
      BY <1>3, <2>2
    <3> QED
      BY <2>2, <3>1 DEF Processed
  <2> QED
    BY <2>1, <2>2
<1>6. ~Processed(cs, fr, a)
  <2>1. Times(cs, fr, a) <= 1 /\ N(cs, "free_rule", a) >= 1
    BY <1>3 DEF Freeing, OnceEach
  <2> QED
    BY <2>1, NaturalTimes
<1>7. ASSUME NEW x, N(p, "free_rule", x) # 0
      PROVE  /\ N(p, "free_rule", x) = 1 /\ Times(cs, fr, x) = 0
             /\ x \in RulesIn(h) /\ h[a].kind = "multi"
             /\ \A y \in OwnersIn(h, op, rt, x) : y[1] = "heap" /\ y[2] = a
  BY <1>1, <1>6, <1>7, PartsFresh DEF Freeing
<1>8. OnceEach(h, new, fr)
  <2> SUFFICES ASSUME NEW r \in Addresses(h) PROVE Times(new, fr, r) <= 1
    BY DEF OnceEach
  <2>1. Times(cs, fr, r) <= 1 /\ Times(cs, fr, r) \in Nat
    BY NaturalTimes DEF Freeing, OnceEach
  <2>2. N(p, "free_rule", r) # 0 => N(p, "free_rule", r) = 1 /\ Times(cs, fr, r) = 0
    BY <1>7
  <2> QED
    BY <1>2, <1>4, <2>1, <2>2
<1>9. FromOwner(h, op, rt, new, fr)
  <2> SUFFICES ASSUME NEW r \in RulesIn(h), Times(new, fr, r) > 0, NEW x \in OwnersIn(h, op, rt, r)
               PROVE  Gone(h, new, fr, x)
    BY DEF FromOwner
  <2>1. CASE N(p, "free_rule", r) = 0
    <3>1. Times(cs, fr, r) > 0
      <4>1. Times(cs, fr, r) \in Nat
        BY NaturalTimes
      <4> QED
        BY <1>4, <2>1, <4>1
    <3>2. Gone(h, cs, fr, x)
      BY <3>1 DEF Freeing, FromOwner
    <3> QED
      BY <1>5, <3>2 DEF Gone
  <2>2. CASE N(p, "free_rule", r) # 0
    <3>1. x[1] = "heap" /\ x[2] = a /\ h[a].kind = "multi"
      BY <1>7, <2>2
    <3>2. Processed(new, fr, a)
      BY <1>5
    <3> QED
      BY <3>1, <3>2 DEF Gone
  <2> QED
    BY <2>1, <2>2
<1>10. ASSUME NEW s
       PROVE  /\ Cardinality(Unspent(h, new, fr, s)) <= Cardinality(Unspent(h, cs, fr, s))
              /\ a \in Unspent(h, cs, fr, s) =>
                   Cardinality(Unspent(h, new, fr, s)) = Cardinality(Unspent(h, cs, fr, s)) - 1
              /\ Cardinality(Unspent(h, new, fr, s)) \in Nat
              /\ Cardinality(Unspent(h, cs, fr, s)) \in Nat
  <2>1. ComesBy(cs, new, fr, a)
    BY <1>5 DEF ComesBy
  <2>2. /\ Cardinality(Unspent(h, new, fr, s)) <= Cardinality(Unspent(h, cs, fr, s))
        /\ a \in Unspent(h, cs, fr, s) =>
             Cardinality(Unspent(h, new, fr, s)) = Cardinality(Unspent(h, cs, fr, s)) - 1
    BY <2>1, UnspentLess
  <2> QED
    BY <2>2, FiniteUnspent
<1>11. ASSUME NEW x
       PROVE  /\ h[a].kind # "style_rule" => N(p, "free_style", x) = 0
              /\ h[a].kind = "style_rule" /\ h[a].style # x => N(p, "free_style", x) = 0
              /\ h[a].kind # "macro_rule" => N(p, "free_macro", x) = 0
              /\ h[a].kind = "macro_rule" /\ h[a].macro # x => N(p, "free_macro", x) = 0
  BY <1>1, PartCounts
<1>12. StylesKept(h, new, fr)
  <2> SUFFICES ASSUME NEW s \in OfKind(h, "style")
               PROVE  /\ h[s].refs >= N(new, "free_style", s) + Cardinality(Unspent(h, new, fr, s))
                      /\ Times(new, fr, s) > 0 => h[s].refs <= 0
    BY DEF StylesKept
  <2>1. /\ h[s].refs >= N(cs, "free_style", s) + Cardinality(Unspent(h, cs, fr, s))
        /\ Times(cs, fr, s) > 0 => h[s].refs <= 0
    BY DEF Freeing, StylesKept
  <2>2. h[s].refs \in Int /\ N(cs, "free_style", s) \in Nat
    <3>1. h \in Seq(Object) /\ s \in 1..Len(h) /\ h[s].kind = "style"
      BY DEF Sound, OfKind, Addresses
    <3>2. h[s] \in Object
      BY <3>1, ElementOfSeq
    <3> QED
      BY <3>1, <3>2, ObjectParts, NaturalCounts
  <2>3. CASE h[a].kind = "style_rule" /\ h[a].style = s
    <3>1. N(p, "free_style", s) = 1
      BY <1>1, <2>3, PartCounts
    <3>2. a \in Unspent(h, cs, fr, s)
      BY <1>6, <2>3 DEF Unspent, UsersIn, NamersIn, OfKind, Leads
    <3> QED
      <4>1. h[s].refs >= N(new, "free_style", s) + Cardinality(Unspent(h, new, fr, s))
        BY <1>3, <1>10, <2>1, <2>2, <3>1, <3>2
      <4>2. N(p, "free_rule", s) = 0
        BY <1>7, <2>3
      <4>3. Times(new, fr, s) = Times(cs, fr, s)
        BY <1>4, <4>2, NaturalTimes
      <4> QED
        BY <2>1, <4>1, <4>3
  <2>4. CASE h[a].kind # "style_rule" \/ h[a].style # s
    <3>1. N(p, "free_style", s) = 0
      BY <1>11, <2>4
    <3>2. s \notin RulesIn(h)
      BY DEF OfKind, RulesIn, IsRule
    <3>3. N(p, "free_rule", s) = 0
      BY <1>7, <3>2
    <3>4. Times(new, fr, s) = Times(cs, fr, s)
      BY <1>4, <3>3, NaturalTimes
    <3>5. h[s].refs >= N(new, "free_style", s) + Cardinality(Unspent(h, new, fr, s))
      BY <1>3, <1>10, <2>1, <2>2, <3>1
    <3> QED
      BY <2>1, <3>4, <3>5
  <2> QED
    BY <2>3, <2>4
<1>13. MacrosKept(h, new, fr)
  <2> SUFFICES ASSUME NEW m \in OfKind(h, "macro")
               PROVE  h[m].refs >= 1 + N(new, "free_macro", m) + Cardinality(Unspent(h, new, fr, m))
    BY DEF MacrosKept
  <2>1. h[m].refs >= 1 + N(cs, "free_macro", m) + Cardinality(Unspent(h, cs, fr, m))
    BY DEF Freeing, MacrosKept
  <2>2. h[m].refs \in Int /\ N(cs, "free_macro", m) \in Nat
    <3>1. h \in Seq(Object) /\ m \in 1..Len(h) /\ h[m].kind = "macro"
      BY DEF Sound, OfKind, Addresses
    <3>2. h[m] \in Object
      BY <3>1, ElementOfSeq
    <3> QED
      BY <3>1, <3>2, ObjectParts, NaturalCounts
  <2>3. CASE h[a].kind = "macro_rule" /\ h[a].macro = m
    <3>1. N(p, "free_macro", m) = 1
      BY <1>1, <2>3, PartCounts
    <3>2. a \in Unspent(h, cs, fr, m)
      BY <1>6, <2>3 DEF Unspent, UsersIn, NamersIn, OfKind, Leads
    <3> QED
      BY <1>3, <1>10, <2>1, <2>2, <3>1, <3>2
  <2>4. CASE h[a].kind # "macro_rule" \/ h[a].macro # m
    <3>1. N(p, "free_macro", m) = 0
      BY <1>11, <2>4
    <3> QED
      BY <1>3, <1>10, <2>1, <2>2, <3>1
  <2> QED
    BY <2>3, <2>4
<1> QED
  BY <1>8, <1>9, <1>12, <1>13 DEF Freeing

(* One is taken off the count of a style or a macro: all else is as it was.  *)
Besides(cs, cs2, fr, a) ==
    \A x : x # a => /\ Times(cs2, fr, x) = Times(cs, fr, x)
                    /\ Processed(cs2, fr, x) <=> Processed(cs, fr, x)
                    /\ N(cs2, "free_style", x) = N(cs, "free_style", x)
                    /\ N(cs2, "free_macro", x) = N(cs, "free_macro", x)

LEMMA OffFreeing ==
    ASSUME NEW h, Sound(h), NEW a \in OfKind(h, "style") \cup OfKind(h, "macro"), NEW n \in Int,
           NEW g, Recounts(h, a, n, g), NEW op, NEW rt, NEW cs, NEW fr, NEW new,
           Freeing(h, op, rt, cs, fr), Besides(cs, new, fr, a), Times(new, fr, a) <= 1,
           h[a].kind = "style" =>
                /\ n >= N(new, "free_style", a) + Cardinality(Unspent(h, cs, fr, a))
                /\ Times(new, fr, a) > 0 => n <= 0,
           h[a].kind = "macro" =>
                n >= 1 + N(new, "free_macro", a) + Cardinality(Unspent(h, cs, fr, a))
    PROVE  Freeing(g, op, rt, new, fr)
<1>1. /\ Len(g) = Len(h) /\ g[a].refs = n
      /\ \A b \in Addresses(h) : /\ g[b].kind = h[b].kind /\ Leads(g[b]) = Leads(h[b])
                                 /\ b # a => g[b] = h[b]
  BY RecountParts
<1>2. RulesIn(g) = RulesIn(h) /\ \A r : OwnersIn(g, op, rt, r) = OwnersIn(h, op, rt, r)
  BY RecountOwners
<1>3. Addresses(g) = Addresses(h) /\ \A k : OfKind(g, k) = OfKind(h, k)
  BY <1>1 DEF Addresses, OfKind
<1>4. a \in Addresses(h) /\ h[a].kind \in {"style", "macro"}
  BY DEF OfKind
<1>5. \A x : UsersIn(g, x) = UsersIn(h, x)
  BY <1>1, <1>3 DEF UsersIn, NamersIn, OfKind
<1>6. ASSUME NEW x PROVE Unspent(g, new, fr, x) = Unspent(h, cs, fr, x)
  <2>1. a \notin UsersIn(h, x)
    BY <1>4 DEF UsersIn, NamersIn, OfKind
  <2> QED
    BY <1>5, <2>1 DEF Unspent, Besides
<1>7. OnceEach(g, new, fr)
  BY <1>3 DEF OnceEach, Freeing, Besides
<1>8. FromOwner(g, op, rt, new, fr)
  <2> SUFFICES ASSUME NEW r \in RulesIn(h), Times(new, fr, r) > 0, NEW x \in OwnersIn(h, op, rt, r)
               PROVE  Gone(g, new, fr, x)
    BY <1>2 DEF FromOwner
  <2>1. r # a
    BY <1>4 DEF RulesIn, IsRule
  <2>2. Times(cs, fr, r) > 0
    BY <2>1 DEF Besides
  <2>3. Gone(h, cs, fr, x)
    BY <2>2 DEF Freeing, FromOwner
  <2>4. CASE x[1] = "root"
    BY <2>4 DEF Gone
  <2>5. CASE x[1] = "heap" /\ h[x[2]].kind = "multi" /\ Processed(cs, fr, x[2])
    <3>1. x[2] \in Addresses(h)
      BY <2>5, OwnerKinds DEF OwnersIn
    <3>2. x[2] # a
      BY <1>4, <2>5
    <3>3. g[x[2]].kind = "multi"
      BY <1>1, <2>5, <3>1
    <3>4. Processed(new, fr, x[2])
      BY <2>5, <3>2 DEF Besides
    <3> QED
      BY <2>5, <3>3, <3>4 DEF Gone
  <2> QED
    BY <2>3, <2>4, <2>5 DEF Gone
<1>9. StylesKept(g, new, fr)
  <2> SUFFICES ASSUME NEW s \in OfKind(h, "style")
               PROVE  /\ g[s].refs >= N(new, "free_style", s) + Cardinality(Unspent(h, cs, fr, s))
                      /\ Times(new, fr, s) > 0 => g[s].refs <= 0
    BY <1>3, <1>6 DEF StylesKept
  <2>1. CASE s = a
    BY <1>1, <2>1 DEF OfKind
  <2>2. CASE s # a
    <3>1. g[s] = h[s]
      BY <1>1, <2>2 DEF OfKind
    <3>2. /\ h[s].refs >= N(cs, "free_style", s) + Cardinality(Unspent(h, cs, fr, s))
          /\ Times(cs, fr, s) > 0 => h[s].refs <= 0
      BY DEF Freeing, StylesKept
    <3> QED
      BY <2>2, <3>1, <3>2 DEF Besides
  <2> QED
    BY <2>1, <2>2
<1>10. MacrosKept(g, new, fr)
  <2> SUFFICES ASSUME NEW m \in OfKind(h, "macro")
               PROVE  g[m].refs >= 1 + N(new, "free_macro", m) + Cardinality(Unspent(h, cs, fr, m))
    BY <1>3, <1>6 DEF MacrosKept
  <2>1. CASE m = a
    BY <1>1, <2>1 DEF OfKind
  <2>2. CASE m # a
    <3>1. g[m] = h[m]
      BY <1>1, <2>2 DEF OfKind
    <3>2. h[m].refs >= 1 + N(cs, "free_macro", m) + Cardinality(Unspent(h, cs, fr, m))
      BY DEF Freeing, MacrosKept
    <3> QED
      BY <2>2, <3>1, <3>2 DEF Besides
  <2> QED
    BY <2>1, <2>2
<1> QED
  BY <1>7, <1>8, <1>9, <1>10 DEF Freeing

(* The count of what is named.                                               *)
LEMMA RefsInt ==
    ASSUME NEW h, Sound(h), NEW a \in OfKind(h, "style") \cup OfKind(h, "macro")
    PROVE  /\ h[a].refs \in Int /\ a \in Addresses(h)
           /\ a \in OfKind(h, "style") => h[a].kind = "style"
           /\ a \in OfKind(h, "macro") => h[a].kind = "macro"
<1>1. h \in Seq(Object) /\ a \in 1..Len(h) /\ h[a].kind \in {"style", "macro"}
  BY DEF Sound, OfKind, Addresses
<1>2. h[a] \in Object
  BY <1>1, ElementOfSeq
<1> QED
  BY <1>1, <1>2, ObjectParts DEF OfKind

(* A style is given back once for its name and once for every rule that      *)
(* names it, and its memory is freed by the last of them.                    *)
LEMMA StyleFreeing ==
    ASSUME NEW h, Sound(h), Len(h) \in Nat, NEW s \in OfKind(h, "style"),
           NEW g, Recounts(h, s, h[s].refs - 1, g), NEW op, NEW rt,
           NEW cs \in Seq(CallIn(h)), cs # <<>>, NEW fr, Freeing(h, op, rt, cs, fr),
           Head(cs).fn = "free_style", Head(cs).of = s,
           NEW more, more = IF h[s].refs - 1 <= 0 THEN <<Call("free", s)>> ELSE <<>>,
           NEW new, Returned(cs, more, new)
    PROVE  Freeing(g, op, rt, new, fr)
<1>1. h[s].refs \in Int /\ s \in Addresses(h) /\ h[s].kind = "style"
  BY RefsInt
<1>2. PICK n \in Int : n = h[s].refs - 1
  BY <1>1
<1>3. more \in Seq(CallIn(h))
  <2>1. Call("free", s) \in CallIn(h)
    BY <1>1, CallAllowed DEF Sound
  <2> QED
    BY <2>1, OneCall, EmptySeq
<1>4. ASSUME NEW fn, NEW x
      PROVE  /\ fn = "free_style" /\ x = s =>
                   N(new, fn, x) = N(more, fn, x) + N(cs, fn, x) - 1 /\ N(cs, fn, x) >= 1
             /\ fn # "free_style" \/ x # s => N(new, fn, x) = N(more, fn, x) + N(cs, fn, x)
  <2>1. PICK asked : asked = more
    OBVIOUS
  <2>2. Returned(cs, asked, new) /\ asked \in Seq(CallIn(h))
    BY <1>3, <2>1
  <2>3. /\ fn = "free_style" /\ x = s =>
             N(new, fn, x) = N(asked, fn, x) + N(cs, fn, x) - 1 /\ N(cs, fn, x) >= 1
        /\ fn # "free_style" \/ x # s => N(new, fn, x) = N(asked, fn, x) + N(cs, fn, x)
    BY <2>2, CallReturns
  <2> QED
    BY <2>1, <2>3
<1>5. ASSUME NEW fn, NEW x
      PROVE  /\ fn = "free" /\ x = s /\ n <= 0 => N(more, fn, x) = 1
             /\ fn # "free" \/ x # s \/ ~(n <= 0) => N(more, fn, x) = 0
  <2>1. CASE n <= 0
    <3>1. more = <<Call("free", s)>>
      BY <1>2, <2>1
    <3> QED
      BY <2>1, <3>1, OneMoreCall
  <2>2. CASE ~(n <= 0)
    <3>1. more = <<>>
      BY <1>2, <2>2
    <3> QED
      BY <2>2, <3>1, NoMoreCalls
  <2> QED
    BY <2>1, <2>2
<1>6. \A fn, x : N(cs, fn, x) \in Nat
  BY NaturalCounts
<1>7. Besides(cs, new, fr, s)
  <2> SUFFICES ASSUME NEW x, x # s
               PROVE  /\ Times(new, fr, x) = Times(cs, fr, x)
                      /\ Processed(new, fr, x) <=> Processed(cs, fr, x)
                      /\ N(new, "free_style", x) = N(cs, "free_style", x)
                      /\ N(new, "free_macro", x) = N(cs, "free_macro", x)
    BY DEF Besides
  <2>1. ASSUME NEW fn PROVE N(new, fn, x) = N(cs, fn, x)
    <3>1. N(new, fn, x) = N(more, fn, x) + N(cs, fn, x)
      BY <1>4
    <3>2. N(more, fn, x) = 0
      BY <1>5
    <3> QED
      BY <1>6, <3>1, <3>2
  <2> QED
    BY <2>1 DEF Times, Processed
<1>8. PICK u \in Nat : u = Cardinality(Unspent(h, cs, fr, s))
  BY FiniteUnspent
<1>9. n + 1 >= N(cs, "free_style", s) + u /\ (Times(cs, fr, s) > 0 => n + 1 <= 0)
  <2>1. /\ h[s].refs >= N(cs, "free_style", s) + u
        /\ Times(cs, fr, s) > 0 => h[s].refs <= 0
    BY <1>8 DEF Freeing, StylesKept
  <2>2. h[s].refs = n + 1
    BY <1>1, <1>2
  <2> QED
    BY <2>1, <2>2
<1>10. N(new, "free_style", s) = N(cs, "free_style", s) - 1 /\ N(cs, "free_style", s) >= 1
  <2>1. /\ N(new, "free_style", s) = N(more, "free_style", s) + N(cs, "free_style", s) - 1
        /\ N(cs, "free_style", s) >= 1
    BY <1>4
  <2>2. N(more, "free_style", s) = 0
    BY <1>5
  <2> QED
    BY <1>6, <2>1, <2>2
<1>11. Times(cs, fr, s) = 0
  <2>1. ~(Times(cs, fr, s) > 0)
    BY <1>6, <1>9, <1>10
  <2>2. Times(cs, fr, s) \in Nat
    BY NaturalTimes
  <2> QED
    BY <2>1, <2>2
<1>12. N(cs, "free_rule", s) = 0 /\ N(cs, "free", s) = 0 /\ s \notin fr
  BY <1>11, NaturalTimes
<1>13. N(new, "free_rule", s) = 0 /\ N(new, "free", s) = N(more, "free", s)
  <2>1. /\ N(new, "free_rule", s) = N(more, "free_rule", s) + N(cs, "free_rule", s)
        /\ N(new, "free", s) = N(more, "free", s) + N(cs, "free", s)
    BY <1>4
  <2>2. N(more, "free_rule", s) = 0
    BY <1>5
  <2>3. N(more, "free", s) \in Nat
    BY <1>3, NaturalCounts
  <2> QED
    BY <1>12, <2>1, <2>2, <2>3
<1>14. Times(new, fr, s) = N(more, "free", s)
  <2>1. N(more, "free", s) \in Nat
    BY <1>3, NaturalCounts
  <2> QED
    BY <1>12, <1>13, <2>1 DEF Times
<1>15. Times(new, fr, s) <= 1 /\ (Times(new, fr, s) > 0 => n <= 0)
  <2>1. n <= 0 => N(more, "free", s) = 1
    BY <1>5
  <2>2. ~(n <= 0) => N(more, "free", s) = 0
    BY <1>5
  <2> QED
    BY <1>14, <2>1, <2>2
<1>16. n >= N(new, "free_style", s) + Cardinality(Unspent(h, cs, fr, s))
  BY <1>6, <1>8, <1>9, <1>10
<1>17. Recounts(h, s, n, g)
  BY <1>2
<1> QED
  BY <1>1, <1>7, <1>15, <1>16, <1>17, OffFreeing

(* The name of a macro is never given back by free_macro, so that its count  *)
(* never gets to 0.                                                          *)
LEMMA MacroFreeing ==
    ASSUME NEW h, Sound(h), Len(h) \in Nat, NEW m \in OfKind(h, "macro"),
           NEW g, Recounts(h, m, h[m].refs - 1, g), NEW op, NEW rt,
           NEW cs \in Seq(CallIn(h)), cs # <<>>, NEW fr, Freeing(h, op, rt, cs, fr),
           Head(cs).fn = "free_macro", Head(cs).of = m,
           NEW more, h[m].refs - 1 >= 1 => more = <<>>,
           NEW new, Returned(cs, more, new)
    PROVE  Freeing(g, op, rt, new, fr)
<1>1. h[m].refs \in Int /\ m \in Addresses(h) /\ h[m].kind = "macro"
  BY RefsInt
<1>2. PICK n \in Int : n = h[m].refs - 1
  BY <1>1
<1>3. \A fn, x : N(cs, fn, x) \in Nat
  BY NaturalCounts
<1>4. PICK u \in Nat : u = Cardinality(Unspent(h, cs, fr, m))
  BY FiniteUnspent
<1>5. n + 1 >= 1 + N(cs, "free_macro", m) + u
  <2>1. h[m].refs >= 1 + N(cs, "free_macro", m) + u
    BY <1>4 DEF Freeing, MacrosKept
  <2>2. h[m].refs = n + 1
    BY <1>1, <1>2
  <2> QED
    BY <2>1, <2>2
<1>6. N(cs, "free_macro", m) >= 1
  <2>1. Head(cs) = Call("free_macro", m)
    <3>1. Head(cs) \in CallRecord
      BY HeadTailProperties DEF CallIn
    <3> QED
      BY <3>1 DEF CallRecord, Call
  <2>2. <<>> \in Seq(CallIn(h))
    BY EmptySeq
  <2> QED
    BY <2>1, <2>2, CountReturn DEF N
<1>7. more = <<>>
  BY <1>2, <1>3, <1>5, <1>6
<1>8. more \in Seq(CallIn(h))
  BY <1>7, EmptySeq
<1>9. ASSUME NEW fn, NEW x
      PROVE  /\ fn = "free_macro" /\ x = m => N(new, fn, x) = N(cs, fn, x) - 1
             /\ fn # "free_macro" \/ x # m => N(new, fn, x) = N(cs, fn, x)
  <2>1. /\ fn = "free_macro" /\ x = m =>
             N(new, fn, x) = N(more, fn, x) + N(cs, fn, x) - 1 /\ N(cs, fn, x) >= 1
        /\ fn # "free_macro" \/ x # m => N(new, fn, x) = N(more, fn, x) + N(cs, fn, x)
    BY <1>8, CallReturns
  <2>2. N(more, fn, x) = 0
    BY <1>7, NoMoreCalls
  <2> QED
    BY <1>3, <2>1, <2>2
<1>10. Besides(cs, new, fr, m)
  <2> SUFFICES ASSUME NEW x, x # m
               PROVE  /\ Times(new, fr, x) = Times(cs, fr, x)
                      /\ Processed(new, fr, x) <=> Processed(cs, fr, x)
                      /\ N(new, "free_style", x) = N(cs, "free_style", x)
                      /\ N(new, "free_macro", x) = N(cs, "free_macro", x)
    BY DEF Besides
  <2>1. ASSUME NEW fn PROVE N(new, fn, x) = N(cs, fn, x)
    BY <1>9
  <2> QED
    BY <2>1 DEF Times, Processed
<1>11. Times(new, fr, m) <= 1
  <2>1. N(new, "free_rule", m) = N(cs, "free_rule", m) /\ N(new, "free", m) = N(cs, "free", m)
    BY <1>9
  <2>2. Times(new, fr, m) = Times(cs, fr, m)
    BY <2>1 DEF Times
  <2> QED
    BY <1>1, <2>2 DEF Freeing, OnceEach
<1>12. n >= 1 + N(new, "free_macro", m) + Cardinality(Unspent(h, cs, fr, m))
  <2>1. N(new, "free_macro", m) = N(cs, "free_macro", m) - 1
    BY <1>9
  <2> QED
    BY <1>3, <1>4, <1>5, <1>6, <2>1
<1>13. Recounts(h, m, n, g)
  BY <1>2
<1> QED
  BY <1>1, <1>10, <1>11, <1>12, <1>13, OffFreeing

(* A null pointer is no rule.                                                *)
LEMMA NilFreeing ==
    ASSUME NEW h, Sound(h), Len(h) \in Nat, NEW op, NEW rt,
           NEW cs \in Seq(CallIn(h)), cs # <<>>, NEW fr, Freeing(h, op, rt, cs, fr),
           Head(cs).fn = "free_rule", Head(cs).of = NoRule,
           NEW new, Returned(cs, <<>>, new)
    PROVE  Freeing(h, op, rt, new, fr)
<1>1. PICK none : none = <<>>
  OBVIOUS
<1>2. Returned(cs, none, new) /\ none \in Seq(CallIn(h))
  BY <1>1, EmptySeq
<1>3. ASSUME NEW r \in Addresses(h), NEW fn PROVE N(new, fn, r) = N(cs, fn, r)
  <2>1. r # NoRule
    BY DEF Addresses, NoRule
  <2>2. N(new, fn, r) = N(none, fn, r) + N(cs, fn, r)
    BY <1>2, <2>1, CallReturns
  <2>3. N(none, fn, r) = 0 /\ N(cs, fn, r) \in Nat
    BY <1>1, NoMoreCalls, NaturalCounts
  <2> QED
    BY <2>2, <2>3
<1>4. \A r \in Addresses(h) : /\ Times(new, fr, r) = Times(cs, fr, r)
                              /\ Processed(new, fr, r) <=> Processed(cs, fr, r)
                              /\ N(new, "free_style", r) = N(cs, "free_style", r)
                              /\ N(new, "free_macro", r) = N(cs, "free_macro", r)
  BY <1>3 DEF Times, Processed
<1> QED
  BY <1>4, FreeingSame

(* The first calls are for every style and macro, and for the rules of the   *)
(* script.                                                                   *)
LEMMA ListedOnce ==
    ASSUME NEW h, Len(h) \in Nat, NEW k,
           NEW f, f \in [DOMAIN f -> OfKind(h, k)], NEW s \in SetToSeqs(Range(f)), NEW x
    PROVE  Count(s, x) <= 1
<1>1. PICK n : n = Cardinality(Range(f))
  OBVIOUS
<1>2. s \in [1..n -> Range(f)] /\ \A i, j \in 1..n : i # j => s[i] # s[j]
  BY <1>1 DEF SetToSeqs
<1>3. s \in Seq(OfKind(h, k))
  BY TableListed
<1>4. 1..Len(s) = 1..n
  BY <1>2, <1>3, LenProperties
<1>5. \A i, j \in At(s, x) : i = j
  BY <1>2, <1>4 DEF At
<1> QED
  BY <1>5, CountAtMostOne

AllCalls(fn, list, new) == new = Calls(fn, list)

LEMMA CallsCounted ==
    ASSUME NEW S, NEW list \in Seq(S), NEW fn, NEW new, AllCalls(fn, list, new),
           NEW other, NEW x
    PROVE  /\ other = fn => N(new, other, x) = Count(list, x)
           /\ other # fn => N(new, other, x) = 0
<1>1. /\ other = fn => Count(Calls(fn, list), Call(other, x)) = Count(list, x)
      /\ other # fn => Count(Calls(fn, list), Call(other, x)) = 0
  BY CountCalls
<1> QED
  BY <1>1 DEF AllCalls, N

Starts(X, Y, Z, new) == new = X \o Y \o Z

LEMMA StartCounts ==
    ASSUME NEW S, NEW ss \in Seq(S), NEW ms \in Seq(S), NEW rt \in Seq(S), NEW C,
           NEW X \in Seq(C), AllCalls("free_style", ss, X),
           NEW Y \in Seq(C), AllCalls("free_rule", ms, Y),
           NEW Z \in Seq(C), AllCalls("free_rule", rt, Z),
           NEW new, Starts(X, Y, Z, new), NEW x
    PROVE  /\ N(new, "free_style", x) = Count(ss, x)
           /\ N(new, "free_rule", x) = Count(ms, x) + Count(rt, x)
           /\ N(new, "free", x) = 0 /\ N(new, "free_macro", x) = 0
<1>4. PICK W \in Seq(C) : W = X \o Y
  BY ConcatProperties
<1>5. new = W \o Z
  BY <1>4 DEF Starts
<1>6. ASSUME NEW fn PROVE N(new, fn, x) = N(X, fn, x) + N(Y, fn, x) + N(Z, fn, x)
  <2>1. N(new, fn, x) = N(W, fn, x) + N(Z, fn, x)
    BY <1>5, CountConcat DEF N
  <2>2. N(W, fn, x) = N(X, fn, x) + N(Y, fn, x)
    BY <1>4, CountConcat DEF N
  <2> QED
    BY <2>1, <2>2
<1>7. /\ N(X, "free_style", x) = Count(ss, x)
      /\ \A fn : fn # "free_style" => N(X, fn, x) = 0
  BY CallsCounted
<1>8. /\ N(Y, "free_rule", x) = Count(ms, x)
      /\ \A fn : fn # "free_rule" => N(Y, fn, x) = 0
  BY CallsCounted
<1>9. /\ N(Z, "free_rule", x) = Count(rt, x)
      /\ \A fn : fn # "free_rule" => N(Z, fn, x) = 0
  BY CallsCounted
<1>10. Count(ss, x) \in Nat /\ Count(ms, x) \in Nat /\ Count(rt, x) \in Nat
  BY CountIsNat
<1>11. /\ N(X, "free_rule", x) = 0 /\ N(X, "free", x) = 0 /\ N(X, "free_macro", x) = 0
       /\ N(Y, "free_style", x) = 0 /\ N(Y, "free", x) = 0 /\ N(Y, "free_macro", x) = 0
       /\ N(Z, "free_style", x) = 0 /\ N(Z, "free", x) = 0 /\ N(Z, "free_macro", x) = 0
  BY <1>7, <1>8, <1>9
<1>12. /\ N(new, "free_style", x) = N(X, "free_style", x) + N(Y, "free_style", x) + N(Z, "free_style", x)
       /\ N(new, "free_rule", x) = N(X, "free_rule", x) + N(Y, "free_rule", x) + N(Z, "free_rule", x)
       /\ N(new, "free", x) = N(X, "free", x) + N(Y, "free", x) + N(Z, "free", x)
       /\ N(new, "free_macro", x) = N(X, "free_macro", x) + N(Y, "free_macro", x) + N(Z, "free_macro", x)
  BY <1>6
<1> QED
  BY <1>7, <1>8, <1>9, <1>10, <1>11, <1>12

(* What stands in a list is of its kind.                                     *)
LEMMA CountOutside ==
    ASSUME NEW S, NEW s \in Seq(S), NEW x, x \notin S
    PROVE  Count(s, x) = 0
<1>1. \A j \in 1..Len(s) : s[j] \in S
  BY ElementOfSeq
<1>2. At(s, x) = {}
  BY <1>1 DEF At
<1> QED
  BY <1>2, CountNone

LEMMA RootsOnce ==
    ASSUME NEW h, NEW op, NEW rt, OwnedOnce(h, op, rt), NEW r \in RulesIn(h)
    PROVE  /\ Count(rt, r) <= 1
           /\ At(rt, r) # {} => \A x \in OwnersIn(h, op, rt, r) : x[1] = "root"
<1>1. PICK only : OwnersIn(h, op, rt, r) = {only}
  BY DEF OwnedOnce, Sole
<1>2. \A j \in At(rt, r) : <<"root", 0, j>> = only
  BY <1>1 DEF OwnersIn, RootOwn, Slots
<1>3. \A i, j \in At(rt, r) : i = j
  BY <1>2
<1> QED
  BY <1>1, <1>2, <1>3, CountAtMostOne

StartedWith(ss, ms, rt, new) ==
    \A x : /\ Count(ss, x) <= 1 /\ Count(ms, x) <= 1
           /\ N(new, "free_style", x) = Count(ss, x)
           /\ N(new, "free_rule", x) = Count(ms, x) + Count(rt, x)
           /\ N(new, "free", x) = 0 /\ N(new, "free_macro", x) = 0

LEMMA StartFreeing ==
    ASSUME NEW h, Sound(h), Len(h) \in Nat, NEW op, NEW rt \in Seq(RulesOrNil(h)),
           OwnedOnce(h, op, rt), Counted(h),
           NEW ss \in Seq(OfKind(h, "style")), NEW ms \in Seq(OfKind(h, "macro")),
           NEW new \in Seq(CallIn(h)), StartedWith(ss, ms, rt, new)
    PROVE  Freeing(h, op, rt, new, {})
<1>1. \A x : Times(new, {}, x) = Count(ms, x) + Count(rt, x)
  <2> SUFFICES ASSUME NEW x PROVE Times(new, {}, x) = Count(ms, x) + Count(rt, x)
    OBVIOUS
  <2>1. Count(ms, x) \in Nat /\ Count(rt, x) \in Nat
    BY CountIsNat
  <2>2. N(new, "free_rule", x) = Count(ms, x) + Count(rt, x) /\ N(new, "free", x) = 0
    BY DEF StartedWith
  <2>3. Times(new, {}, x) = N(new, "free_rule", x) + N(new, "free", x) + 0
    BY DEF Times
  <2> QED
    BY <2>1, <2>2, <2>3
<1>2. ASSUME NEW r \in RulesIn(h) PROVE Times(new, {}, r) = Count(rt, r)
  <2>1. r \notin OfKind(h, "macro")
    BY DEF RulesIn, OfKind, IsRule
  <2>2. Count(ms, r) = 0
    BY <2>1, CountOutside
  <2>3. Count(rt, r) \in Nat
    BY CountIsNat
  <2> QED
    BY <1>1, <2>2, <2>3
<1>3. ASSUME NEW r, r \notin RulesOrNil(h) PROVE Times(new, {}, r) = Count(ms, r)
  <2>1. Count(rt, r) = 0
    BY <1>3, CountOutside
  <2>2. Count(ms, r) \in Nat
    BY CountIsNat
  <2> QED
    BY <1>1, <2>1, <2>2
<1>4. OnceEach(h, new, {})
  <2> SUFFICES ASSUME NEW r \in Addresses(h) PROVE Times(new, {}, r) <= 1
    BY DEF OnceEach
  <2>1. CASE r \in RulesIn(h)
    BY <1>2, <2>1, RootsOnce
  <2>2. CASE r \notin RulesIn(h)
    <3>1. r \notin RulesOrNil(h)
      BY <2>2 DEF RulesOrNil, Addresses, NoRule
    <3>2. Count(ms, r) <= 1
      BY DEF StartedWith
    <3> QED
      BY <1>3, <3>1, <3>2
  <2> QED
    BY <2>1, <2>2
<1>5. FromOwner(h, op, rt, new, {})
  <2> SUFFICES ASSUME NEW r \in RulesIn(h), Times(new, {}, r) > 0, NEW x \in OwnersIn(h, op, rt, r)
               PROVE  x[1] = "root"
    BY DEF FromOwner, Gone
  <2>1. Count(rt, r) # 0
    BY <1>2
  <2>2. At(rt, r) # {}
    BY <2>1, CountNone
  <2> QED
    BY <2>2, RootsOnce
<1>6. ASSUME NEW a \in OfKind(h, "style") \cup OfKind(h, "macro")
      PROVE  /\ h[a].refs = 1 + Cardinality(UsersIn(h, a)) /\ h[a].refs \in Int
             /\ Cardinality(Unspent(h, new, {}, a)) <= Cardinality(UsersIn(h, a))
             /\ Cardinality(Unspent(h, new, {}, a)) \in Nat /\ Cardinality(UsersIn(h, a)) \in Nat
  <2>1. h[a].refs = 1 + Cardinality(UsersIn(h, a))
    BY DEF Counted, Named
  <2>2. IsFiniteSet(UsersIn(h, a)) /\ Cardinality(UsersIn(h, a)) \in Nat
    BY FiniteUsers
  <2>3. Unspent(h, new, {}, a) \subseteq UsersIn(h, a)
    BY DEF Unspent
  <2>4. Cardinality(Unspent(h, new, {}, a)) <= Cardinality(UsersIn(h, a))
    BY <2>2, <2>3, FS_Subset
  <2>5. Cardinality(Unspent(h, new, {}, a)) \in Nat
    BY FiniteUnspent
  <2> QED
    BY <2>1, <2>2, <2>4, <2>5
<1>7. StylesKept(h, new, {})
  <2> SUFFICES ASSUME NEW s \in OfKind(h, "style")
               PROVE  /\ h[s].refs >= N(new, "free_style", s) + Cardinality(Unspent(h, new, {}, s))
                      /\ Times(new, {}, s) > 0 => h[s].refs <= 0
    BY DEF StylesKept
  <2>1. s \notin OfKind(h, "macro") /\ s \notin RulesOrNil(h)
    BY DEF OfKind, RulesOrNil, RulesIn, IsRule, Addresses, NoRule
  <2>2. Count(ms, s) = 0
    BY <2>1, CountOutside
  <2>3. Times(new, {}, s) = 0
    BY <1>3, <2>1, <2>2
  <2>4. Count(ss, s) \in Nat /\ Count(ss, s) <= 1 /\ N(new, "free_style", s) = Count(ss, s)
    BY CountIsNat DEF StartedWith
  <2>5. h[s].refs >= N(new, "free_style", s) + Cardinality(Unspent(h, new, {}, s))
    BY <1>6, <2>4
  <2> QED
    BY <2>3, <2>5
<1>8. MacrosKept(h, new, {})
  <2> SUFFICES ASSUME NEW m \in OfKind(h, "macro")
               PROVE  h[m].refs >= 1 + N(new, "free_macro", m) + Cardinality(Unspent(h, new, {}, m))
    BY DEF MacrosKept
  <2>1. N(new, "free_macro", m) = 0
    BY DEF StartedWith
  <2> QED
    BY <1>6, <2>1
<1> QED
  BY <1>4, <1>5, <1>7, <1>8 DEF Freeing

-----------------------------------------------------------------------------
Freed == phase \in {"free", "done"} => Freeing(heap, open, roots, calls, freed)

(* The inductive invariant with what the owners and the counts need.         *)
Whole == IInv /\ Parsed /\ Freed

LEMMA RecountedOne ==
    ASSUME NEW h, Sound(h), NEW n \in Int, NEW a \in OfKind(h, "style") \cup OfKind(h, "macro"),
           NEW g, Recounts(h, a, n, g)
    PROVE  g[a].refs = n
<1>1. h \in Seq(Object) /\ a \in 1..Len(h) /\ h[a].kind \in {"style", "macro"}
  BY DEF Sound, OfKind, Addresses
<1>2. h[a] \in Object
  BY <1>1, ElementOfSeq
<1>3. PICK e : e = [h[a] EXCEPT !.refs = n]
  OBVIOUS
<1>4. e \in Object
  BY <1>1, <1>2, <1>3, Recounted
<1>5. e.refs = n
  <2>1. CASE h[a].kind = "style"
    <3>1. h[a] \in [kind : {"style"}, refs : Int]
      BY <1>2, <2>1 DEF Object
    <3> QED
      BY <1>3, <3>1
  <2>2. CASE h[a].kind = "macro"
    <3>1. h[a] \in [kind : {"macro"}, refs : Int, rule : Nat]
      BY <1>2, <2>2 DEF Object
    <3> QED
      BY <1>3, <3>1
  <2> QED
    BY <1>1, <2>1, <2>2
<1>6. g = [h EXCEPT ![a] = e]
  BY <1>3 DEF Recounts
<1>7. g[a] = e
  BY <1>1, <1>4, <1>6, ExceptSeq
<1> QED
  BY <1>5, <1>7

LEMMA StyleCalled ==
    ASSUME IInv, free_style
    PROVE  /\ phase = "free" /\ calls # <<>> /\ calls \in Seq(CallIn(heap))
           /\ Head(calls).fn = "free_style" /\ arg \in OfKind(heap, "style")
           /\ Recounts(heap, arg, heap[arg].refs - 1, heap')
           /\ heap'[arg].refs = heap[arg].refs - 1
           /\ heap[arg].refs \in Int /\ Sound(heap) /\ Len(heap) \in Nat
           /\ UNCHANGED <<freed, styles, macros, roots, open, phase>>
<1>1. /\ phase = "free" /\ calls # <<>> /\ calls \in Seq(CallIn(heap))
      /\ Head(calls).fn = "free_style" /\ Sound(heap) /\ Len(heap) \in Nat
      /\ UNCHANGED <<freed, styles, macros, roots, open, phase>>
  BY DEF free_style, Calling, IInv, Sound
<1>2. Head(calls) \in CallIn(heap)
  BY <1>1, HeadIn
<1>3. arg \in OfKind(heap, "style")
  BY <1>1, <1>2 DEF CallIn, TakesIn, arg
<1>4. heap[arg].refs \in Int
  BY <1>1, <1>3, RefsInt
<1>5. Recounts(heap, arg, heap[arg].refs - 1, heap')
  BY DEF free_style, Recounts
<1>6. heap'[arg].refs = heap[arg].refs - 1
  <2>1. PICK n : n = heap[arg].refs - 1
    OBVIOUS
  <2>2. PICK a : a = arg
    OBVIOUS
  <2>3. PICK g : g = heap'
    OBVIOUS
  <2>4. /\ a \in OfKind(heap, "style") \cup OfKind(heap, "macro")
        /\ Recounts(heap, a, n, g) /\ Sound(heap) /\ n \in Int
    BY <1>1, <1>3, <1>4, <1>5, <2>1, <2>2, <2>3
  <2>5. g[a].refs = n
    BY <2>4, RecountedOne
  <2> QED
    BY <2>1, <2>2, <2>3, <2>5
<1> QED
  BY <1>1, <1>3, <1>4, <1>5, <1>6

LEMMA MacroCalled ==
    ASSUME IInv, free_macro
    PROVE  /\ phase = "free" /\ calls # <<>> /\ calls \in Seq(CallIn(heap))
           /\ Head(calls).fn = "free_macro" /\ arg \in OfKind(heap, "macro")
           /\ Recounts(heap, arg, heap[arg].refs - 1, heap')
           /\ heap'[arg].refs = heap[arg].refs - 1
           /\ heap[arg].refs \in Int /\ Sound(heap) /\ Len(heap) \in Nat
           /\ UNCHANGED <<freed, styles, macros, roots, open, phase>>
<1>1. /\ phase = "free" /\ calls # <<>> /\ calls \in Seq(CallIn(heap))
      /\ Head(calls).fn = "free_macro" /\ Sound(heap) /\ Len(heap) \in Nat
      /\ UNCHANGED <<freed, styles, macros, roots, open, phase>>
  BY DEF free_macro, Calling, IInv, Sound
<1>2. Head(calls) \in CallIn(heap)
  BY <1>1, HeadIn
<1>3. arg \in OfKind(heap, "macro")
  BY <1>1, <1>2 DEF CallIn, TakesIn, arg
<1>4. heap[arg].refs \in Int
  BY <1>1, <1>3, RefsInt
<1>5. Recounts(heap, arg, heap[arg].refs - 1, heap')
  BY DEF free_macro, Recounts
<1>6. heap'[arg].refs = heap[arg].refs - 1
  <2>1. PICK n : n = heap[arg].refs - 1
    OBVIOUS
  <2>2. PICK a : a = arg
    OBVIOUS
  <2>3. PICK g : g = heap'
    OBVIOUS
  <2>4. /\ a \in OfKind(heap, "style") \cup OfKind(heap, "macro")
        /\ Recounts(heap, a, n, g) /\ Sound(heap) /\ n \in Int
    BY <1>1, <1>3, <1>4, <1>5, <2>1, <2>2, <2>3
  <2>5. g[a].refs = n
    BY <2>4, RecountedOne
  <2> QED
    BY <2>1, <2>2, <2>3, <2>5
<1> QED
  BY <1>1, <1>3, <1>4, <1>5, <1>6

(* Giving back moves no rule.                                                *)
LEMMA TeardownParsed ==
    ASSUME IInv, Parsed, Teardown
    PROVE  Parsed'
<1>1. CASE free_script \/ free_rule \/ free \/ Done
  <2>1. heap' = heap /\ open' = open /\ roots' = roots /\ phase' \in {"free", "done"}
    BY <1>1 DEF free_script, free_rule, free, Done, Calling, roots
  <2> QED
    BY <2>1 DEF Parsed, Reading, Untouched, Known
<1>2. CASE free_style \/ free_macro
  <2>1. PICK a : a = arg
    OBVIOUS
  <2>2. PICK n : n = heap[a].refs - 1
    OBVIOUS
  <2>3. /\ a \in OfKind(heap, "style") \cup OfKind(heap, "macro") /\ n \in Int
        /\ Recounts(heap, a, n, heap')
        /\ Sound(heap) /\ open' = open /\ roots' = roots /\ phase' = "free"
    <3>1. CASE free_style
      BY <3>1, <2>1, <2>2, StyleCalled
    <3>2. CASE free_macro
      BY <3>2, <2>1, <2>2, MacroCalled
    <3> QED
      BY <1>2, <3>1, <3>2
  <2>4. OwnedOnce(heap', open, roots)
    BY <2>3, RecountOwners DEF Parsed
  <2> QED
    BY <2>3, <2>4 DEF Parsed, Reading, Untouched, Known
<1> QED
  BY <1>1, <1>2 DEF Teardown

LEMMA FreeScriptFreed ==
    ASSUME IInv, Parsed, free_script
    PROVE  Freed'
<1>1. /\ phase = "run" /\ freed = {} /\ Counted(heap) /\ OwnedOnce(heap, open, roots)
      /\ Sound(heap) /\ Len(heap) \in Nat
      /\ UNCHANGED <<heap, freed, styles, macros, roots, open>>
  BY DEF free_script, Parsed, Untouched, Known, IInv, Sound
<1>2. PICK ss \in SetToSeqs(Range(styles)), ms \in SetToSeqs(Range(macros)) :
        calls' = Calls("free_style", ss) \o Calls("free_rule", ms)
                   \o Calls("free_rule", roots)
  BY DEF free_script
<1>3. /\ ss \in Seq(OfKind(heap, "style")) /\ ms \in Seq(OfKind(heap, "macro"))
      /\ \A x : Count(ss, x) <= 1 /\ Count(ms, x) <= 1
  BY <1>1, TableListed, ListedOnce DEF IInv
<1>4. roots \in Seq(RulesOrNil(heap))
  BY StateHolds DEF Holds
<1>5. PICK C : C = CallIn(heap)
  OBVIOUS
<1>6. PICK X : AllCalls("free_style", ss, X)
  BY DEF AllCalls
<1>7. PICK Y : AllCalls("free_rule", ms, Y)
  BY DEF AllCalls
<1>8. PICK Z : AllCalls("free_rule", roots, Z)
  BY DEF AllCalls
<1>9. X \in Seq(C)
  <2>1. Calls("free_style", ss) \in Seq(C)
    BY <1>1, <1>3, <1>5, CallAllowed, CallsIn
  <2> QED
    BY <1>6, <2>1 DEF AllCalls
<1>10. Y \in Seq(C)
  <2>1. \A a \in OfKind(heap, "macro") : Call("free_rule", a) \in CallIn(heap)
    BY <1>1, CallAllowed DEF OfKind
  <2>2. Calls("free_rule", ms) \in Seq(C)
    BY <1>3, <1>5, <2>1, CallsIn
  <2> QED
    BY <1>7, <2>2 DEF AllCalls
<1>11. Z \in Seq(C)
  <2>1. \A a \in RulesOrNil(heap) : Call("free_rule", a) \in CallIn(heap)
    BY <1>1, CallAllowed DEF RulesOrNil, RulesIn
  <2>2. Calls("free_rule", roots) \in Seq(C)
    BY <1>4, <1>5, <2>1, CallsIn
  <2> QED
    BY <1>8, <2>2 DEF AllCalls
<1>12. PICK new : new = calls'
  OBVIOUS
<1>13. Starts(X, Y, Z, new)
  BY <1>2, <1>6, <1>7, <1>8, <1>12 DEF Starts, AllCalls
<1>14. new \in Seq(C)
  <2>1. X \o Y \in Seq(C)
    BY <1>9, <1>10, ConcatProperties
  <2>2. (X \o Y) \o Z \in Seq(C)
    BY <1>11, <2>1, ConcatProperties
  <2> QED
    BY <1>13, <2>2 DEF Starts
<1>15. PICK rt : rt = roots
  OBVIOUS
<1>16. StartedWith(ss, ms, rt, new)
  <2>1. PICK S : S = Addresses(heap) \cup {NoRule}
    OBVIOUS
  <2>2. /\ OfKind(heap, "style") \subseteq S /\ OfKind(heap, "macro") \subseteq S
        /\ RulesOrNil(heap) \subseteq S
    BY <2>1 DEF OfKind, RulesOrNil, RulesIn
  <2>3. ss \in Seq(S) /\ ms \in Seq(S) /\ rt \in Seq(S)
    BY <1>3, <1>4, <1>15, <2>2, SeqMonotonic
  <2>4. AllCalls("free_rule", rt, Z)
    BY <1>8, <1>15
  <2>5. ASSUME NEW x
        PROVE  /\ N(new, "free_style", x) = Count(ss, x)
               /\ N(new, "free_rule", x) = Count(ms, x) + Count(rt, x)
               /\ N(new, "free", x) = 0 /\ N(new, "free_macro", x) = 0
    BY <1>6, <1>7, <1>9, <1>10, <1>11, <1>13, <2>3, <2>4, StartCounts
  <2> QED
    BY <1>3, <2>5 DEF StartedWith
<1>17. Freeing(heap, open, rt, new, {})
  BY <1>1, <1>3, <1>4, <1>5, <1>14, <1>15, <1>16, StartFreeing
<1>18. heap' = heap /\ open' = open /\ roots' = rt /\ calls' = new /\ freed' = {}
  BY <1>1, <1>12, <1>15
<1> QED
  BY <1>17, <1>18 DEF Freed

LEMMA FreeRuleFreed ==
    ASSUME IInv, Parsed, Freed, free_rule
    PROVE  Freed'
<1>1. /\ phase = "free" /\ calls # <<>> /\ calls \in Seq(CallIn(heap))
      /\ Head(calls).fn = "free_rule" /\ Sound(heap) /\ Len(heap) \in Nat
      /\ UNCHANGED <<heap, freed, styles, macros, roots, open, phase>>
  BY DEF free_rule, Calling, IInv, Sound
<1>2. /\ Freeing(heap, open, roots, calls, freed) /\ OwnedOnce(heap, open, roots)
  BY <1>1 DEF Freed, Parsed
<1>3. PICK a : a = arg
  OBVIOUS
<1>4. Head(calls).of = a /\ a \in Addresses(heap) \cup {NoRule}
  <2>1. Head(calls) \in CallIn(heap)
    BY <1>1, HeadIn
  <2> QED
    BY <1>1, <1>3, <2>1 DEF CallIn, TakesIn, arg
<1>5. PICK new : new = calls'
  OBVIOUS
<1>6. CASE a = NoRule
  <2>1. Returned(calls, <<>>, new)
    BY <1>3, <1>5, <1>6 DEF free_rule, Returns, Returned
  <2> QED
    <3>1. Freeing(heap, open, roots, new, freed)
      BY <1>1, <1>2, <1>4, <1>6, <2>1, NilFreeing
    <3> QED
      BY <1>1, <1>5, <3>1 DEF Freed
<1>7. CASE a # NoRule
  <2>1. Returned(calls, Parts(heap[a]) \o <<Call("free", a)>>, new)
    BY <1>3, <1>5, <1>7 DEF free_rule, Returns, Returned, obj
  <2>2. a \in Addresses(heap)
    BY <1>4, <1>7
  <2>3. Freeing(heap, open, roots, new, freed)
    BY <1>1, <1>2, <1>4, <2>1, <2>2, RuleFreeing
  <2> QED
    BY <1>1, <1>5, <2>3 DEF Freed
<1> QED
  BY <1>6, <1>7

LEMMA FreeStyleFreed ==
    ASSUME IInv, Freed, free_style
    PROVE  Freed'
<1>1. PICK s : s = arg
  OBVIOUS
<1>2. /\ phase = "free" /\ calls # <<>> /\ calls \in Seq(CallIn(heap))
      /\ Head(calls).fn = "free_style" /\ s \in OfKind(heap, "style")
      /\ Recounts(heap, s, heap[s].refs - 1, heap')
      /\ heap'[s].refs = heap[s].refs - 1
      /\ Sound(heap) /\ Len(heap) \in Nat
      /\ UNCHANGED <<freed, styles, macros, roots, open, phase>>
  BY <1>1, StyleCalled
<1>3. Head(calls).of = s
  BY <1>1 DEF arg
<1>4. PICK more : more = IF heap[s].refs - 1 <= 0 THEN <<Call("free", s)>> ELSE <<>>
  OBVIOUS
<1>5. PICK new : new = calls'
  OBVIOUS
<1>6. Returned(calls, more, new)
  BY <1>1, <1>2, <1>4, <1>5 DEF free_style, Returns, Returned
<1>7. PICK g : g = heap'
  OBVIOUS
<1>8. Freeing(heap, open, roots, calls, freed)
  BY <1>2 DEF Freed
<1>9. Freeing(g, open, roots, new, freed)
  BY <1>2, <1>3, <1>4, <1>6, <1>7, <1>8, StyleFreeing
<1> QED
  BY <1>2, <1>5, <1>7, <1>9 DEF Freed

LEMMA FreeMacroFreed ==
    ASSUME IInv, Freed, free_macro
    PROVE  Freed'
<1>1. PICK m : m = arg
  OBVIOUS
<1>2. /\ phase = "free" /\ calls # <<>> /\ calls \in Seq(CallIn(heap))
      /\ Head(calls).fn = "free_macro" /\ m \in OfKind(heap, "macro")
      /\ Recounts(heap, m, heap[m].refs - 1, heap')
      /\ heap'[m].refs = heap[m].refs - 1 /\ heap[m].refs \in Int
      /\ Sound(heap) /\ Len(heap) \in Nat
      /\ UNCHANGED <<freed, styles, macros, roots, open, phase>>
  BY <1>1, MacroCalled
<1>3. Head(calls).of = m
  BY <1>1 DEF arg
<1>4. PICK more : more = IF heap'[arg].refs <= 0
                           THEN <<Call("free_rule", obj.rule), Call("free", arg)>> ELSE <<>>
  OBVIOUS
<1>5. heap[m].refs - 1 >= 1 => more = <<>>
  BY <1>1, <1>2, <1>4
<1>6. PICK new : new = calls'
  OBVIOUS
<1>7. Returned(calls, more, new)
  BY <1>4, <1>6 DEF free_macro, Returns, Returned
<1>8. PICK g : g = heap'
  OBVIOUS
<1>9. Freeing(heap, open, roots, calls, freed)
  BY <1>2 DEF Freed
<1>10. Freeing(g, open, roots, new, freed)
  BY <1>2, <1>3, <1>5, <1>7, <1>8, <1>9, MacroFreeing
<1> QED
  BY <1>2, <1>6, <1>8, <1>10 DEF Freed

LEMMA FreeFreed ==
    ASSUME IInv, Freed, free
    PROVE  Freed'
<1>1. /\ phase = "free" /\ calls # <<>> /\ calls \in Seq(CallIn(heap))
      /\ Head(calls).fn = "free"
      /\ freed' = freed \cup {Head(calls).of} /\ calls' = <<>> \o Tail(calls)
      /\ UNCHANGED <<heap, styles, macros, roots, open, phase>>
  BY DEF free, Calling, Returns, arg, IInv
<1>2. Head(calls).of \in Addresses(heap)
  <2>1. Head(calls) \in CallIn(heap)
    BY <1>1, HeadIn
  <2> QED
    BY <1>1, <2>1 DEF CallIn, TakesIn
<1>3. Freeing(heap, open, roots, calls, freed)
  BY <1>1 DEF Freed
<1>4. Freeing(heap, open, roots, <<>> \o Tail(calls), freed \cup {Head(calls).of})
  BY <1>1, <1>2, <1>3, FreeFreeing
<1> QED
  BY <1>1, <1>4 DEF Freed

LEMMA ParseFreed ==
    ASSUME Parse
    PROVE  Freed'
<1>1. phase' \in {"parse", "run", "dead"}
  BY DEF Parse, Parsing, DeclareStyle, NameMacro, NameStyle, LeafRule, OpenBody, Include,
         CloseMatch, CloseMacro, ClosePrepend, CloseAppend, EndOfInclude, EndOfScript, ScriptDie
<1> QED
  BY <1>1 DEF Freed

LEMMA StepWhole == Whole /\ [Next]_vars => Whole'
<1> SUFFICES ASSUME Whole, [Next]_vars PROVE Whole'
  OBVIOUS
<1>1. IInv'
  BY StepIInv DEF Whole
<1>2. CASE UNCHANGED vars
  <2>1. /\ heap' = heap /\ open' = open /\ roots' = roots /\ calls' = calls /\ freed' = freed
        /\ phase' = phase /\ rule' = rule
    BY <1>2 DEF vars, roots
  <2> QED
    BY <1>1, <2>1 DEF Whole, Parsed, Reading, Untouched, Known, Freed
<1>3. CASE Parse
  BY <1>1, <1>3, ParseParsed, ParseFreed DEF Whole
<1>4. CASE Teardown
  <2>1. Parsed'
    BY <1>4, TeardownParsed DEF Whole
  <2>2. Freed'
    <3>1. CASE Done
      <4>1. /\ phase = "free" /\ heap' = heap /\ open' = open /\ roots' = roots
            /\ calls' = calls /\ freed' = freed
        BY <3>1 DEF Done, roots
      <4> QED
        BY <4>1 DEF Whole, Freed
    <3> QED
      BY <1>4, <3>1, FreeScriptFreed, FreeRuleFreed, FreeStyleFreed, FreeMacroFreed, FreeFreed
         DEF Teardown, Whole
  <2> QED
    BY <1>1, <2>1, <2>2 DEF Whole
<1> QED
  BY <1>2, <1>3, <1>4 DEF Next

LEMMA AlwaysWhole == Spec => []Whole
<1>1. Init => Whole
  <2>1. Init => Freed
    BY DEF Init, Freed
  <2> QED
    BY <2>1, InitIInv, InitParsed DEF Whole
<1> QED
  BY <1>1, StepWhole, PTL DEF Spec

LEMMA WholeCounts == Whole => RefsCounted
<1>1. \A k : OfKind(heap, k) = Kind(k)
  BY DEF OfKind, Addresses, Kind, Address
<1>2. \A a : UsersIn(heap, a)
               = {r \in Kind("style_rule") \cup Kind("macro_rule") : Leads(heap[r]) = {a}}
  BY <1>1 DEF UsersIn, NamersIn
<1> QED
  BY <1>1, <1>2 DEF Whole, Parsed, Known, Counted, Named, RefsCounted

LEMMA WholeOwns == Whole => OneOwner
<1> SUFFICES ASSUME Whole, NEW r \in Rules PROVE Cardinality(Owners(r)) = 1
  BY DEF OneOwner
<1>1. r \in RulesIn(heap)
  BY DEF Rules, RulesIn, Address, Addresses
<1>2. PICK x : OwnersIn(heap, open, roots, r) = {x}
  BY <1>1 DEF Whole, Parsed, OwnedOnce, Sole
<1>3. Owners(r) = OwnersIn(heap, open, roots, r)
  BY DEF Owners, OwnersIn, OpenOwn, RootOwn, HeapOwn, Address, Addresses
<1> QED
  BY <1>2, <1>3, FS_Singleton

LEMMA WholeFrees == Whole => FreedOnce
<1> SUFFICES ASSUME Whole, phase = "free", calls # <<>>, Head(calls).fn # "free_macro"
             PROVE  arg \notin freed
  BY DEF FreedOnce
<1>1. /\ Freeing(heap, open, roots, calls, freed) /\ freed \subseteq Addresses(heap)
      /\ Sound(heap) /\ Len(heap) \in Nat /\ calls \in Seq(CallIn(heap))
  BY DEF Whole, Freed, IInv, Sound
<1>2. PICK a : a = arg
  OBVIOUS
<1>3. Head(calls) \in CallIn(heap) /\ Head(calls).of = a
  BY <1>2, HeadIn DEF Whole, arg
<1>4. CASE a \notin Addresses(heap)
  BY <1>1, <1>2, <1>4
<1>5. CASE a \in Addresses(heap)
  <2>1. N(calls, Head(calls).fn, a) >= 1
    <3>1. Head(calls) = Call(Head(calls).fn, a)
      <4>1. Head(calls) \in CallRecord
        BY <1>3 DEF CallIn
      <4> QED
        BY <1>3, <4>1 DEF CallRecord, Call
    <3>2. <<>> \in Seq(CallIn(heap))
      BY EmptySeq
    <3> QED
      BY <1>1, <3>1, <3>2, CountReturn DEF N
  <2>2. Times(calls, freed, a) <= 1
    BY <1>1, <1>5 DEF Freeing, OnceEach
  <2>3. CASE Head(calls).fn = "free_rule"
    <3>1. ~Processed(calls, freed, a)
      BY <1>1, <2>1, <2>2, <2>3, NaturalTimes
    <3> QED
      BY <1>2, <3>1 DEF Processed
  <2>4. CASE Head(calls).fn = "free"
    <3>1. a \notin freed
      BY <1>1, <2>1, <2>2, <2>4, NaturalTimes
    <3> QED
      BY <1>2, <3>1
  <2>5. CASE Head(calls).fn = "free_style"
    <3>1. a \in OfKind(heap, "style")
      BY <1>3, <2>5 DEF CallIn, TakesIn
    <3>2. PICK u \in Nat : u = Cardinality(Unspent(heap, calls, freed, a))
      BY <1>1, FiniteUnspent
    <3>3. heap[a].refs >= N(calls, "free_style", a) + u
      BY <1>1, <3>1, <3>2 DEF Freeing, StylesKept
    <3>4. heap[a].refs \in Int /\ N(calls, "free_style", a) \in Nat
      BY <1>1, <3>1, RefsInt, NaturalCounts
    <3>5. ~(Times(calls, freed, a) > 0)
      <4>1. Times(calls, freed, a) > 0 => heap[a].refs <= 0
        BY <1>1, <3>1 DEF Freeing, StylesKept
      <4> QED
        BY <2>1, <2>5, <3>2, <3>3, <3>4, <4>1
    <3>6. Times(calls, freed, a) \in Nat
      BY <1>1, NaturalTimes
    <3>7. Times(calls, freed, a) = 0
      BY <3>5, <3>6
    <3>8. a \notin freed
      BY <1>1, <3>7, NaturalTimes
    <3> QED
      BY <1>2, <3>8
  <2>6. Head(calls).fn \in {"free_style", "free_rule", "free"}
    BY <1>3 DEF CallIn, CallRecord
  <2> QED
    BY <2>3, <2>4, <2>5, <2>6
<1> QED
  BY <1>4, <1>5

(* Whatever a script says, a style or a macro counts the rules that name it  *)
(* and its name, whichever files and bodies those rules are in.              *)
THEOREM RefsAlwaysCounted == Spec => []RefsCounted
  BY AlwaysWhole, WholeCounts, PTL

(* Whatever a script says, a rule is in one place: no macro, body, file or   *)
(* list that the parser builds shares a rule with another, and none is lost. *)
THEOREM AlwaysOneOwner == Spec => []OneOwner
  BY AlwaysWhole, WholeOwns, PTL

(* Whatever a script says, and in whatever order its tables are visited,     *)
(* free_script frees no rule and no style twice and touches none after it.   *)
THEOREM NothingFreedTwice == Spec => []FreedOnce
  BY AlwaysWhole, WholeFrees, PTL
===============================================================================
