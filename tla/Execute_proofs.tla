---------------------------- MODULE Execute_proofs ----------------------------
(***************************************************************************)
(* The rule engine keeps its positions, for every script the parser can     *)
(* make, every line and whatever regular expressions find.                  *)
(***************************************************************************)
EXTENDS Execute, Inductions, SequenceTheorems

Actions == {"CONTINUE", "BREAK", "SKIP"}

(* What the invariant says is said for an input "in", which never changes.   *)
Type(in, frame) == in.rules[frame.rule].type

Frames(in) ==
    [rule : DOMAIN in.rules, at : Nat \ {0}, so : Nat, eo : Nat, again : BOOLEAN,
     outer : {"CONTINUE", "BREAK"}]

Todos(in) ==
    {Loop} \cup [op : {"exec"}, name : DOMAIN in.rules] \cup [op : {"return"}, action : Actions]

Context == [subv : Seq(Matchspec)]

(* StyleRanges keeps more than its TypeOK says.                              *)
RangesTyped ==
    /\ Ranges!TypeOK
    /\ pc = "loop" => s1 \in Ranges!StyleRange /\ node >= 1

Typed ==
    /\ input \in Inputs /\ lines \in 0..input.lines
    /\ buf \in Seq(0..MaxLen) /\ Len(buf) <= MaxLen
    /\ RangesTyped
    /\ mss \in Seq(Context)
    /\ ctl \in Seq(Frames(input))
    /\ todo \in Todos(input)
    /\ phase \in {"idle", "run", "print", "dead"}

(* A position range in a text of some length, and one that was never set.    *)
InText(r, len) == r.so \in 0..len /\ r.eo \in r.so..len
Unset(r)       == r.so = Modulus - 1 /\ r.eo = Modulus - 1

(* UnsetContexts, and OpenEnded or that, of an input.                        *)
MayUnset(in) ==
    \E name \in DOMAIN in.rules :
        /\ in.rules[name].type = "match"
        /\ \E m \in Range(in.rules[name].matches) : m.type = "regex" /\ m.optional

Loose(in) ==
    \/ MayUnset(in)
    \/ \E name \in DOMAIN in.rules :
          in.rules[name].type = "subst" /\ (in.rules[name].nullable \/ in.rules[name].global)

Within(in, outer, inner) ==
    /\ MayUnset(in) \/ outer.so <= inner.so
    /\ Loose(in) \/ inner.eo <= outer.eo

SubvOK(in, v, len) ==
    /\ v \in Seq(Matchspec) /\ v # <<>> /\ InText(v[1], len)
    /\ \A c \in 2..Len(v) :
         /\ InText(v[c], len) \/ (Unset(v[c]) /\ MayUnset(in))
         /\ Within(in, v[1], v[c])

(* The contexts m of a text of some length.                                  *)
Chain(in, m, len) ==
    /\ m \in Seq(Context) /\ m # <<>>
    /\ m[1].subv[1] = SubmatchSpec(0, len)
    /\ \A d \in 1..Len(m) : SubvOK(in, m[d].subv, len)
    /\ \A d, e \in 1..Len(m) : d < e => Within(in, m[d].subv[1], m[e].subv[1])

Bodies(in, c) == {i \in 1..Len(c) : Type(in, c[i]) = "match"}

Searching(in, c, td, type) == td = Loop /\ Type(in, Last(c)) = type

(* The frames c of n contexts: every one of them but the root context was    *)
(* made by a match rule whose body runs.                                     *)
Stack(in, c, td, n) ==
    /\ \A i \in 1..Len(c) :
         \/ Type(in, c[i]) \in {"multi", "match"}
         \/ i = Len(c) /\ Searching(in, c, td, "subst")
    /\ td = Loop => c # <<>> /\ Type(in, Last(c)) \in {"match", "subst"}
    /\ n + (IF Searching(in, c, td, "match") THEN 1 ELSE 0)
         = 1 + Cardinality(Bodies(in, c))

(* Where the loop of the frame f goes on in a text of some length, r being   *)
(* its context.                                                              *)
MatchGoesOn(in, f, r, len) ==
    /\ f.so <= len
    /\ MayUnset(in) \/ r.so <= f.so
    /\ Loose(in) \/ f.so <= r.eo

SubstGoesOn(in, f, r, len) ==
    /\ r.so <= f.so /\ f.so <= len /\ f.eo <= MaxLen
    /\ ~in.rules[f.rule].global => f.so = r.so /\ f.eo = r.eo

GoesOn(in, c, td, r, len) ==
    /\ Searching(in, c, td, "match") => MatchGoesOn(in, Last(c), r, len)
    /\ Searching(in, c, td, "subst") => SubstGoesOn(in, Last(c), r, len)

IInv ==
    /\ Typed
    /\ phase = "run" =>
         /\ Chain(input, mss, Len(buf))
         /\ Stack(input, ctl, todo, Len(mss))
         /\ GoesOn(input, ctl, todo, ctx, Len(buf))
    /\ phase \in {"idle", "print"} => ctl = <<>> /\ mss = <<>>

-----------------------------------------------------------------------------
(* Numbers.                                                                  *)
LEMMA Bounds ==
    /\ MaxLen \in Nat /\ MaxRanges \in Nat
    /\ Modulus \in Nat \ {0} /\ Modulus > 4 * MaxLen + 2
  BY BoundsAssumption, ModulusAssumption

LEMMA SmallNumbers ==
    ASSUME NEW p \in 0..MaxLen
    PROVE  /\ Signed(p) = p /\ Unsigned(p) = p
           /\ p \in 0..(Modulus - 1) /\ p # Modulus - 1
  BY Bounds DEF Signed, Unsigned

LEMMA MinusOne == Signed(Modulus - 1) = -1 /\ Unsigned(-1) = Modulus - 1
  BY Bounds DEF Signed, Unsigned

LEMMA MatchspecFields ==
    ASSUME NEW r \in Matchspec
    PROVE  r.so \in Nat /\ r.eo \in Nat /\ r.so < Modulus /\ r.eo < Modulus
  BY Bounds DEF Matchspec

LEMMA SpecIsMatchspec ==
    ASSUME NEW so \in 0..(Modulus - 1), NEW eo \in 0..(Modulus - 1)
    PROVE  /\ SubmatchSpec(so, eo) \in Matchspec
           /\ SubmatchSpec(so, eo).so = so /\ SubmatchSpec(so, eo).eo = eo
  BY DEF SubmatchSpec, Matchspec

LEMMA FunctionIsSeq ==
    ASSUME NEW S, NEW n \in Nat, NEW f \in [1..n -> S]
    PROVE  f \in Seq(S) /\ Len(f) = n
  OBVIOUS

(* Where a position p moves when the text of "len" characters is changed at   *)
(* "at" and has "new" characters then.                                       *)
After(p, at, len, new) == IF p > at THEN Larger(p + new - len, at) ELSE p

(* A range r that lies in the text becomes t.                                *)
MovesTo(r, t, at, len, new, grows) ==
    /\ t \in Matchspec /\ InText(t, new)
    /\ t.so = After(r.so, at, len, new)
    /\ r.eo > at => t.eo = After(r.eo, at, len, new)
    /\ r.eo < at => t.eo = r.eo
    /\ r.eo = at /\ (grows \/ r.so = at) => t.eo = Larger(new - len + at, at)
    /\ r.eo = at /\ ~grows /\ r.so # at => t.eo = at

LEMMA MoveInText ==
    ASSUME NEW len \in 0..MaxLen, NEW new \in 0..MaxLen, NEW at \in 0..len, at <= new,
           NEW grows \in BOOLEAN, NEW r \in Matchspec, InText(r, len)
    PROVE  MovesTo(r, MoveSpec(r, at, new - len, grows), at, len, new, grows)
<1>1. r.so \in 0..MaxLen /\ r.eo \in 0..MaxLen /\ r.so <= r.eo /\ r.eo <= len
  BY Bounds DEF InText
<1>2. Signed(r.so) = r.so /\ Signed(r.eo) = r.eo
  BY <1>1, SmallNumbers
<1>3. MaxLen \in Nat /\ Modulus \in Nat /\ MaxLen < Modulus
  BY Bounds
<1> DEFINE t == MoveSpec(r, at, new - len, grows)
<1>4. CASE r.so = r.eo /\ r.so = at
  <2>1. t = [r EXCEPT !.eo = Moved(r.eo, at, new - len)]
    BY <1>4 DEF MoveSpec
  <2>2. t.so = r.so /\ t.eo = Larger(r.eo + (new - len), at) /\ t = [so |-> t.so, eo |-> t.eo]
    BY <2>1, <1>2 DEF Moved, Matchspec
  <2> HIDE DEF t
  <2>3. t.so \in 0..new /\ t.eo \in t.so..new
    BY <2>2, <1>1, <1>4 DEF Larger
  <2>4. MovesTo(r, t, at, len, new, grows)
    BY <2>2, <2>3, <1>1, <1>3, <1>4 DEF MovesTo, InText, After, Larger, Matchspec
  <2> QED
    BY <2>4 DEF t
<1>5. CASE ~(r.so = r.eo /\ r.so = at)
  <2> DEFINE from == IF r.so > at THEN Larger(r.so + (new - len), at) ELSE r.so
             till == IF r.eo > at \/ (grows /\ r.eo >= at)
                       THEN Larger(r.eo + (new - len), at) ELSE r.eo
  <2>1. t = [r EXCEPT !.eo = till, !.so = from]
    BY <1>2, <1>5 DEF MoveSpec, Moved
  <2>2. t.so = from /\ t.eo = till /\ t = [so |-> from, eo |-> till]
    BY <2>1 DEF Matchspec
  <2> HIDE DEF t
  <2>3. from \in 0..new /\ till \in from..new
    BY <1>1, <1>5 DEF Larger
  <2>4. MovesTo(r, t, at, len, new, grows)
    BY <2>2, <2>3, <1>1, <1>3, <1>5 DEF MovesTo, InText, After, Larger, Matchspec
  <2> QED
    BY <2>4 DEF t
<1> QED
  BY <1>4, <1>5

(* What was never set becomes an empty range in the text.                    *)
LEMMA MoveUnset ==
    ASSUME NEW len \in 0..MaxLen, NEW new \in 0..MaxLen, NEW at \in 0..len, at <= new,
           NEW r \in Matchspec, Unset(r)
    PROVE  /\ MoveSpec(r, at, new - len, FALSE) \in Matchspec
           /\ InText(MoveSpec(r, at, new - len, FALSE), new)
<1>1. r.so = Modulus - 1 /\ r.eo = Modulus - 1 /\ at < Modulus - 1
  BY Bounds DEF Unset
<1>2. Signed(r.so) = -1 /\ Signed(r.eo) = -1
  BY <1>1, MinusOne
<1> DEFINE t == MoveSpec(r, at, new - len, FALSE)
           p == Larger(-1 + (new - len), at)
<1>3. t = [r EXCEPT !.eo = p, !.so = p]
  <2>1. r.so # at /\ r.eo > at /\ r.so > at
    BY <1>1, Bounds
  <2>2. Moved(r.eo, at, new - len) = p /\ Moved(r.so, at, new - len) = p
    BY <1>2 DEF Moved
  <2> HIDE DEF p
  <2> QED
    BY <2>1, <2>2 DEF MoveSpec
<1>4. t.so = p /\ t.eo = p /\ t = [so |-> p, eo |-> p]
  BY <1>3 DEF Matchspec
<1>5. p \in 0..new
  BY DEF Larger
<1>6. t \in Matchspec /\ InText(t, new)
  <2> HIDE DEF t, p
  <2> QED
    BY <1>4, <1>5, Bounds DEF InText, Matchspec
<1> QED
  BY <1>6

(* One range that begins, or ends, within another one does so afterwards.    *)
LEMMA MoveStarts ==
    ASSUME NEW len \in 0..MaxLen, NEW new \in 0..MaxLen, NEW at \in 0..len, at <= new,
           NEW p \in 0..len, NEW q \in 0..len, p <= q
    PROVE  After(p, at, len, new) <= After(q, at, len, new)
  BY Bounds DEF After, Larger

LEMMA MoveEnds ==
    ASSUME NEW len \in 0..MaxLen, NEW new \in 0..MaxLen, NEW at \in 0..len, at <= new,
           NEW r \in Matchspec, InText(r, len), NEW q \in Matchspec, InText(q, len),
           r.eo <= q.eo, at < q.eo \/ at = 0,
           NEW t, NEW u, NEW g \in BOOLEAN, NEW h \in BOOLEAN,
           MovesTo(r, t, at, len, new, g), MovesTo(q, u, at, len, new, h)
    PROVE  t.eo <= u.eo
<1>1. r.so \in 0..len /\ r.eo \in r.so..len /\ q.so \in 0..len /\ q.eo \in q.so..len
  BY DEF InText
<1> QED
  BY <1>1, Bounds DEF MovesTo, After, Larger

-----------------------------------------------------------------------------
(* Every context lies in the text, and within the ones around it, after      *)
(* update_positions too.                                                     *)
LEMMA MoveKeepsChain ==
    ASSUME NEW in, NEW len \in 0..MaxLen, NEW new \in 0..MaxLen, NEW at \in 0..len, at <= new,
           Chain(in, mss, len),
           Loose(in) \/ at = 0 \/ at < ctx.eo
    PROVE  Chain(in, MoveContexts(at, new - len), new)
<1> DEFINE diff == new - len
           n == Len(mss)
           v(d) == mss[d].subv
           w(d) == [c \in 1..Len(v(d)) |-> MoveSpec(v(d)[c], at, diff, c = 1 /\ d = 1)]
           m == [d \in 1..n |-> new_match_state(w(d))]
<1>1. MoveContexts(at, diff) = m
  BY DEF MoveContexts
<1>2. n \in Nat /\ n >= 1 /\ mss = [d \in 1..n |-> mss[d]]
  BY DEF Chain
<1>3. ASSUME NEW d \in 1..n
      PROVE  /\ v(d) \in Seq(Matchspec) /\ Len(v(d)) \in Nat /\ 1 \in 1..Len(v(d))
             /\ SubvOK(in, v(d), len)
  BY <1>2 DEF Chain, SubvOK
<1>4. ASSUME NEW d \in 1..n, NEW c \in 1..Len(v(d))
      PROVE  /\ InText(v(d)[c], len) =>
                    MovesTo(v(d)[c], w(d)[c], at, len, new, (c = 1 /\ d = 1))
             /\ w(d)[c] \in Matchspec /\ InText(w(d)[c], new)
  <2>1. v(d)[c] \in Matchspec
    BY <1>3
  <2>2. w(d)[c] = MoveSpec(v(d)[c], at, diff, c = 1 /\ d = 1)
    OBVIOUS
  <2>3. (c = 1 /\ d = 1) \in BOOLEAN
    OBVIOUS
  <2>4. CASE InText(v(d)[c], len)
    <3>1. MovesTo(v(d)[c], w(d)[c], at, len, new, (c = 1 /\ d = 1))
      BY <2>1, <2>2, <2>3, <2>4, MoveInText
    <3> QED
      BY <3>1 DEF MovesTo
  <2>5. CASE ~InText(v(d)[c], len)
    <3>1. c # 1 /\ Unset(v(d)[c])
      BY <1>3, <2>5 DEF SubvOK
    <3>2. w(d)[c] = MoveSpec(v(d)[c], at, diff, FALSE)
      BY <2>2, <3>1
    <3> QED
      BY <2>1, <2>5, <3>1, <3>2, MoveUnset
  <2> QED
    BY <2>4, <2>5
<1>5. ASSUME NEW d \in 1..n
      PROVE  /\ w(d) \in Seq(Matchspec) /\ w(d) # <<>> /\ Len(w(d)) = Len(v(d))
             /\ m[d].subv = w(d) /\ m[d] \in Context
  <2>1. \A c \in 1..Len(v(d)) : w(d)[c] \in Matchspec
    BY <1>4
  <2>2. w(d) \in Seq(Matchspec) /\ Len(w(d)) = Len(v(d))
    <3>1. w(d) \in [1..Len(v(d)) -> Matchspec] /\ Len(v(d)) \in Nat
      BY <1>3, <2>1
    <3> HIDE DEF w, v
    <3> QED
      BY <3>1, FunctionIsSeq
  <2>3. w(d) # <<>>
    BY <1>3, <2>2
  <2>4. m[d] = [subv |-> w(d)]
    BY DEF new_match_state
  <2> HIDE DEF m, w
  <2> QED
    BY <2>2, <2>3, <2>4 DEF Context
<1>6. ASSUME NEW d \in 1..n PROVE InText(v(d)[1], len) /\ v(d)[1] \in Matchspec
  BY <1>3 DEF SubvOK
<1>7. \A d \in 1..n : Loose(in) \/ at = 0 \/ at < v(d)[1].eo
  <2> SUFFICES ASSUME NEW d \in 1..n, ~Loose(in), at # 0 PROVE at < v(d)[1].eo
    OBVIOUS
  <2>1. at < ctx.eo /\ ctx = v(n)[1]
    BY DEF ctx, ms, Last
  <2>2. CASE d = n
    BY <2>1, <2>2
  <2>3. CASE d < n
    <3>1. v(n)[1].eo <= v(d)[1].eo
      BY <1>2, <2>3 DEF Chain, Within
    <3>2. v(n)[1] \in Matchspec /\ v(d)[1] \in Matchspec
      BY <1>2, <1>6
    <3>3. v(n)[1].eo \in Nat /\ v(d)[1].eo \in Nat
      BY <3>2, MatchspecFields
    <3> QED
      BY <2>1, <3>1, <3>3
  <2> QED
    BY <1>2, <2>2, <2>3
<1>8. ASSUME NEW d \in 1..n, NEW e \in 1..n, NEW c \in 1..Len(v(e)),
             Within(in, v(d)[1], v(e)[c]), InText(v(e)[c], len) \/ MayUnset(in)
      PROVE  Within(in, w(d)[1], w(e)[c])
  <2>1. v(d)[1] \in Matchspec /\ InText(v(d)[1], len) /\ 1 \in 1..Len(v(d))
    BY <1>3, <1>6
  <2>2. MovesTo(v(d)[1], w(d)[1], at, len, new, (1 = 1 /\ d = 1))
    BY <1>4, <2>1
  <2>3. CASE MayUnset(in)
    BY <2>3 DEF Within, Loose
  <2>4. CASE ~MayUnset(in)
    <3>1. v(e)[c] \in Matchspec /\ InText(v(e)[c], len)
      BY <1>3, <1>8, <2>4
    <3>2. MovesTo(v(e)[c], w(e)[c], at, len, new, (c = 1 /\ e = 1))
      BY <1>4, <3>1
    <3>3. w(d)[1].so <= w(e)[c].so
      <4>1. v(d)[1].so <= v(e)[c].so
        BY <1>8, <2>4 DEF Within
      <4>2. v(d)[1].so \in 0..len /\ v(e)[c].so \in 0..len
        BY <2>1, <3>1 DEF InText
      <4>3. w(d)[1].so = After(v(d)[1].so, at, len, new)
            /\ w(e)[c].so = After(v(e)[c].so, at, len, new)
        BY <2>2, <3>2 DEF MovesTo
      <4> HIDE DEF v, w
      <4> QED
        BY <4>1, <4>2, <4>3, MoveStarts
    <3>4. ASSUME ~Loose(in) PROVE w(e)[c].eo <= w(d)[1].eo
      <4>1. v(e)[c].eo <= v(d)[1].eo
        BY <1>8, <3>4 DEF Within
      <4>2. at < v(d)[1].eo \/ at = 0
        BY <1>7, <3>4
      <4>3. (1 = 1 /\ d = 1) \in BOOLEAN /\ (c = 1 /\ e = 1) \in BOOLEAN
        OBVIOUS
      <4> HIDE DEF v, w
      <4> QED
        BY <2>1, <2>2, <3>1, <3>2, <4>1, <4>2, <4>3, MoveEnds
    <3> QED
      BY <3>3, <3>4 DEF Within
  <2> QED
    BY <2>3, <2>4
<1>9. m[1].subv[1] = SubmatchSpec(0, new)
  <2>1. v(1)[1] = SubmatchSpec(0, len) /\ v(1)[1].so = 0 /\ v(1)[1].eo = len
    BY DEF Chain, SubmatchSpec
  <2>2. MovesTo(v(1)[1], w(1)[1], at, len, new, (1 = 1 /\ 1 = 1))
    <3>1. 1 \in 1..n /\ 1 \in 1..Len(v(1)) /\ InText(v(1)[1], len)
      BY <1>2, <1>3, <1>6
    <3> QED
      BY <1>4, <3>1
  <2>3. w(1)[1].so = 0 /\ w(1)[1].eo = new /\ w(1)[1] \in Matchspec
    <3> HIDE DEF w, v
    <3> QED
      BY <2>1, <2>2 DEF MovesTo, After, Larger
  <2>4. w(1)[1] = SubmatchSpec(0, new)
    <3> HIDE DEF w, v
    <3> QED
      BY <2>3 DEF Matchspec, SubmatchSpec
  <2> QED
    BY <1>2, <1>5, <2>4
<1>10. \A d \in 1..n : SubvOK(in, m[d].subv, new)
  <2> SUFFICES ASSUME NEW d \in 1..n PROVE SubvOK(in, w(d), new)
    BY <1>5
  <2>1. InText(w(d)[1], new)
    BY <1>3, <1>4
  <2>2. ASSUME NEW c \in 2..Len(w(d))
        PROVE  InText(w(d)[c], new) /\ Within(in, w(d)[1], w(d)[c])
    <3>1. c \in 1..Len(v(d)) /\ c \in 2..Len(v(d))
      BY <1>3, <1>5, <2>2
    <3>2. Within(in, v(d)[1], v(d)[c]) /\ (InText(v(d)[c], len) \/ MayUnset(in))
      BY <1>3, <3>1 DEF SubvOK
    <3> QED
      BY <1>4, <1>8, <3>1, <3>2
  <2> QED
    <3> HIDE DEF w
    <3> QED
      BY <1>5, <2>1, <2>2 DEF SubvOK
<1>11. \A d, e \in 1..n : d < e => Within(in, m[d].subv[1], m[e].subv[1])
  <2> SUFFICES ASSUME NEW d \in 1..n, NEW e \in 1..n, d < e
               PROVE  Within(in, w(d)[1], w(e)[1])
    BY <1>5
  <2>1. Within(in, v(d)[1], v(e)[1])
    BY DEF Chain
  <2> QED
    BY <1>3, <1>6, <1>8, <2>1
<1>12. m \in Seq(Context) /\ Len(m) = n /\ m # <<>>
  <2>1. \A d \in 1..n : m[d] \in Context
    BY <1>5
  <2> QED
    BY <1>2, <2>1
<1> QED
  <2> HIDE DEF m, n
  <2> QED
    BY <1>1, <1>9, <1>10, <1>11, <1>12 DEF Chain

-----------------------------------------------------------------------------
(* The stack of frames.                                                      *)
LEMMA LastFrame ==
    ASSUME NEW S, NEW c \in Seq(S), c # <<>>
    PROVE  Len(c) \in Nat \ {0} /\ Last(c) = c[Len(c)] /\ Last(c) \in S
  BY DEF Last

LEMMA PushFrame ==
    ASSUME NEW S, NEW c \in Seq(S), NEW f \in S
    PROVE  /\ Append(c, f) \in Seq(S) /\ Len(Append(c, f)) = Len(c) + 1
           /\ Last(Append(c, f)) = f /\ Append(c, f) # <<>>
           /\ \A i \in 1..Len(c) : Append(c, f)[i] = c[i]
           /\ Append(c, f)[Len(c) + 1] = f
  BY DEF Last

LEMMA PopFrame ==
    ASSUME NEW S, NEW c \in Seq(S), c # <<>>
    PROVE  /\ Front(c) \in Seq(S) /\ Len(Front(c)) = Len(c) - 1
           /\ \A i \in 1..(Len(c) - 1) : Front(c)[i] = c[i]
<1>1. Len(c) \in Nat \ {0} /\ \A i \in 1..(Len(c) - 1) : c[i] \in S
  OBVIOUS
<1> DEFINE n == Len(c) - 1
<1>2. n \in Nat /\ 1 \in Int /\ n \in Int
  BY <1>1
<1>3. /\ SubSeq(c, 1, n) \in Seq(S) /\ Len(SubSeq(c, 1, n)) = IF 1 <= n THEN n - 1 + 1 ELSE 0
      /\ \A i \in 1..(n - 1 + 1) : SubSeq(c, 1, n)[i] = c[1 + i - 1]
  <2> HIDE DEF n
  <2> QED
    BY <1>1, <1>2, SubSeqProperties DEF n
<1>4. \A i \in 1..n : SubSeq(c, 1, n)[i] = c[i]
  <2> HIDE DEF n
  <2> QED
    BY <1>2, <1>3
<1>5. Len(SubSeq(c, 1, n)) = n
  <2> HIDE DEF n
  <2> QED
    BY <1>2, <1>3
<1> QED
  BY <1>1, <1>3, <1>4, <1>5 DEF Front

LEMMA ReplaceFrame ==
    ASSUME NEW S, NEW c \in Seq(S), c # <<>>, NEW f \in S
    PROVE  /\ Front(c) \o <<f>> \in Seq(S) /\ Len(Front(c) \o <<f>>) = Len(c)
           /\ Front(c) \o <<f>> # <<>> /\ Last(Front(c) \o <<f>>) = f
           /\ \A i \in 1..(Len(c) - 1) : (Front(c) \o <<f>>)[i] = c[i]
           /\ (Front(c) \o <<f>>)[Len(c)] = f
<1>1. Front(c) \in Seq(S) /\ Len(Front(c)) = Len(c) - 1 /\ Len(c) \in Nat \ {0}
      /\ \A i \in 1..(Len(c) - 1) : Front(c)[i] = c[i]
  BY PopFrame
<1> DEFINE q == Front(c)
<1> HIDE DEF q
<1>2. q \in Seq(S) /\ Len(q) = Len(c) - 1 /\ \A i \in 1..(Len(c) - 1) : q[i] = c[i]
  BY <1>1 DEF q
<1>3. /\ q \o <<f>> \in Seq(S) /\ Len(q \o <<f>>) = Len(c)
      /\ \A i \in 1..(Len(c) - 1) : (q \o <<f>>)[i] = c[i]
      /\ (q \o <<f>>)[Len(c)] = f
  <2>1. q \o <<f>> = Append(q, f)
    BY <1>2, AppendIsConcat
  <2> QED
    BY <1>1, <1>2, <2>1, PushFrame
<1>4. q \o <<f>> # <<>> /\ Last(q \o <<f>>) = f
  BY <1>1, <1>3 DEF Last
<1> QED
  BY <1>3, <1>4 DEF q

LEMMA BodiesFinite ==
    ASSUME NEW in, NEW S, NEW c \in Seq(S)
    PROVE  IsFiniteSet(Bodies(in, c)) /\ Cardinality(Bodies(in, c)) \in Nat
<1>1. IsFiniteSet(1..Len(c))
  BY FS_Interval
<1>2. IsFiniteSet(Bodies(in, c))
  BY <1>1, FS_Subset DEF Bodies
<1> QED
  BY <1>2, FS_CardinalityType

LEMMA BodiesPush ==
    ASSUME NEW in, NEW S, NEW c \in Seq(S), NEW f \in S
    PROVE  Cardinality(Bodies(in, Append(c, f)))
             = Cardinality(Bodies(in, c)) + (IF Type(in, f) = "match" THEN 1 ELSE 0)
<1> DEFINE a == Append(c, f)
<1>1. Len(c) \in Nat /\ Len(a) = Len(c) + 1 /\ a[Len(c) + 1] = f
      /\ \A i \in 1..Len(c) : a[i] = c[i]
  BY PushFrame
<1>2. IsFiniteSet(Bodies(in, c)) /\ Cardinality(Bodies(in, c)) \in Nat
      /\ Len(c) + 1 \notin Bodies(in, c)
  <2>1. Len(c) + 1 \notin 1..Len(c)
    BY <1>1
  <2> QED
    BY <2>1, BodiesFinite DEF Bodies
<1> HIDE DEF a
<1>3. Bodies(in, a)
        = IF Type(in, f) = "match" THEN Bodies(in, c) \cup {Len(c) + 1} ELSE Bodies(in, c)
  BY <1>1 DEF Bodies
<1>4. CASE Type(in, f) = "match"
  <2>1. Bodies(in, a) = Bodies(in, c) \cup {Len(c) + 1}
    BY <1>3, <1>4
  <2>2. Cardinality(Bodies(in, c) \cup {Len(c) + 1}) = Cardinality(Bodies(in, c)) + 1
    BY <1>2, FS_AddElement
  <2> QED
    BY <1>4, <2>1, <2>2 DEF a
<1>5. CASE Type(in, f) # "match"
  BY <1>2, <1>3, <1>5 DEF a
<1> QED
  BY <1>4, <1>5

LEMMA BodiesPop ==
    ASSUME NEW in, NEW S, NEW c \in Seq(S), c # <<>>
    PROVE  Cardinality(Bodies(in, Front(c)))
             = Cardinality(Bodies(in, c)) - (IF Type(in, Last(c)) = "match" THEN 1 ELSE 0)
<1> DEFINE q == Front(c)
<1>1. q \in Seq(S) /\ Last(c) \in S /\ Last(c) = c[Len(c)] /\ Len(q) = Len(c) - 1
      /\ Len(c) \in Nat \ {0} /\ \A i \in 1..(Len(c) - 1) : q[i] = c[i]
  BY PopFrame, LastFrame
<1> HIDE DEF q
<1>2. c = Append(q, Last(c))
  BY <1>1
<1>3. Cardinality(Bodies(in, Append(q, Last(c))))
        = Cardinality(Bodies(in, q)) + (IF Type(in, Last(c)) = "match" THEN 1 ELSE 0)
  BY <1>1, BodiesPush
<1>4. Cardinality(Bodies(in, q)) \in Nat
  BY <1>1, BodiesFinite
<1> QED
  <2>1. Cardinality(Bodies(in, c))
          = Cardinality(Bodies(in, q)) + (IF Type(in, Last(c)) = "match" THEN 1 ELSE 0)
    BY <1>2, <1>3
  <2> QED
    BY <1>4, <2>1 DEF q

LEMMA BodiesReplace ==
    ASSUME NEW in, NEW S, NEW c \in Seq(S), c # <<>>, NEW f \in S, f.rule = Last(c).rule
    PROVE  Bodies(in, Front(c) \o <<f>>) = Bodies(in, c)
<1> DEFINE q == Front(c) \o <<f>>
<1>1. Len(c) \in Nat \ {0} /\ Last(c) = c[Len(c)]
      /\ Len(q) = Len(c) /\ q[Len(c)] = f /\ \A i \in 1..(Len(c) - 1) : q[i] = c[i]
  BY LastFrame, ReplaceFrame
<1> HIDE DEF q
<1>2. \A i \in 1..Len(c) : q[i].rule = c[i].rule
  BY <1>1
<1>3. Bodies(in, q) = Bodies(in, c)
  BY <1>1, <1>2 DEF Bodies, Type
<1> QED
  BY <1>3 DEF q

-----------------------------------------------------------------------------
(* The rules of a script.                                                    *)
LEMMA RuleFields ==
    ASSUME NEW in \in Inputs, NEW name \in DOMAIN in.rules
    PROVE  LET r == in.rules[name]
           IN  /\ r.type \in {"style", "action", "macro", "multi", "match", "subst", "set"}
               /\ r.type = "style" => r.style \in Styles
               /\ r.type = "action" => r.action \in {"BREAK", "SKIP"}
               /\ r.type = "macro" => r.body \in DOMAIN in.rules
               /\ r.type = "multi" => r.rules \in Seq(DOMAIN in.rules)
               /\ r.type = "match" => r.matches \in Seq(Matches) /\ r.body \in DOMAIN in.rules
               /\ r.type = "subst" => /\ r.nsub \in Nat /\ r.replacement \in Seq(Parts)
                                      /\ r.global \in BOOLEAN /\ r.nullable \in BOOLEAN
                                      /\ r.optional \in BOOLEAN
               /\ r.type = "set" => r.replacement \in Seq(Parts)
<1>1. in.rules[name] \in Rule(DOMAIN in.rules)
  BY InputsAssumption
<1> DEFINE r == in.rules[name]
           names == DOMAIN in.rules
<1>2. r \in Rule(names)
  BY <1>1
<1> HIDE DEF r, names
<1>3. CASE r \in [type : {"style"}, style : Styles]
  BY <1>3 DEF r, names
<1>4. CASE r \in [type : {"action"}, action : {"BREAK", "SKIP"}]
  BY <1>4 DEF r, names
<1>5. CASE r \in [type : {"macro"}, body : names]
  BY <1>5 DEF r, names
<1>6. CASE r \in [type : {"multi"}, rules : Seq(names)]
  BY <1>6 DEF r, names
<1>7. CASE r \in [type : {"match"}, matches : Seq(Matches), body : names]
  BY <1>7 DEF r, names
<1>8. CASE r \in [type : {"subst"}, nsub : Nat, global : BOOLEAN, nullable : BOOLEAN,
                  optional : BOOLEAN, anchored : BOOLEAN, replacement : Seq(Parts)]
  BY <1>8 DEF r, names
<1>9. CASE r \in [type : {"set"}, replacement : Seq(Parts)]
  BY <1>9 DEF r, names
<1> QED
  BY <1>2, <1>3, <1>4, <1>5, <1>6, <1>7, <1>8, <1>9 DEF Rule

LEMMA MatchFields ==
    ASSUME NEW m \in Matches
    PROVE  /\ m.type \in {"regex", "subex"}
           /\ m.type = "regex" => /\ m.nsub \in Nat /\ m.optional \in BOOLEAN
                                  /\ m.nullable \in BOOLEAN
           /\ m.type = "subex" => m.index \in Nat
  BY DEF Matches

-----------------------------------------------------------------------------
(* The text.                                                                 *)
LEMMA ReplaceInText ==
    ASSUME NEW text \in Seq(0..MaxLen), Len(text) <= MaxLen,
           NEW p \in 0..Len(text), NEW q \in p..Len(text), NEW n \in Nat
    PROVE  /\ strbuf_replace(text, p, q, NewText(n)) \in Seq(0..MaxLen)
           /\ Len(strbuf_replace(text, p, q, NewText(n))) = Len(text) + n - (q - p)
           /\ \A i \in 1..p : strbuf_replace(text, p, q, NewText(n))[i] = text[i]
           /\ \A i \in 1..(Len(text) - q) :
                 strbuf_replace(text, p, q, NewText(n))[p + n + i] = text[q + i]
           /\ \A i \in 1..n : strbuf_replace(text, p, q, NewText(n))[p + i] = 0
<1> DEFINE C == 0..MaxLen
<1>0. 0 \in C /\ text \in Seq(C)
  BY Bounds
<1> HIDE DEF C
<1>1. Len(text) \in Nat /\ p \in 0..MaxLen /\ q \in 0..MaxLen /\ p <= q /\ q <= Len(text)
      /\ \A i \in 1..Len(text) : text[i] \in C
  BY <1>0, Bounds
<1>2. Unsigned(p) = p /\ Unsigned(q) = q
  BY <1>1, SmallNumbers
<1>3. normalize_strbuf_pos(text, p) = p /\ normalize_strbuf_pos(text, q) = q
  BY <1>1, <1>2 DEF normalize_strbuf_pos, Smaller
<1> DEFINE a == SubSeq(text, 1, p)
           m == NewText(n)
           z == SubSeq(text, q + 1, Len(text))
<1>4. strbuf_replace(text, p, q, NewText(n)) = (a \o m) \o z
  <2>1. Smaller(p, q) = p /\ Larger(p, q) = q
    BY <1>1 DEF Smaller, Larger
  <2> QED
    BY <1>3, <2>1 DEF strbuf_replace
<1>5. a \in Seq(C) /\ Len(a) = p /\ \A i \in 1..p : a[i] = text[i]
  <2>1. 1 \in Int /\ p \in Int /\ \A i \in 1..p : text[i] \in C
    BY <1>1
  <2>2. /\ a \in Seq(C) /\ Len(a) = IF 1 <= p THEN p - 1 + 1 ELSE 0
        /\ \A i \in 1..(p - 1 + 1) : a[i] = text[1 + i - 1]
    BY <2>1, SubSeqProperties
  <2> HIDE DEF a
  <2> QED
    BY <1>1, <2>2
<1>6. m \in Seq(C) /\ Len(m) = n /\ \A i \in 1..n : m[i] = 0
  <2>1. m \in [1..n -> C] /\ \A i \in 1..n : m[i] = 0
    BY <1>0 DEF NewText
  <2> HIDE DEF m
  <2> QED
    BY <2>1, FunctionIsSeq
<1>7. z \in Seq(C) /\ Len(z) = Len(text) - q /\ \A i \in 1..(Len(text) - q) : z[i] = text[q + i]
  <2>1. q + 1 \in Int /\ Len(text) \in Int /\ \A i \in (q + 1)..Len(text) : text[i] \in C
    BY <1>1
  <2>2. /\ z \in Seq(C)
        /\ Len(z) = IF q + 1 <= Len(text) THEN Len(text) - (q + 1) + 1 ELSE 0
        /\ \A i \in 1..(Len(text) - (q + 1) + 1) : z[i] = text[(q + 1) + i - 1]
    BY <2>1, SubSeqProperties
  <2> HIDE DEF z
  <2>3. \A i \in 1..(Len(text) - q) : z[i] = text[q + i]
    <3> SUFFICES ASSUME NEW i \in 1..(Len(text) - q) PROVE z[i] = text[q + i]
      OBVIOUS
    <3>1. i \in 1..(Len(text) - (q + 1) + 1) /\ (q + 1) + i - 1 = q + i
      BY <1>1
    <3> QED
      BY <2>2, <3>1
  <2> QED
    BY <1>1, <2>2, <2>3
<1> HIDE DEF a, m, z
<1>8. /\ a \o m \in Seq(C) /\ Len(a \o m) = p + n
      /\ \A i \in 1..(p + n) : (a \o m)[i] = IF i <= p THEN a[i] ELSE m[i - p]
  BY <1>5, <1>6, ConcatProperties
<1> DEFINE b == a \o m
<1>9. /\ b \o z \in Seq(C) /\ Len(b \o z) = p + n + (Len(text) - q)
      /\ \A i \in 1..(p + n + (Len(text) - q)) :
             (b \o z)[i] = IF i <= p + n THEN b[i] ELSE z[i - (p + n)]
  <2> HIDE DEF b
  <2>1. b \in Seq(C) /\ Len(b) = p + n
    BY <1>8 DEF b
  <2>2. /\ b \o z \in Seq(C) /\ Len(b \o z) = Len(b) + Len(z)
        /\ \A i \in 1..(Len(b) + Len(z)) :
               (b \o z)[i] = IF i <= Len(b) THEN b[i] ELSE z[i - Len(b)]
    BY <1>7, <2>1, ConcatProperties
  <2>3. Len(b) = p + n /\ Len(z) = Len(text) - q
    BY <1>7, <2>1
  <2> QED
    BY <2>2, <2>3
<1> DEFINE t == b \o z
<1> HIDE DEF b
<1>10. \A i \in 1..p : t[i] = text[i]
  <2> SUFFICES ASSUME NEW i \in 1..p PROVE t[i] = text[i]
    OBVIOUS
  <2>1. i \in 1..(p + n + (Len(text) - q)) /\ i <= p + n /\ i \in 1..(p + n) /\ i <= p
    BY <1>1
  <2>2. t[i] = b[i]
    BY <1>9, <2>1
  <2> QED
    BY <1>5, <1>8, <2>1, <2>2 DEF b
<1>11. \A i \in 1..(Len(text) - q) : t[p + n + i] = text[q + i]
  <2> SUFFICES ASSUME NEW i \in 1..(Len(text) - q) PROVE t[p + n + i] = text[q + i]
    OBVIOUS
  <2>1. /\ p + n + i \in 1..(p + n + (Len(text) - q)) /\ ~(p + n + i <= p + n)
        /\ (p + n + i) - (p + n) = i
    BY <1>1
  <2>2. t[p + n + i] = z[i]
    BY <1>9, <2>1
  <2> QED
    BY <1>7, <2>2
<1>12. \A i \in 1..n : t[p + i] = 0
  <2> SUFFICES ASSUME NEW i \in 1..n PROVE t[p + i] = 0
    OBVIOUS
  <2>1. /\ p + i \in 1..(p + n + (Len(text) - q)) /\ p + i <= p + n /\ p + i \in 1..(p + n)
        /\ ~(p + i <= p) /\ (p + i) - p = i
    BY <1>1
  <2>2. t[p + i] = b[p + i]
    BY <1>9, <2>1
  <2>3. b[p + i] = m[i]
    BY <1>8, <2>1 DEF b
  <2> QED
    BY <1>6, <2>2, <2>3
<1>13. t \in Seq(C) /\ Len(t) = Len(text) + n - (q - p)
  <2>1. p + n + (Len(text) - q) = Len(text) + n - (q - p)
    BY <1>1
  <2> QED
    BY <1>9, <2>1
<1> HIDE DEF t
<1>14. strbuf_replace(text, p, q, NewText(n)) = t
  BY <1>4 DEF b, t
<1>15. t \in Seq(0..MaxLen)
  BY <1>13 DEF C
<1> QED
  BY <1>10, <1>11, <1>13, <1>14, <1>15, <1>12

-----------------------------------------------------------------------------
(* What a search finds.                                                      *)
LEMMA SearchEndInText ==
    ASSUME buf \in Seq(0..MaxLen), NEW start \in 0..Len(buf), NEW end \in Nat
    PROVE  /\ SearchEnd(start, end) \in start..Len(buf)
           /\ start <= end => SearchEnd(start, end) <= end
  BY DEF SearchEnd, Smaller

LEMMA FoundInText ==
    ASSUME buf \in Seq(0..MaxLen), Len(buf) <= MaxLen, NEW regex,
           NEW start \in 0..Len(buf), NEW end \in Nat, NEW found \in Found(regex, start, end)
    PROVE  /\ found \in Matchspec /\ InText(found, Len(buf)) /\ start <= found.so
           /\ ~regex.nullable => found.so < found.eo
           /\ start <= end => found.eo <= end
<1> DEFINE e == SearchEnd(start, end)
<1>1. e \in start..Len(buf) /\ (start <= end => e <= end)
  BY SearchEndInText
<1> HIDE DEF e
<1>2. /\ found \in [so : start..e, eo : start..e]
      /\ found.so < found.eo \/ (found.so = found.eo /\ regex.nullable)
  BY DEF Found, e
<1>3. found.so \in start..e /\ found.eo \in start..e
  BY <1>2
<1>4. found \in Matchspec
  <2>1. found.so \in 0..(Modulus - 1) /\ found.eo \in 0..(Modulus - 1)
    BY <1>1, <1>3, Bounds
  <2> QED
    BY <1>2, <2>1 DEF Matchspec
<1> QED
  BY <1>1, <1>2, <1>3, <1>4 DEF InText

LEMMA SubmatchInText ==
    ASSUME buf \in Seq(0..MaxLen), Len(buf) <= MaxLen, NEW regex,
           NEW start \in 0..Len(buf), NEW found \in Matchspec, InText(found, Len(buf)),
           NEW sub \in Submatches(regex, start, found)
    PROVE  /\ sub \in Matchspec
           /\ \/ InText(sub, Len(buf)) /\ found.so <= sub.so /\ sub.eo <= found.eo
              \/ regex.optional /\ (InText(sub, Len(buf)) \/ Unset(sub))
<1>1. found.so \in 0..Len(buf) /\ found.eo \in found.so..Len(buf) /\ Len(buf) \in 0..MaxLen
  BY Bounds DEF InText
<1>2. CASE /\ sub \in [so : found.so..found.eo, eo : found.so..found.eo]
           /\ sub.so < sub.eo \/ sub.so = sub.eo
  <2>1. sub.so \in found.so..found.eo /\ sub.eo \in found.so..found.eo
    BY <1>2
  <2>2. sub.so \in 0..(Modulus - 1) /\ sub.eo \in 0..(Modulus - 1)
    BY <1>1, <2>1, Bounds
  <2> QED
    BY <1>1, <1>2, <2>1, <2>2 DEF Matchspec, InText
<1>3. CASE regex.optional /\ sub = SubmatchSpec(Unsigned(start - 1), Unsigned(start - 1))
  <2>1. CASE start = 0
    <3>1. Unsigned(start - 1) = Modulus - 1
      BY <2>1, MinusOne
    <3>2. sub = [so |-> Modulus - 1, eo |-> Modulus - 1]
      BY <1>3, <3>1 DEF SubmatchSpec
    <3>3. Modulus - 1 \in 0..(Modulus - 1)
      BY Bounds
    <3> QED
      BY <1>3, <3>2, <3>3 DEF Unset, Matchspec
  <2>2. CASE start # 0
    <3>1. start - 1 \in 0..MaxLen /\ start - 1 \in 0..Len(buf)
      BY <1>1, <2>2, Bounds
    <3>2. Unsigned(start - 1) = start - 1 /\ start - 1 \in 0..(Modulus - 1)
      BY <3>1, SmallNumbers
    <3>3. sub = [so |-> start - 1, eo |-> start - 1]
      BY <1>3, <3>2 DEF SubmatchSpec
    <3> QED
      BY <1>1, <1>3, <3>1, <3>2, <3>3 DEF InText, Matchspec
  <2> QED
    BY <2>1, <2>2
<1> QED
  BY <1>2, <1>3 DEF Submatches

LEMMA SubvInText ==
    ASSUME buf \in Seq(0..MaxLen), Len(buf) <= MaxLen, NEW regex, regex.nsub \in Nat,
           NEW start \in 0..Len(buf), NEW end \in Nat,
           NEW subv \in xregexec_substring(regex, start, end)
    PROVE  /\ subv \in Seq(Matchspec) /\ subv # <<>>
           /\ subv[1] \in Matchspec /\ InText(subv[1], Len(buf)) /\ start <= subv[1].so
           /\ ~regex.nullable => subv[1].so < subv[1].eo
           /\ start <= end => subv[1].eo <= end
           /\ \A c \in 2..Len(subv) :
                \/ /\ InText(subv[c], Len(buf))
                   /\ subv[1].so <= subv[c].so /\ subv[c].eo <= subv[1].eo
                \/ regex.optional /\ (InText(subv[c], Len(buf)) \/ Unset(subv[c]))
<1>0. PICK found \in Found(regex, start, end) :
        \E subs \in [1..regex.nsub -> Submatches(regex, start, found)] : subv = <<found>> \o subs
  BY DEF xregexec_substring
<1>1. PICK subs \in [1..regex.nsub -> Submatches(regex, start, found)] : subv = <<found>> \o subs
  BY <1>0
<1>2. /\ found \in Matchspec /\ InText(found, Len(buf)) /\ start <= found.so
      /\ ~regex.nullable => found.so < found.eo
      /\ start <= end => found.eo <= end
  BY FoundInText
<1>3. \A i \in 1..regex.nsub :
        /\ subs[i] \in Matchspec
        /\ \/ InText(subs[i], Len(buf)) /\ found.so <= subs[i].so /\ subs[i].eo <= found.eo
           \/ regex.optional /\ (InText(subs[i], Len(buf)) \/ Unset(subs[i]))
  BY <1>2, SubmatchInText
<1>4. subs \in Seq(Matchspec) /\ Len(subs) = regex.nsub
  <2>1. subs \in [1..regex.nsub -> Matchspec]
    BY <1>3
  <2> QED
    BY <2>1, FunctionIsSeq
<1>5. <<found>> \in Seq(Matchspec) /\ Len(<<found>>) = 1 /\ <<found>>[1] = found
  BY <1>2
<1>6. /\ subv \in Seq(Matchspec) /\ Len(subv) = 1 + regex.nsub
      /\ \A i \in 1..(1 + regex.nsub) : subv[i] = IF i <= 1 THEN <<found>>[i] ELSE subs[i - 1]
  <2> DEFINE one == <<found>>
  <2>1. one \in Seq(Matchspec) /\ Len(one) = 1
    BY <1>5
  <2> HIDE DEF one
  <2>2. /\ one \o subs \in Seq(Matchspec) /\ Len(one \o subs) = Len(one) + Len(subs)
        /\ \A i \in 1..(Len(one) + Len(subs)) :
              (one \o subs)[i] = IF i <= Len(one) THEN one[i] ELSE subs[i - Len(one)]
    BY <1>4, <2>1, ConcatProperties
  <2>3. subv = one \o subs
    BY <1>1 DEF one
  <2>4. /\ subv \in Seq(Matchspec) /\ Len(subv) = 1 + regex.nsub
        /\ \A i \in 1..(1 + regex.nsub) : subv[i] = IF i <= 1 THEN one[i] ELSE subs[i - 1]
    BY <1>4, <2>1, <2>2, <2>3
  <2> QED
    BY <2>4 DEF one
<1>7. subv[1] = found /\ subv # <<>>
  BY <1>5, <1>6
<1>8. \A c \in 2..Len(subv) : c - 1 \in 1..regex.nsub /\ subv[c] = subs[c - 1]
  BY <1>6
<1> QED
  BY <1>2, <1>3, <1>6, <1>7, <1>8

-----------------------------------------------------------------------------
(* What a replacement expands to.                                            *)
LEMMA PositionInText ==
    ASSUME NEW C, NEW text \in Seq(C), NEW p \in Nat
    PROVE  normalize_str_pos(text, p) \in Nat
<1>1. Len(text) \in Nat /\ Modulus \in Nat \ {0} /\ Signed(p) \in Int
  BY Bounds DEF Signed
<1> QED
  BY <1>1 DEF normalize_str_pos, Smaller, Larger

LEMMA LengthIsNat ==
    ASSUME NEW C, NEW text \in Seq(C), NEW p \in Nat, NEW q \in Nat
    PROVE  SubstringLength(text, p, q) \in Nat
<1>1. normalize_str_pos(text, p) \in Nat /\ normalize_str_pos(text, q) \in Nat
  BY PositionInText
<1> QED
  BY <1>1 DEF SubstringLength, Larger, Smaller

LEMMA PartIsNat ==
    ASSUME input \in Inputs, buf \in Seq(0..MaxLen), ctx \in Matchspec,
           NEW subv \in Seq(Matchspec), subv # <<>>, NEW part \in Parts
    PROVE  expand_part(part, subv) \subseteq Nat
<1>1. CASE part.var = "text"
  BY <1>1, InputsAssumption, Bounds DEF expand_part
<1>2. CASE part.var # "text"
  <2> DEFINE spec == Variable(part, subv)
  <2>1. subv[1] \in Matchspec /\ subv[1].so \in Nat /\ subv[1].eo \in Nat
    BY MatchspecFields
  <2>2. ctx.so \in Nat /\ ctx.eo \in Nat
    BY MatchspecFields
  <2>3. spec.so \in Nat /\ spec.eo \in Nat
    <3>1. CASE part.var = "before"
      BY <2>1, <2>2, <3>1 DEF Variable, SubmatchSpec
    <3>2. CASE part.var = "match"
      BY <2>1, <3>2 DEF Variable
    <3>3. CASE part.var = "after"
      BY <2>1, <2>2, <3>3 DEF Variable, SubmatchSpec
    <3>4. CASE part.var = "number"
      <4>1. part.index \in Nat
        BY <3>4 DEF Parts
      <4>2. CASE part.index < Len(subv)
        <5>1. subv[part.index + 1] \in Matchspec
          BY <4>1, <4>2
        <5>2. spec = subv[part.index + 1]
          BY <3>4, <4>2 DEF Variable
        <5> QED
          BY <5>1, <5>2, MatchspecFields
      <4>3. CASE ~(part.index < Len(subv))
        BY <3>4, <4>3 DEF Variable, SubmatchSpec
      <4> QED
        BY <4>2, <4>3
    <3> QED
      BY <1>2, <3>1, <3>2, <3>3, <3>4 DEF Parts
  <2> HIDE DEF spec
  <2>4. SubstringLength(buf, spec.so, spec.eo) \in Nat
    BY <2>3, LengthIsNat
  <2> QED
    BY <1>2, <2>4 DEF expand_part, expand_variable, spec
<1> QED
  BY <1>1, <1>2

(* The lengths are defined by recursion on the parts; a recursion of its own *)
(* shows that there is such a function, and that it gives lengths.           *)
LEMMA ExpansionIsNat ==
    ASSUME input \in Inputs, buf \in Seq(0..MaxLen), ctx \in Matchspec,
           NEW subv \in Seq(Matchspec), subv # <<>>, NEW repl \in Seq(Parts)
    PROVE  expand_substitution(repl, subv) \subseteq Nat
<1> DEFINE n == Len(repl)
           sums(s, k) == {len + more : len \in s, more \in expand_part(repl[k], subv)}
           body(f) == [k \in 0..n |-> IF k = 0 THEN {0} ELSE sums(f[k - 1], k)]
           step == [a \in Nat \X SUBSET Nat |-> IF a[1] < n THEN sums(a[2], a[1] + 1) ELSE {}]
<1>1. n \in Nat /\ \A k \in 1..n : repl[k] \in Parts
  OBVIOUS
<1>2. ASSUME NEW s \in SUBSET Nat, NEW k \in 1..n PROVE sums(s, k) \in SUBSET Nat
  <2>1. expand_part(repl[k], subv) \subseteq Nat
    BY <1>1, PartIsNat
  <2> DEFINE parts == expand_part(repl[k], subv)
  <2> HIDE DEF parts
  <2>2. parts \subseteq Nat
    BY <2>1 DEF parts
  <2>3. {len + more : len \in s, more \in parts} \subseteq Nat
    <3> SUFFICES ASSUME NEW e \in {len + more : len \in s, more \in parts} PROVE e \in Nat
      OBVIOUS
    <3>1. PICK len \in s, more \in parts : e = len + more
      OBVIOUS
    <3>2. len \in Nat /\ more \in Nat
      BY <2>2
    <3> QED
      BY <3>1, <3>2
  <2> QED
    BY <2>3 DEF parts
<1>3. step \in [Nat \X SUBSET Nat -> SUBSET Nat]
  <2> SUFFICES ASSUME NEW a \in Nat \X SUBSET Nat, a[1] < n
               PROVE  sums(a[2], a[1] + 1) \in SUBSET Nat
    OBVIOUS
  <2>1. a[1] + 1 \in 1..n /\ a[2] \in SUBSET Nat
    BY <1>1
  <2> HIDE DEF sums, n
  <2> QED
    BY <1>2, <2>1
<1>4. PICK f \in [Nat -> SUBSET Nat] : Recurses(f, {0}, step)
  <2> DEFINE P == SUBSET Nat
  <2>1. {0} \in P /\ step \in [Nat \X P -> P]
    BY <1>3
  <2> HIDE DEF step, P
  <2>2. \E f \in [Nat -> P] : Recurses(f, {0}, step)
    BY <2>1, Recursion
  <2> QED
    BY <2>2 DEF P
<1> DEFINE g == [k \in 0..n |-> f[k]]
<1>5. ASSUME NEW k \in 0..n, k # 0 PROVE g[k] = sums(g[k - 1], k)
  <2>1. k - 1 \in Nat /\ k - 1 < n /\ k - 1 \in 0..n /\ (k - 1) + 1 = k
    BY <1>1, <1>5
  <2>2. f[k] = step[<<k - 1, f[k - 1]>>]
    <3> HIDE DEF step, n
    <3>1. f[(k - 1) + 1] = step[<<k - 1, f[k - 1]>>]
      BY <1>4, <2>1 DEF Recurses
    <3> QED
      BY <2>1, <3>1
  <2>3. <<k - 1, f[k - 1]>> \in Nat \X SUBSET Nat
    BY <1>4, <2>1
  <2>4. f[k] = sums(f[k - 1], k)
    <3> HIDE DEF sums, n
    <3> QED
      BY <2>1, <2>2, <2>3
  <2> QED
    BY <2>1, <2>4
<1>6. g = body(g)
  <2>1. g[0] = {0}
    BY <1>1, <1>4 DEF Recurses
  <2> HIDE DEF sums
  <2> QED
    BY <1>5, <2>1
<1> DEFINE upto == CHOOSE h : h = body(h)
<1>7. upto = body(upto)
  <2> HIDE DEF body, g
  <2> QED
    BY <1>6
<1>8. expand_substitution(repl, subv) = upto[n]
  BY DEF expand_substitution
<1> HIDE DEF upto
<1>9. upto[0] = {0} /\ \A k \in 1..n : upto[k] = sums(upto[k - 1], k)
  <2>1. \A k \in 0..n : upto[k] = IF k = 0 THEN {0} ELSE sums(upto[k - 1], k)
    <3> HIDE DEF sums
    <3> QED
      BY <1>7
  <2>2. 0 \in 0..n /\ \A k \in 1..n : k \in 0..n /\ k # 0
    BY <1>1
  <2> HIDE DEF sums, n
  <2> QED
    BY <2>1, <2>2
<1> DEFINE T == {k \in Nat : k <= n => upto[k] \in SUBSET Nat}
<1>10. T \in SUBSET Nat /\ 0 \in T
  BY <1>9
<1>11. ASSUME NEW k \in Nat, k \in T PROVE k + 1 \in T
  <2> SUFFICES ASSUME k + 1 <= n PROVE upto[k + 1] \in SUBSET Nat
    OBVIOUS
  <2>1. k <= n /\ k + 1 \in 1..n /\ (k + 1) - 1 = k
    BY <1>1
  <2>2. upto[k] \in SUBSET Nat
    BY <1>11, <2>1
  <2>3. upto[k + 1] = sums(upto[k], k + 1)
    BY <1>9, <2>1
  <2> HIDE DEF sums
  <2> QED
    BY <1>2, <2>1, <2>2, <2>3
<1>12. T = Nat
  <2> HIDE DEF T
  <2> QED
    BY <1>10, <1>11, SetInduction
<1>13. upto[n] \in SUBSET Nat
  BY <1>1, <1>12
<1> QED
  BY <1>8, <1>13

-----------------------------------------------------------------------------
(* The types of the style ranges.                                            *)
LEMMA RangeFields ==
    ASSUME NEW r \in Ranges!StyleRange
    PROVE  /\ r.style \in Styles /\ r.so \in Nat /\ r.eo \in Nat
           /\ \A p \in Nat : [r EXCEPT !.so = p] \in Ranges!StyleRange
  BY DEF Ranges!StyleRange

LEMMA NewRange ==
    ASSUME NEW st \in Styles, NEW p \in Nat, NEW q \in Nat
    PROVE  Ranges!new_style_range(st, p, q) \in Ranges!StyleRange
  BY DEF Ranges!new_style_range, Ranges!StyleRange

LEMMA PieceTyped ==
    ASSUME NEW S, NEW list \in Seq(S), NEW m \in Nat \ {0}, NEW n \in Nat, n <= Len(list)
    PROVE  SubSeq(list, m, n) \in Seq(S)
<1>1. m \in Int /\ n \in Int /\ \A i \in m..n : list[i] \in S
  OBVIOUS
<1> QED
  BY <1>1, SubSeqProperties

LEMMA ConcatTyped ==
    ASSUME NEW S, NEW a \in Seq(S), NEW b \in Seq(S)
    PROVE  a \o b \in Seq(S)
  BY ConcatProperties

LEMMA TrimTyped ==
    ASSUME NEW list \in Seq(Ranges!StyleRange), NEW n \in Nat \ {0}, NEW g \in n..Len(list),
           NEW p \in Nat, NEW q \in Nat
    PROVE  Ranges!Trim(list, n, g, p, q) \in Seq(Ranges!StyleRange)
<1> DEFINE t == Ranges!Trim(list, n, g, p, q)
<1>1. g - n + 1 \in Nat
  OBVIOUS
<1>2. ASSUME NEW i \in 1..(g - n + 1)
      PROVE  Ranges!new_style_range(list[n + i - 1].style, p, q) \in Ranges!StyleRange
  <2>1. n + i - 1 \in 1..Len(list)
    OBVIOUS
  <2>2. list[n + i - 1] \in Ranges!StyleRange
    BY <2>1
  <2> QED
    BY <2>2, RangeFields, NewRange
<1>3. t \in [1..(g - n + 1) -> Ranges!StyleRange]
  BY <1>2 DEF Ranges!Trim
<1> HIDE DEF t
<1> QED
  BY <1>1, <1>3, FunctionIsSeq DEF t

LEMMA InsertTyped ==
    ASSUME NEW S, NEW list \in Seq(S), NEW n \in Nat \ {0}, n <= Len(list) + 1, NEW r \in S
    PROVE  Ranges!InsertAt(list, n, r) \in Seq(S)
<1>1. n - 1 \in Nat /\ n - 1 <= Len(list) /\ Len(list) \in Nat /\ <<r>> \in Seq(S)
  OBVIOUS
<1>2. SubSeq(list, 1, n - 1) \in Seq(S) /\ SubSeq(list, n, Len(list)) \in Seq(S)
  BY <1>1, PieceTyped
<1>3. SubSeq(list, 1, n - 1) \o <<r>> \in Seq(S)
  BY <1>1, <1>2, ConcatTyped
<1>4. (SubSeq(list, 1, n - 1) \o <<r>>) \o SubSeq(list, n, Len(list)) \in Seq(S)
  BY <1>2, <1>3, ConcatTyped
<1> QED
  BY <1>4 DEF Ranges!InsertAt

LEMMA InsertKeepsLength ==
    ASSUME NEW S, NEW list \in Seq(S), NEW n \in 1..Len(list), NEW r \in S
    PROVE  Len(Ranges!InsertAt(list, n, r)) = Len(list) + 1
<1>1. n - 1 \in Int /\ n \in Int /\ 1 \in Int /\ Len(list) \in Nat /\ <<r>> \in Seq(S)
      /\ Len(<<r>>) = 1 /\ \A i \in 1..Len(list) : list[i] \in S
  OBVIOUS
<1> DEFINE a == SubSeq(list, 1, n - 1)
           b == SubSeq(list, n, Len(list))
<1>2. a \in Seq(S) /\ Len(a) = IF 1 <= n - 1 THEN n - 1 - 1 + 1 ELSE 0
  <2>1. \A i \in 1..(n - 1) : list[i] \in S
    BY <1>1
  <2> QED
    BY <1>1, <2>1, SubSeqProperties
<1>3. b \in Seq(S) /\ Len(b) = IF n <= Len(list) THEN Len(list) - n + 1 ELSE 0
  <2>1. \A i \in n..Len(list) : list[i] \in S
    BY <1>1
  <2> QED
    BY <1>1, <2>1, SubSeqProperties
<1> HIDE DEF a, b
<1> DEFINE one == <<r>>
<1>4. one \in Seq(S) /\ Len(one) = 1
  BY <1>1
<1> HIDE DEF one
<1>5. a \o one \in Seq(S) /\ Len(a \o one) = Len(a) + 1
  <2>1. a \o one \in Seq(S) /\ Len(a \o one) = Len(a) + Len(one)
    BY <1>2, <1>4, ConcatProperties
  <2> QED
    BY <1>4, <2>1
<1>6. Len((a \o one) \o b) = Len(a \o one) + Len(b)
  BY <1>3, <1>5, ConcatProperties
<1>7. Len((a \o one) \o b) = Len(list) + 1
  <2>1. Len(a) = n - 1 /\ Len(b) = Len(list) - n + 1
    BY <1>1, <1>2, <1>3
  <2>2. (n - 1) + 1 + (Len(list) - n + 1) = Len(list) + 1
    BY <1>1
  <2> QED
    BY <1>5, <1>6, <2>1, <2>2
<1> QED
  BY <1>7 DEF Ranges!InsertAt, a, b, one

LEMMA Insort1Typed ==
    ASSUME NEW list \in Seq(Ranges!StyleRange), NEW g \in 1..Len(list),
           NEW a \in Ranges!StyleRange
    PROVE  Ranges!insort_style1(list, g, a) \in Seq(Ranges!StyleRange)
<1>1. g + 1 \in Nat \ {0} /\ g + 1 <= Len(list) + 1
  OBVIOUS
<1> QED
  BY <1>1, InsertTyped DEF Ranges!insort_style1, Ranges!lnode_add_after

LEMMA Insort2Typed ==
    ASSUME NEW list \in Seq(Ranges!StyleRange), NEW n \in Nat \ {0}, NEW g \in n..Len(list),
           NEW p2 \in Nat, NEW a \in Seq(Ranges!StyleRange), NEW b \in Seq(Ranges!StyleRange)
    PROVE  Ranges!insort_style2(list, n, g, p2, a, b) \in Seq(Ranges!StyleRange)
<1> DEFINE x == Ranges!Trim(list, n, g, list[n].so, p2)
           y == Ranges!Trim(list, n, g, p2, list[n].eo)
           before == SubSeq(list, 1, n - 1)
           behind == SubSeq(list, g + 1, Len(list))
           SR == Seq(Ranges!StyleRange)
<1>1. n \in 1..Len(list) /\ list[n] \in Ranges!StyleRange
  OBVIOUS
<1>2. list[n].so \in Nat /\ list[n].eo \in Nat
  BY <1>1, RangeFields
<1>3. x \in SR /\ y \in SR
  BY <1>2, TrimTyped
<1>4. before \in SR /\ behind \in SR
  <2>1. /\ 1 \in Nat \ {0} /\ n - 1 \in Nat /\ n - 1 <= Len(list)
        /\ g + 1 \in Nat \ {0} /\ Len(list) \in Nat /\ Len(list) <= Len(list)
    BY <1>1
  <2> QED
    BY <2>1, PieceTyped
<1>5. Ranges!insort_style2(list, n, g, p2, a, b)
        = (before \o ((x \o a) \o (y \o b))) \o behind
  BY DEF Ranges!insort_style2
<1> HIDE DEF x, y, before, behind
<1>6. (x \o a) \o (y \o b) \in SR
  BY <1>3, ConcatTyped
<1>7. before \o ((x \o a) \o (y \o b)) \in SR
  BY <1>4, <1>6, ConcatTyped
<1>8. (before \o ((x \o a) \o (y \o b))) \o behind \in SR
  BY <1>4, <1>7, ConcatTyped
<1> QED
  BY <1>5, <1>8

LEMMA Insort3Typed ==
    ASSUME NEW list \in Seq(Ranges!StyleRange), NEW n \in Nat \ {0}, NEW g \in n..Len(list),
           NEW b \in Ranges!StyleRange
    PROVE  Ranges!insort_style3(list, n, g, b) \in Seq(Ranges!StyleRange)
<1> DEFINE x == Ranges!Trim(list, n, g, list[n].so, b.so)
           y == Ranges!Trim(list, n, g, b.so, b.eo)
           z == Ranges!Trim(list, n, g, b.eo, list[n].eo)
           before == SubSeq(list, 1, n - 1)
           behind == SubSeq(list, g + 1, Len(list))
           SR == Seq(Ranges!StyleRange)
<1>1. n \in 1..Len(list) /\ list[n] \in Ranges!StyleRange
  OBVIOUS
<1>2. list[n].so \in Nat /\ list[n].eo \in Nat /\ b.so \in Nat /\ b.eo \in Nat
  BY <1>1, RangeFields
<1>3. x \in SR /\ y \in SR /\ z \in SR
  BY <1>2, TrimTyped
<1>4. before \in SR /\ behind \in SR
  <2>1. /\ 1 \in Nat \ {0} /\ n - 1 \in Nat /\ n - 1 <= Len(list)
        /\ g + 1 \in Nat \ {0} /\ Len(list) \in Nat /\ Len(list) <= Len(list)
    BY <1>1
  <2> QED
    BY <2>1, PieceTyped
<1> DEFINE one == <<b>>
<1>5. Ranges!insort_style3(list, n, g, b)
        = (before \o (x \o ((y \o one) \o z))) \o behind
  BY DEF Ranges!insort_style3
<1>6. one \in SR
  OBVIOUS
<1> HIDE DEF x, y, z, before, behind, one
<1>7. x \o ((y \o one) \o z) \in SR
  BY <1>3, <1>6, ConcatTyped
<1>8. before \o (x \o ((y \o one) \o z)) \in SR
  BY <1>4, <1>7, ConcatTyped
<1>9. (before \o (x \o ((y \o one) \o z))) \o behind \in SR
  BY <1>4, <1>8, ConcatTyped
<1> QED
  BY <1>5, <1>9

LEMMA ReturnTyped ==
    ASSUME RangesTyped, NEW list \in Seq(Ranges!StyleRange), Ranges!Return(list)
    PROVE  RangesTyped'
  BY DEF RangesTyped, Ranges!TypeOK, Ranges!Return, Ranges!NoRange

LEMMA ContinueTyped ==
    ASSUME RangesTyped, NEW list \in Seq(Ranges!StyleRange), NEW last \in Nat,
           NEW rest \in Ranges!StyleRange, Ranges!Continue(list, last, rest)
    PROVE  RangesTyped'
<1>1. last + 1 \in Nat /\ last + 1 >= 1
  OBVIOUS
<1> QED
  BY <1>1 DEF RangesTyped, Ranges!TypeOK, Ranges!Continue

LEMMA AtNodeTyped ==
    ASSUME RangesTyped, Ranges!AtNode
    PROVE  /\ styles \in Seq(Ranges!StyleRange) /\ node \in 1..Len(styles)
           /\ node \in Nat \ {0} /\ Len(styles) \in Nat
           /\ s1 \in Ranges!StyleRange /\ Ranges!s2 \in Ranges!StyleRange
           /\ s1.style \in Styles /\ s1.so \in Nat /\ s1.eo \in Nat
           /\ Ranges!s2.so \in Nat /\ Ranges!s2.eo \in Nat
           /\ <<s1>> \in Seq(Ranges!StyleRange)
           /\ [s1 EXCEPT !.so = Ranges!s2.so] \in Ranges!StyleRange
           /\ [s1 EXCEPT !.so = Ranges!s2.eo] \in Ranges!StyleRange
           /\ Ranges!new_style_range(s1.style, Ranges!s2.so, Ranges!s2.eo) \in Ranges!StyleRange
           /\ \A g \in Ranges!g2 : g \in node..Len(styles) /\ g \in 1..Len(styles) /\ g \in Nat
<1>1. styles \in Seq(Ranges!StyleRange) /\ node \in 1..Len(styles) /\ Len(styles) \in Nat
      /\ s1 \in Ranges!StyleRange
  BY DEF RangesTyped, Ranges!TypeOK, Ranges!AtNode
<1>2. Ranges!s2 \in Ranges!StyleRange
  BY <1>1 DEF Ranges!s2
<1>3. s1.style \in Styles /\ s1.so \in Nat /\ s1.eo \in Nat
  BY <1>1, RangeFields
<1>4. Ranges!s2.so \in Nat /\ Ranges!s2.eo \in Nat
  BY <1>2, RangeFields
<1>5. [s1 EXCEPT !.so = Ranges!s2.so] \in Ranges!StyleRange
      /\ [s1 EXCEPT !.so = Ranges!s2.eo] \in Ranges!StyleRange
  BY <1>1, <1>4, RangeFields
<1>6. Ranges!new_style_range(s1.style, Ranges!s2.so, Ranges!s2.eo) \in Ranges!StyleRange
  BY <1>3, <1>4, NewRange
<1>7. \A g \in Ranges!g2 : g \in node..Len(styles) /\ g \in 1..Len(styles) /\ g \in Nat
  BY <1>1 DEF Ranges!g2, Ranges!GroupEnds
<1> QED
  BY <1>1, <1>2, <1>3, <1>4, <1>5, <1>6, <1>7

LEMMA FrontedTyped ==
    ASSUME RangesTyped, Ranges!AtNode
    PROVE  /\ Ranges!Fronted \in Seq(Ranges!StyleRange)
           /\ \A g \in Ranges!g2 : /\ g + 1 \in 1..Len(Ranges!Fronted)
                                    /\ g + 1 \in (node + 1)..Len(Ranges!Fronted)
           /\ node + 1 \in Nat \ {0}
<1>1. Ranges!new_style_range(s1.style, s1.so, Ranges!s2.so) \in Ranges!StyleRange
  BY AtNodeTyped, NewRange
<1> DEFINE r == Ranges!new_style_range(s1.style, s1.so, Ranges!s2.so)
<1>2. Ranges!Fronted = Ranges!InsertAt(styles, node, r)
  BY DEF Ranges!Fronted, Ranges!lnode_add_before
<1> HIDE DEF r
<1>3. /\ styles \in Seq(Ranges!StyleRange) /\ node \in 1..Len(styles)
      /\ node \in Nat \ {0} /\ Len(styles) \in Nat /\ node <= Len(styles) + 1
  BY AtNodeTyped
<1>4. Ranges!Fronted \in Seq(Ranges!StyleRange) /\ Len(Ranges!Fronted) = Len(styles) + 1
  BY <1>1, <1>2, <1>3, InsertTyped, InsertKeepsLength DEF r
<1>5. \A g \in Ranges!g2 : g \in node..Len(styles)
  BY AtNodeTyped
<1> QED
  BY <1>3, <1>4, <1>5

(* Every step of insert_style keeps the types of the ranges.                 *)
LEMMA InsertStyleTyped ==
    ASSUME RangesTyped, Ranges!Step
    PROVE  RangesTyped'
<1>1. CASE Ranges!Case5
  <2>1. PICK g \in Ranges!g2 : Ranges!Return(Ranges!insort_style1(styles, g, s1))
    BY <1>1 DEF Ranges!Case5
  <2>2. Ranges!insort_style1(styles, g, s1) \in Seq(Ranges!StyleRange)
    BY <1>1, AtNodeTyped, Insort1Typed DEF Ranges!Case5
  <2> QED
    BY <2>1, <2>2, ReturnTyped
<1>2. CASE Ranges!Case6
  <2>1. PICK g \in Ranges!g2 :
          Ranges!Return(Ranges!insort_style2(styles, node, g, s1.eo, <<s1>>, <<>>))
    BY <1>2 DEF Ranges!Case6
  <2>2. <<>> \in Seq(Ranges!StyleRange)
    OBVIOUS
  <2>3. Ranges!insort_style2(styles, node, g, s1.eo, <<s1>>, <<>>) \in Seq(Ranges!StyleRange)
    BY <1>2, <2>2, AtNodeTyped, Insort2Typed DEF Ranges!Case6
  <2> QED
    BY <2>1, <2>3, ReturnTyped
<1>3. CASE Ranges!Case7
  <2> DEFINE r == Ranges!new_style_range(s1.style, Ranges!s2.so, Ranges!s2.eo)
  <2>1. CASE s1.so > old_so
    <3>1. PICK g \in Ranges!g2 : Ranges!Continue(Ranges!insort_style1(styles, g, r), g + 1, s1)
      BY <1>3, <2>1 DEF Ranges!Case7
    <3>2. Ranges!insort_style1(styles, g, r) \in Seq(Ranges!StyleRange) /\ g + 1 \in Nat
          /\ s1 \in Ranges!StyleRange
      <4>1. Ranges!AtNode
        BY <1>3 DEF Ranges!Case7
      <4>2. r \in Ranges!StyleRange /\ s1 \in Ranges!StyleRange
        BY <4>1, AtNodeTyped
      <4>3. styles \in Seq(Ranges!StyleRange) /\ g \in 1..Len(styles) /\ g + 1 \in Nat
        BY <4>1, AtNodeTyped
      <4> HIDE DEF r
      <4> QED
        BY <4>2, <4>3, Insort1Typed
    <3> QED
      BY <3>1, <3>2, ContinueTyped
  <2>2. CASE ~(s1.so > old_so)
    <3>1. Ranges!Continue(styles, node, s1)
      BY <1>3, <2>2 DEF Ranges!Case7
    <3> QED
      BY <1>3, <3>1, AtNodeTyped, ContinueTyped DEF Ranges!Case7
  <2> QED
    BY <2>1, <2>2
<1>4. CASE Ranges!Before
  <2>1. Ranges!Return(Ranges!InsertAt(styles, node, s1))
    BY <1>4 DEF Ranges!Before, Ranges!lnode_add_before
  <2>2. Ranges!InsertAt(styles, node, s1) \in Seq(Ranges!StyleRange)
    <3>1. node <= Len(styles) + 1
      BY <1>4, AtNodeTyped DEF Ranges!Before
    <3> QED
      BY <1>4, <3>1, AtNodeTyped, InsertTyped DEF Ranges!Before
  <2> QED
    BY <2>1, <2>2, ReturnTyped
<1>5. CASE Ranges!Case1
  <2>1. PICK g \in Ranges!g2 : Ranges!Return(Ranges!insort_style1(styles, g, s1))
    BY <1>5 DEF Ranges!Case1
  <2>2. Ranges!insort_style1(styles, g, s1) \in Seq(Ranges!StyleRange)
    BY <1>5, AtNodeTyped, Insort1Typed DEF Ranges!Case1, Ranges!Overlap
  <2> QED
    BY <2>1, <2>2, ReturnTyped
<1>6. CASE Ranges!Case2a
  <2>1. PICK g \in Ranges!g2 :
          Ranges!Return(Ranges!insort_style2(styles, node, g, s1.eo, <<s1>>, <<>>))
    BY <1>6 DEF Ranges!Case2a
  <2>2. <<>> \in Seq(Ranges!StyleRange)
    OBVIOUS
  <2>3. Ranges!insort_style2(styles, node, g, s1.eo, <<s1>>, <<>>) \in Seq(Ranges!StyleRange)
    BY <1>6, <2>2, AtNodeTyped, Insort2Typed DEF Ranges!Case2a, Ranges!Overlap
  <2> QED
    BY <2>1, <2>3, ReturnTyped
<1>7. CASE Ranges!Case2b
  <2>1. PICK g \in Ranges!g2 :
          Ranges!Return(Ranges!insort_style2(styles, node, g, s1.so, <<>>, <<s1>>))
    BY <1>7 DEF Ranges!Case2b
  <2>2. <<>> \in Seq(Ranges!StyleRange)
    OBVIOUS
  <2>3. Ranges!insort_style2(styles, node, g, s1.so, <<>>, <<s1>>) \in Seq(Ranges!StyleRange)
    BY <1>7, <2>2, AtNodeTyped, Insort2Typed DEF Ranges!Case2b, Ranges!Overlap
  <2> QED
    BY <2>1, <2>3, ReturnTyped
<1>8. CASE Ranges!Case2c
  <2>1. PICK g \in Ranges!g2 : Ranges!Return(Ranges!insort_style3(styles, node, g, s1))
    BY <1>8 DEF Ranges!Case2c
  <2>2. Ranges!insort_style3(styles, node, g, s1) \in Seq(Ranges!StyleRange)
    BY <1>8, AtNodeTyped, Insort3Typed DEF Ranges!Case2c, Ranges!Overlap
  <2> QED
    BY <2>1, <2>2, ReturnTyped
<1>9. CASE Ranges!Case3a
  <2> DEFINE r == Ranges!new_style_range(s1.style, Ranges!s2.so, Ranges!s2.eo)
             rest == [s1 EXCEPT !.so = Ranges!s2.eo]
  <2>1. PICK g \in Ranges!g2 : Ranges!Continue(Ranges!insort_style1(styles, g, r), g + 1, rest)
    BY <1>9 DEF Ranges!Case3a
  <2>2. Ranges!insort_style1(styles, g, r) \in Seq(Ranges!StyleRange) /\ g + 1 \in Nat
        /\ rest \in Ranges!StyleRange
    <3>1. Ranges!AtNode
      BY <1>9 DEF Ranges!Case3a, Ranges!Overlap
    <3>2. r \in Ranges!StyleRange /\ rest \in Ranges!StyleRange
      BY <3>1, AtNodeTyped
    <3>3. styles \in Seq(Ranges!StyleRange) /\ g \in 1..Len(styles) /\ g + 1 \in Nat
      BY <3>1, AtNodeTyped
    <3> HIDE DEF r
    <3> QED
      BY <3>2, <3>3, Insort1Typed
  <2> QED
    BY <2>1, <2>2, ContinueTyped
<1>10. CASE Ranges!Case3b
  <2> DEFINE rest == [s1 EXCEPT !.so = Ranges!s2.so]
  <2>1. PICK g \in Ranges!g2 :
          Ranges!Return(Ranges!insort_style1(Ranges!Fronted, g + 1, rest))
    BY <1>10 DEF Ranges!Case3b
  <2>2. Ranges!insort_style1(Ranges!Fronted, g + 1, rest) \in Seq(Ranges!StyleRange)
    BY <1>10, AtNodeTyped, FrontedTyped, Insort1Typed DEF Ranges!Case3b, Ranges!Overlap
  <2> QED
    BY <2>1, <2>2, ReturnTyped
<1>11. CASE Ranges!Case3c
  <2> DEFINE r == Ranges!new_style_range(s1.style, Ranges!s2.so, Ranges!s2.eo)
             rest == [s1 EXCEPT !.so = Ranges!s2.eo]
  <2>1. PICK g \in Ranges!g2 :
          Ranges!Continue(Ranges!insort_style1(Ranges!Fronted, g + 1, r), g + 2, rest)
    BY <1>11 DEF Ranges!Case3c
  <2>2. Ranges!insort_style1(Ranges!Fronted, g + 1, r) \in Seq(Ranges!StyleRange)
        /\ g + 2 \in Nat /\ rest \in Ranges!StyleRange
    <3>1. Ranges!AtNode
      BY <1>11 DEF Ranges!Case3c, Ranges!Overlap
    <3>2. r \in Ranges!StyleRange /\ rest \in Ranges!StyleRange /\ g \in Nat
      BY <3>1, AtNodeTyped
    <3>3. Ranges!Fronted \in Seq(Ranges!StyleRange) /\ g + 1 \in 1..Len(Ranges!Fronted)
      BY <3>1, FrontedTyped
    <3> HIDE DEF r
    <3> QED
      BY <3>2, <3>3, Insort1Typed
  <2> QED
    BY <2>1, <2>2, ContinueTyped
<1>12. CASE Ranges!Case4a
  <2> DEFINE rest == [s1 EXCEPT !.so = Ranges!s2.so]
  <2>1. PICK g \in Ranges!g2 :
          Ranges!Return(Ranges!insort_style2(Ranges!Fronted, node + 1, g + 1, s1.eo,
                                             <<rest>>, <<>>))
    BY <1>12 DEF Ranges!Case4a
  <2>2. <<>> \in Seq(Ranges!StyleRange) /\ <<rest>> \in Seq(Ranges!StyleRange)
    <3>1. rest \in Ranges!StyleRange
      BY <1>12, AtNodeTyped DEF Ranges!Case4a, Ranges!Overlap
    <3> QED
      BY <3>1
  <2>3. Ranges!insort_style2(Ranges!Fronted, node + 1, g + 1, s1.eo, <<rest>>, <<>>)
          \in Seq(Ranges!StyleRange)
    BY <1>12, <2>2, AtNodeTyped, FrontedTyped, Insort2Typed DEF Ranges!Case4a, Ranges!Overlap
  <2> QED
    BY <2>1, <2>3, ReturnTyped
<1>13. CASE Ranges!Case4b
  <2> DEFINE r == Ranges!new_style_range(s1.style, s1.so, Ranges!s2.eo)
             rest == [s1 EXCEPT !.so = Ranges!s2.eo]
  <2>1. PICK g \in Ranges!g2 :
          Ranges!Continue(Ranges!insort_style2(styles, node, g, s1.so, <<>>, <<r>>),
                          g + (g - node) + 2, rest)
    BY <1>13 DEF Ranges!Case4b
  <2>2. <<>> \in Seq(Ranges!StyleRange) /\ <<r>> \in Seq(Ranges!StyleRange)
    <3>1. r \in Ranges!StyleRange
      BY <1>13, AtNodeTyped, NewRange DEF Ranges!Case4b, Ranges!Overlap
    <3> QED
      BY <3>1
  <2>3. Ranges!insort_style2(styles, node, g, s1.so, <<>>, <<r>>) \in Seq(Ranges!StyleRange)
    BY <1>13, <2>2, AtNodeTyped, Insort2Typed DEF Ranges!Case4b, Ranges!Overlap
  <2>4. g + (g - node) + 2 \in Nat /\ rest \in Ranges!StyleRange
    BY <1>13, AtNodeTyped DEF Ranges!Case4b, Ranges!Overlap
  <2> QED
    BY <2>1, <2>3, <2>4, ContinueTyped
<1>14. CASE Ranges!Past
  <2>1. Ranges!Continue(styles, node, s1)
    BY <1>14 DEF Ranges!Past
  <2> QED
    BY <1>14, <2>1, AtNodeTyped, ContinueTyped DEF Ranges!Past
<1>15. CASE Ranges!AppendRest
  <2>1. Ranges!Return(Append(styles, s1)) /\ pc = "loop"
    BY <1>15 DEF Ranges!AppendRest
  <2>2. Append(styles, s1) \in Seq(Ranges!StyleRange)
    BY <2>1 DEF RangesTyped, Ranges!TypeOK
  <2> QED
    BY <2>1, <2>2, ReturnTyped
<1> QED
  BY <1>1, <1>2, <1>3, <1>4, <1>5, <1>6, <1>7, <1>8, <1>9, <1>10, <1>11, <1>12, <1>13,
     <1>14, <1>15 DEF Ranges!Step

LEMMA CallTyped ==
    ASSUME RangesTyped, NEW st \in Styles, NEW so \in Nat, NEW eo \in Nat,
           Ranges!Call(st, so, eo)
    PROVE  RangesTyped'
<1>1. Ranges!new_style_range(st, so, eo) \in Ranges!StyleRange
  BY NewRange
<1> QED
  BY <1>1 DEF RangesTyped, Ranges!TypeOK, Ranges!Call

LEMMA ClearTyped ==
    ASSUME RangesTyped, Ranges!Clear
    PROVE  RangesTyped'
  BY DEF RangesTyped, Ranges!TypeOK, Ranges!Clear, Ranges!locals

LEMMA StepBusy ==
    ASSUME Ranges!Step PROVE pc = "loop"
  BY DEF Ranges!Step, Ranges!Case5, Ranges!Case6, Ranges!Case7, Ranges!Before, Ranges!Case1,
         Ranges!Case2a, Ranges!Case2b, Ranges!Case2c, Ranges!Case3a, Ranges!Case3b,
         Ranges!Case3c, Ranges!Case4a, Ranges!Case4b, Ranges!Past, Ranges!AppendRest,
         Ranges!Overlap, Ranges!AtNode

-----------------------------------------------------------------------------
(* The contexts.                                                             *)
LEMMA WithinTransitive ==
    ASSUME NEW in, NEW x \in Matchspec, NEW y \in Matchspec, NEW z \in Matchspec,
           Within(in, x, y), Within(in, y, z)
    PROVE  Within(in, x, z)
<1>1. /\ x.so \in Nat /\ y.so \in Nat /\ z.so \in Nat
      /\ x.eo \in Nat /\ y.eo \in Nat /\ z.eo \in Nat
  BY MatchspecFields
<1> QED
  BY <1>1 DEF Within

LEMMA WithinSelf ==
    ASSUME NEW in, NEW x \in Matchspec
    PROVE  Within(in, x, x)
  BY MatchspecFields DEF Within

LEMMA InnermostContext ==
    ASSUME NEW in, NEW m, NEW len \in Nat, Chain(in, m, len)
    PROVE  /\ m \in Seq(Context) /\ Len(m) \in Nat \ {0} /\ Last(m) = m[Len(m)]
           /\ SubvOK(in, Last(m).subv, len) /\ Last(m).subv \in Seq(Matchspec)
           /\ Last(m).subv # <<>>
           /\ Last(m).subv[1] \in Matchspec /\ InText(Last(m).subv[1], len)
           /\ Last(m).subv[1].so \in 0..len /\ Last(m).subv[1].eo \in Last(m).subv[1].so..len
           /\ Last(m).subv[1].eo \in 0..len
<1>1. m \in Seq(Context) /\ Len(m) \in Nat \ {0} /\ Last(m) = m[Len(m)]
  BY LastFrame DEF Chain
<1>2. SubvOK(in, Last(m).subv, len)
  BY <1>1 DEF Chain
<1>3. /\ Last(m).subv \in Seq(Matchspec) /\ Last(m).subv # <<>>
      /\ Last(m).subv[1] \in Matchspec /\ InText(Last(m).subv[1], len)
  BY <1>2 DEF SubvOK
<1> QED
  BY <1>1, <1>2, <1>3 DEF InText

LEMMA PushContext ==
    ASSUME NEW in, NEW m, NEW len \in Nat, Chain(in, m, len), NEW v, SubvOK(in, v, len),
           Within(in, Last(m).subv[1], v[1])
    PROVE  /\ Chain(in, Append(m, new_match_state(v)), len)
           /\ Len(Append(m, new_match_state(v))) = Len(m) + 1
           /\ Last(Append(m, new_match_state(v))).subv = v
<1> DEFINE f == new_match_state(v)
           a == Append(m, f)
           n == Len(m)
<1>1. f \in Context /\ f.subv = v
  BY DEF new_match_state, Context, SubvOK
<1>2. m \in Seq(Context) /\ n \in Nat \ {0} /\ Last(m) = m[n]
  BY InnermostContext
<1> HIDE DEF f
<1>3. /\ a \in Seq(Context) /\ Len(a) = n + 1 /\ Last(a) = f /\ a # <<>>
      /\ \A i \in 1..n : a[i] = m[i]
      /\ a[n + 1] = f
  BY <1>1, <1>2, PushFrame
<1> HIDE DEF a
<1>4. v[1] \in Matchspec /\ \A d \in 1..n : m[d].subv[1] \in Matchspec
  BY DEF Chain, SubvOK
<1>5. \A d \in 1..n : Within(in, m[d].subv[1], v[1])
  <2> SUFFICES ASSUME NEW d \in 1..n PROVE Within(in, m[d].subv[1], v[1])
    OBVIOUS
  <2>1. CASE d = n
    BY <1>2, <2>1
  <2>2. CASE d < n
    <3>1. Within(in, m[d].subv[1], m[n].subv[1]) /\ n \in 1..n
      BY <1>2, <2>2 DEF Chain
    <3> HIDE DEF n
    <3> QED
      BY <1>2, <1>4, <3>1, WithinTransitive
  <2> QED
    BY <1>2, <2>1, <2>2
<1>6. \A d \in 1..(n + 1) : SubvOK(in, a[d].subv, len)
  <2>1. \A d \in 1..n : SubvOK(in, a[d].subv, len)
    BY <1>3 DEF Chain
  <2> QED
    BY <1>1, <1>2, <1>3, <2>1
<1>7. \A d, e \in 1..(n + 1) : d < e => Within(in, a[d].subv[1], a[e].subv[1])
  <2> SUFFICES ASSUME NEW d \in 1..(n + 1), NEW e \in 1..(n + 1), d < e
               PROVE  Within(in, a[d].subv[1], a[e].subv[1])
    OBVIOUS
  <2>1. d \in 1..n /\ a[d] = m[d]
    BY <1>2, <1>3
  <2>2. CASE e = n + 1
    BY <1>1, <1>3, <1>5, <2>1, <2>2
  <2>3. CASE e \in 1..n
    BY <1>3, <2>1, <2>3 DEF Chain
  <2> QED
    BY <1>2, <2>2, <2>3
<1>8. a[1].subv[1] = SubmatchSpec(0, len)
  BY <1>2, <1>3 DEF Chain
<1>9. Chain(in, a, len)
  BY <1>3, <1>6, <1>7, <1>8 DEF Chain
<1> QED
  BY <1>1, <1>3, <1>9 DEF a, f

LEMMA PopContext ==
    ASSUME NEW in, NEW m, NEW len \in Nat, Chain(in, m, len), Len(m) >= 2
    PROVE  /\ Chain(in, Front(m), len) /\ Len(Front(m)) = Len(m) - 1
           /\ Within(in, Last(Front(m)).subv[1], Last(m).subv[1])
<1> DEFINE q == Front(m)
           n == Len(m)
<1>1. m \in Seq(Context) /\ n \in Nat \ {0} /\ Last(m) = m[n]
  BY InnermostContext
<1>2. q \in Seq(Context) /\ Len(q) = n - 1 /\ \A i \in 1..(n - 1) : q[i] = m[i]
  BY <1>1, PopFrame
<1> HIDE DEF q
<1>3. n - 1 \in 1..n /\ n - 1 \in 1..(n - 1) /\ 1 \in 1..(n - 1) /\ n \in 1..n /\ n - 1 < n
      /\ \A d \in 1..(n - 1) : d \in 1..n
  BY <1>1
<1>4. q # <<>> /\ Last(q) = m[n - 1]
  BY <1>2, <1>3 DEF Last
<1>5. Within(in, Last(q).subv[1], Last(m).subv[1])
  BY <1>1, <1>3, <1>4 DEF Chain
<1>6. q[1].subv[1] = SubmatchSpec(0, len)
  BY <1>2, <1>3 DEF Chain
<1>7. \A d \in 1..Len(q) : SubvOK(in, q[d].subv, len)
  BY <1>2, <1>3 DEF Chain
<1>8. \A d, e \in 1..Len(q) : d < e => Within(in, q[d].subv[1], q[e].subv[1])
  BY <1>2, <1>3 DEF Chain
<1> QED
  BY <1>2, <1>4, <1>5, <1>6, <1>7, <1>8 DEF Chain, q

-----------------------------------------------------------------------------
(* The frames.                                                               *)
LEMMA Todo ==
    /\ Loop.op = "loop"
    /\ \A name : Exec(name) # Loop /\ Exec(name).op = "exec" /\ Exec(name).name = name
    /\ \A action : /\ Return(action) # Loop /\ Return(action).op = "return"
                   /\ Return(action).action = action
<1>1. Loop.op = "loop"
  BY DEF Loop
<1>2. \A name : Exec(name).op = "exec" /\ Exec(name).name = name
  BY DEF Exec
<1>3. \A action : Return(action).op = "return" /\ Return(action).action = action
  BY DEF Return
<1> QED
  BY <1>1, <1>2, <1>3

LEMMA StackSame ==
    ASSUME NEW in, NEW c, NEW td, NEW n, Stack(in, c, td, n), td # Loop, NEW tm, tm # Loop
    PROVE  Stack(in, c, tm, n)
  BY DEF Stack, Searching

LEMMA StackPush ==
    ASSUME NEW in, NEW S, NEW c \in Seq(S), NEW td, NEW n \in Nat, Stack(in, c, td, n), td # Loop,
           NEW f \in S, NEW tm,
           \/ Type(in, f) = "multi" /\ tm # Loop
           \/ Type(in, f) \in {"match", "subst"} /\ tm = Loop
    PROVE  Stack(in, Append(c, f), tm, n)
<1> DEFINE a == Append(c, f)
<1>1. Len(c) \in Nat /\ Len(a) = Len(c) + 1 /\ Last(a) = f /\ a # <<>> /\ a[Len(c) + 1] = f
      /\ \A i \in 1..Len(c) : a[i] = c[i]
  BY PushFrame
<1>2. Cardinality(Bodies(in, a))
        = Cardinality(Bodies(in, c)) + (IF Type(in, f) = "match" THEN 1 ELSE 0)
  BY BodiesPush
<1> HIDE DEF a
<1>3. Cardinality(Bodies(in, c)) \in Nat
  BY BodiesFinite
<1>4. \A i \in 1..Len(c) : Type(in, c[i]) \in {"multi", "match"}
  BY DEF Stack, Searching
<1>5. \A i \in 1..Len(a) : \/ Type(in, a[i]) \in {"multi", "match"}
                           \/ i = Len(a) /\ Searching(in, a, tm, "subst")
  <2> SUFFICES ASSUME NEW i \in 1..Len(a)
               PROVE  \/ Type(in, a[i]) \in {"multi", "match"}
                      \/ i = Len(a) /\ Searching(in, a, tm, "subst")
    OBVIOUS
  <2>1. CASE i \in 1..Len(c)
    BY <1>1, <1>4, <2>1
  <2>2. CASE i = Len(c) + 1
    BY <1>1, <2>2 DEF Searching
  <2> QED
    BY <1>1, <2>1, <2>2
<1>6. n = 1 + Cardinality(Bodies(in, c))
  BY DEF Stack, Searching
<1>7. n + (IF Searching(in, a, tm, "match") THEN 1 ELSE 0) = 1 + Cardinality(Bodies(in, a))
  BY <1>1, <1>2, <1>3, <1>6 DEF Searching
<1>8. Stack(in, a, tm, n)
  BY <1>1, <1>5, <1>7 DEF Stack
<1> QED
  BY <1>8 DEF a

(* The frame at the top ends: a multi rule, or a loop, or, with its context, *)
(* a match rule whose body skips.                                            *)
LEMMA StackPop ==
    ASSUME NEW in, NEW S, NEW c \in Seq(S), NEW td, NEW n \in Nat, Stack(in, c, td, n), c # <<>>,
           NEW tm, tm # Loop, NEW k \in Nat,
           \/ td = Loop /\ k = n
           \/ td # Loop /\ Type(in, Last(c)) = "multi" /\ k = n
           \/ td # Loop /\ Type(in, Last(c)) = "match" /\ k = n - 1
    PROVE  Stack(in, Front(c), tm, k)
<1> DEFINE q == Front(c)
<1>1. /\ Len(c) \in Nat \ {0} /\ Last(c) = c[Len(c)] /\ q \in Seq(S) /\ Len(q) = Len(c) - 1
      /\ \A i \in 1..(Len(c) - 1) : q[i] = c[i]
  BY LastFrame, PopFrame
<1>2. Cardinality(Bodies(in, q))
        = Cardinality(Bodies(in, c)) - (IF Type(in, Last(c)) = "match" THEN 1 ELSE 0)
  BY BodiesPop
<1> HIDE DEF q
<1>3. Cardinality(Bodies(in, c)) \in Nat
  BY BodiesFinite
<1>4. \A i \in 1..Len(q) : Type(in, q[i]) \in {"multi", "match"}
  <2> SUFFICES ASSUME NEW i \in 1..Len(q) PROVE Type(in, q[i]) \in {"multi", "match"}
    OBVIOUS
  <2>1. i \in 1..Len(c) /\ i # Len(c) /\ q[i] = c[i]
    BY <1>1
  <2> QED
    BY <2>1 DEF Stack
<1>5. k = 1 + Cardinality(Bodies(in, q))
  <2>1. td = Loop => Type(in, Last(c)) \in {"match", "subst"}
    BY DEF Stack
  <2>2. n + (IF Searching(in, c, td, "match") THEN 1 ELSE 0) = 1 + Cardinality(Bodies(in, c))
    BY DEF Stack
  <2> QED
    BY <1>2, <1>3, <2>1, <2>2 DEF Searching
<1>6. ~Searching(in, q, tm, "match")
  BY DEF Searching
<1>7. Stack(in, q, tm, k)
  BY <1>3, <1>4, <1>5, <1>6 DEF Stack
<1> QED
  BY <1>7 DEF q

(* The frame at the top goes on: in its loop, or out of its loop into the    *)
(* body, with a context more, or from there back into its loop.              *)
LEMMA StackReplace ==
    ASSUME NEW in, NEW S, NEW c \in Seq(S), NEW td, NEW n \in Nat, Stack(in, c, td, n), c # <<>>,
           NEW f \in S, f.rule = Last(c).rule, NEW tm, NEW k \in Nat,
           \/ td = Loop /\ tm = Loop /\ k = n
           \/ td # Loop /\ tm # Loop /\ k = n
           \/ td = Loop /\ tm # Loop /\ Type(in, Last(c)) = "match" /\ k = n + 1
           \/ td # Loop /\ tm = Loop /\ Type(in, Last(c)) = "match" /\ k = n - 1
    PROVE  Stack(in, Front(c) \o <<f>>, tm, k)
<1> DEFINE q == Front(c) \o <<f>>
<1>1. /\ Len(c) \in Nat \ {0} /\ Last(c) = c[Len(c)] /\ Len(q) = Len(c) /\ q # <<>>
      /\ Last(q) = f /\ q[Len(c)] = f /\ \A i \in 1..(Len(c) - 1) : q[i] = c[i]
  BY LastFrame, ReplaceFrame
<1>2. Bodies(in, q) = Bodies(in, c)
  BY BodiesReplace
<1> HIDE DEF q
<1>3. Cardinality(Bodies(in, c)) \in Nat
  BY BodiesFinite
<1>4. Type(in, f) = Type(in, Last(c))
  BY DEF Type
<1>5. \A i \in 1..Len(c) : Type(in, q[i]) = Type(in, c[i])
  BY <1>1, <1>4
<1>6. \A i \in 1..Len(c) : \/ Type(in, c[i]) \in {"multi", "match"}
                           \/ i = Len(c) /\ Searching(in, c, td, "subst")
  BY DEF Stack
<1>7. \A i \in 1..Len(q) : \/ Type(in, q[i]) \in {"multi", "match"}
                           \/ i = Len(q) /\ Searching(in, q, tm, "subst")
  BY <1>1, <1>4, <1>5, <1>6 DEF Searching
<1>8. /\ td = Loop => Type(in, Last(c)) \in {"match", "subst"}
      /\ n + (IF Searching(in, c, td, "match") THEN 1 ELSE 0) = 1 + Cardinality(Bodies(in, c))
  BY DEF Stack
<1>9. k + (IF Searching(in, q, tm, "match") THEN 1 ELSE 0) = 1 + Cardinality(Bodies(in, q))
  BY <1>1, <1>2, <1>3, <1>4, <1>8 DEF Searching
<1>10. tm = Loop => Type(in, Last(q)) \in {"match", "subst"}
  BY <1>1, <1>4, <1>8
<1>11. Stack(in, q, tm, k)
  BY <1>1, <1>7, <1>9, <1>10 DEF Stack
<1> QED
  BY <1>11 DEF q

-----------------------------------------------------------------------------
(* A line is run.                                                            *)
LEMMA RunFacts ==
    ASSUME IInv, phase = "run"
    PROVE  /\ input \in Inputs /\ Len(buf) \in 0..MaxLen /\ Len(buf) \in Nat
           /\ buf \in Seq(0..MaxLen) /\ Len(buf) <= MaxLen /\ RangesTyped
           /\ Chain(input, mss, Len(buf)) /\ Len(mss) \in Nat \ {0} /\ mss \in Seq(Context)
           /\ Stack(input, ctl, todo, Len(mss)) /\ ctl \in Seq(Frames(input))
           /\ GoesOn(input, ctl, todo, ctx, Len(buf)) /\ todo \in Todos(input)
           /\ ms = Last(mss) /\ ctx = Last(mss).subv[1]
           /\ SubvOK(input, ms.subv, Len(buf)) /\ ms.subv \in Seq(Matchspec) /\ ms.subv # <<>>
           /\ ctx \in Matchspec /\ ctx.so \in 0..Len(buf) /\ ctx.eo \in ctx.so..Len(buf)
           /\ ctx.eo \in 0..Len(buf)
           /\ UnsetContexts = MayUnset(input) /\ (Loose(input) <=> UnsetContexts \/ OpenEnded)
<1>1. /\ input \in Inputs /\ Len(buf) \in 0..MaxLen /\ Len(buf) \in Nat
      /\ buf \in Seq(0..MaxLen) /\ Len(buf) <= MaxLen /\ RangesTyped
      /\ Chain(input, mss, Len(buf))
      /\ Stack(input, ctl, todo, Len(mss)) /\ ctl \in Seq(Frames(input))
      /\ GoesOn(input, ctl, todo, ctx, Len(buf)) /\ todo \in Todos(input)
  BY Bounds DEF IInv, Typed
<1>2. ms = Last(mss) /\ ctx = Last(mss).subv[1]
  BY DEF ms, ctx
<1>3. UnsetContexts = MayUnset(input) /\ (Loose(input) <=> UnsetContexts \/ OpenEnded)
  BY DEF UnsetContexts, OpenEnded, MayUnset, Loose, Rules
<1> QED
  BY <1>1, <1>2, <1>3, InnermostContext

LEMMA TopFacts ==
    ASSUME IInv, phase = "run", ctl # <<>>
    PROVE  /\ top \in Frames(input) /\ top = Last(ctl) /\ top.rule \in DOMAIN input.rules
           /\ top.at \in Nat \ {0} /\ top.so \in Nat /\ top.eo \in Nat
           /\ top.outer \in {"CONTINUE", "BREAK"} /\ top.again \in BOOLEAN
           /\ rule = input.rules[top.rule] /\ rule.type = Type(input, top)
<1>1. ctl \in Seq(Frames(input))
  BY RunFacts
<1>2. top = Last(ctl) /\ top \in Frames(input)
  BY <1>1, LastFrame DEF top
<1> QED
  BY <1>2 DEF Frames, rule, Rules, Type

(* What an action that keeps the input and goes on with the line has to keep.*)
LEMMA RunAgain ==
    ASSUME IInv, phase = "run", phase' = "run", input' = input, lines' = lines,
           buf' \in Seq(0..MaxLen), Len(buf') <= MaxLen, RangesTyped',
           ctl' \in Seq(Frames(input)), todo' \in Todos(input),
           Chain(input, mss', Len(buf')), Stack(input, ctl', todo', Len(mss')),
           GoesOn(input, ctl', todo', Last(mss').subv[1], Len(buf'))
    PROVE  IInv'
<1>1. mss' \in Seq(Context)
  BY DEF Chain
<1>2. Typed'
  BY <1>1 DEF IInv, Typed
<1>3. ctx' = Last(mss').subv[1]
  BY DEF ctx, ms
<1> QED
  BY <1>2, <1>3 DEF IInv

LEMMA NotSearching ==
    ASSUME NEW in, NEW c, NEW td, td # Loop, NEW r, NEW len
    PROVE  GoesOn(in, c, td, r, len)
  BY DEF GoesOn, Searching

LEMMA TodoTyped ==
    ASSUME NEW in
    PROVE  /\ Loop \in Todos(in)
           /\ \A name \in DOMAIN in.rules : Exec(name) \in Todos(in)
           /\ \A action \in Actions : Return(action) \in Todos(in)
           /\ \A td \in Todos(in) : td.op = "exec" => td.name \in DOMAIN in.rules
           /\ \A td \in Todos(in) : td.op = "return" => td.action \in Actions
  BY DEF Todos, Loop, Exec, Return

LEMMA RangesSame ==
    ASSUME RangesTyped, UNCHANGED ranges
    PROVE  RangesTyped'
  BY DEF RangesTyped, Ranges!TypeOK, ranges

(* The guards of a rule's calls.                                             *)
LEMMA StartFacts ==
    ASSUME IInv, NEW type, Starts(type)
    PROVE  /\ phase = "run" /\ todo # Loop /\ todo.name \in DOMAIN input.rules
           /\ Starting = input.rules[todo.name] /\ Starting.type = type
<1>1. phase = "run" /\ todo.op = "exec" /\ Rules[todo.name].type = type
  BY DEF Starts, Running
<1>2. todo \in Todos(input)
  BY DEF IInv, Typed
<1> QED
  BY <1>1, <1>2, Todo, TodoTyped DEF Starting, Rules

LEMMA LoopFacts ==
    ASSUME IInv, NEW type, Loops(type)
    PROVE  /\ phase = "run" /\ todo = Loop /\ ctl # <<>> /\ rule.type = type
           /\ Type(input, Last(ctl)) = type
           /\ type = "match" => MatchGoesOn(input, top, ctx, Len(buf))
           /\ type = "subst" => SubstGoesOn(input, top, ctx, Len(buf))
<1>1. phase = "run" /\ todo = Loop /\ ctl # <<>> /\ rule.type = type
  BY DEF Loops, Running
<1>2. Type(input, Last(ctl)) = type /\ top = Last(ctl)
  BY <1>1, TopFacts
<1> QED
  BY <1>1, <1>2, RunFacts DEF GoesOn, Searching

LEMMA ReturnFacts ==
    ASSUME IInv, NEW type, Returned(type)
    PROVE  /\ phase = "run" /\ todo # Loop /\ todo.action \in Actions /\ ctl # <<>>
           /\ Type(input, Last(ctl)) = type
<1>1. phase = "run" /\ todo.op = "return" /\ ctl # <<>> /\ rule.type = type
  BY DEF Returned, Running
<1>2. todo \in Todos(input)
  BY DEF IInv, Typed
<1>3. Type(input, Last(ctl)) = type
  BY <1>1, TopFacts
<1> QED
  BY <1>1, <1>2, <1>3, Todo, TodoTyped

LEMMA FrameTyped ==
    ASSUME NEW in, NEW name \in DOMAIN in.rules, NEW from \in Nat, NEW till \in Nat
    PROVE  /\ Frame(name, from, till) \in Frames(in) /\ Frame(name, from, till).rule = name
           /\ Frame(name, from, till).so = from /\ Frame(name, from, till).eo = till
  BY DEF Frame, Frames

LEMMA FrameChanges ==
    ASSUME NEW in, NEW f \in Frames(in)
    PROVE  /\ \A i \in Nat \ {0} : [f EXCEPT !.at = i] \in Frames(in)
           /\ \A i \in Nat : [f EXCEPT !.so = i] \in Frames(in)
           /\ \A b \in BOOLEAN : [f EXCEPT !.again = b] \in Frames(in)
           /\ \A a \in {"CONTINUE", "BREAK"} : [f EXCEPT !.outer = a] \in Frames(in)
  BY DEF Frames

-----------------------------------------------------------------------------
(* The actions.  First the ones that change neither text nor contexts.       *)
LEMMA KeepTextAndContexts ==
    ASSUME IInv, phase = "run", phase' = "run", UNCHANGED <<given, buf, mss>>, RangesTyped',
           ctl' \in Seq(Frames(input)), todo' \in Todos(input),
           Stack(input, ctl', todo', Len(mss)), GoesOn(input, ctl', todo', ctx, Len(buf))
    PROVE  IInv'
<1>1. input' = input /\ lines' = lines /\ buf' = buf /\ mss' = mss
  BY DEF given
<1> QED
  BY <1>1, RunFacts, RunAgain

LEMMA ExecMacroInv == IInv /\ ExecMacro => IInv'
<1> SUFFICES ASSUME IInv, ExecMacro PROVE IInv'
  OBVIOUS
<1>1. Starts("macro") /\ todo' = Exec(Starting.body) /\ ctl' = ctl /\ phase' = phase
      /\ UNCHANGED <<given, buf, mss>> /\ UNCHANGED ranges
  BY DEF ExecMacro
<1>2. phase = "run" /\ todo # Loop /\ Starting.body \in DOMAIN input.rules
  BY <1>1, StartFacts, RunFacts, RuleFields
<1>3. todo' \in Todos(input) /\ todo' # Loop
  BY <1>1, <1>2, Todo, TodoTyped
<1>4. Stack(input, ctl', todo', Len(mss)) /\ ctl' \in Seq(Frames(input)) /\ RangesTyped'
  BY <1>1, <1>2, <1>3, RunFacts, StackSame, RangesSame
<1> QED
  BY <1>1, <1>2, <1>3, <1>4, NotSearching, KeepTextAndContexts

LEMMA ExecActionInv == IInv /\ ExecAction => IInv'
<1> SUFFICES ASSUME IInv, ExecAction PROVE IInv'
  OBVIOUS
<1>1. Starts("action") /\ todo' = Return(Starting.action) /\ ctl' = ctl /\ phase' = phase
      /\ UNCHANGED <<given, buf, mss>> /\ UNCHANGED ranges
  BY DEF ExecAction
<1>2. phase = "run" /\ todo # Loop /\ Starting.action \in Actions
  <2>1. Starting.action \in {"BREAK", "SKIP"}
    BY <1>1, StartFacts, RunFacts, RuleFields
  <2> QED
    BY <1>1, <2>1, StartFacts DEF Actions
<1>3. todo' \in Todos(input) /\ todo' # Loop
  BY <1>1, <1>2, Todo, TodoTyped
<1>4. Stack(input, ctl', todo', Len(mss)) /\ ctl' \in Seq(Frames(input)) /\ RangesTyped'
  BY <1>1, <1>2, <1>3, RunFacts, StackSame, RangesSame
<1> QED
  BY <1>1, <1>2, <1>3, <1>4, NotSearching, KeepTextAndContexts

LEMMA ExecStyleInv == IInv /\ ExecStyle => IInv'
<1> SUFFICES ASSUME IInv, ExecStyle PROVE IInv'
  OBVIOUS
<1>1. Starts("style") /\ todo' = Return("CONTINUE") /\ ctl' = ctl /\ phase' = phase
      /\ UNCHANGED <<given, buf, mss>> /\ Ranges!Call(Starting.style, ctx.so, ctx.eo)
  BY DEF ExecStyle
<1>2. phase = "run" /\ todo # Loop /\ Starting.style \in Styles
  BY <1>1, StartFacts, RunFacts, RuleFields
<1>3. todo' \in Todos(input) /\ todo' # Loop
  BY <1>1, Todo, TodoTyped DEF Actions
<1>4. ctx.so \in Nat /\ ctx.eo \in Nat /\ RangesTyped
  BY <1>2, RunFacts
<1>5. RangesTyped'
  BY <1>1, <1>2, <1>4, CallTyped
<1>6. Stack(input, ctl', todo', Len(mss)) /\ ctl' \in Seq(Frames(input))
  BY <1>1, <1>2, <1>3, RunFacts, StackSame
<1> QED
  BY <1>1, <1>2, <1>3, <1>5, <1>6, NotSearching, KeepTextAndContexts

LEMMA InsertStyleInv == IInv /\ InsertStyle => IInv'
<1> SUFFICES ASSUME IInv, InsertStyle PROVE IInv'
  OBVIOUS
<1>1. phase = "run" /\ phase' = phase /\ ctl' = ctl /\ todo' = todo
      /\ UNCHANGED <<given, buf, mss>> /\ Ranges!Step
  BY DEF InsertStyle
<1>2. RangesTyped'
  BY <1>1, RunFacts, InsertStyleTyped
<1> QED
  BY <1>1, <1>2, RunFacts, KeepTextAndContexts

LEMMA ExecMultiInv == IInv /\ ExecMulti => IInv'
<1> SUFFICES ASSUME IInv, ExecMulti PROVE IInv'
  OBVIOUS
<1> DEFINE f == Frame(todo.name, 0, 0)
<1>1. Starts("multi") /\ todo' = Return("CONTINUE") /\ ctl' = Append(ctl, f) /\ phase' = phase
      /\ UNCHANGED <<given, buf, mss>> /\ UNCHANGED ranges
  BY DEF ExecMulti
<1>2. phase = "run" /\ todo # Loop /\ todo.name \in DOMAIN input.rules
      /\ input.rules[todo.name].type = "multi"
  BY <1>1, StartFacts
<1>3. f \in Frames(input) /\ f.rule = todo.name
  BY <1>2, FrameTyped
<1>4. Type(input, f) = "multi"
  BY <1>2, <1>3 DEF Type
<1> HIDE DEF f
<1>5. todo' \in Todos(input) /\ todo' # Loop
  BY <1>1, Todo, TodoTyped DEF Actions
<1>6. Stack(input, ctl', todo', Len(mss)) /\ ctl' \in Seq(Frames(input)) /\ RangesTyped'
  BY <1>1, <1>2, <1>3, <1>4, <1>5, RunFacts, StackPush, PushFrame, RangesSame
<1> QED
  BY <1>1, <1>2, <1>5, <1>6, NotSearching, KeepTextAndContexts

LEMMA MultiNextInv == IInv /\ MultiNext => IInv'
<1> SUFFICES ASSUME IInv, MultiNext PROVE IInv'
  OBVIOUS
<1> DEFINE f == [top EXCEPT !.at = @ + 1]
<1>1. Returned("multi") /\ todo' = Exec(rule.rules[top.at]) /\ ctl' = Front(ctl) \o <<f>>
      /\ phase' = phase /\ UNCHANGED <<given, buf, mss>> /\ UNCHANGED ranges
      /\ top.at <= Len(rule.rules)
  BY DEF MultiNext, SetTop
<1>2. phase = "run" /\ todo # Loop /\ ctl # <<>>
  BY <1>1, ReturnFacts
<1>3. rule.rules[top.at] \in DOMAIN input.rules
  <2>1. rule = input.rules[top.rule] /\ top.rule \in DOMAIN input.rules /\ top.at \in Nat \ {0}
    BY <1>2, TopFacts
  <2>2. rule.type = "multi"
    BY <1>1 DEF Returned
  <2>3. rule.rules \in Seq(DOMAIN input.rules)
    BY <1>2, <2>1, <2>2, RunFacts, RuleFields
  <2>4. top.at \in 1..Len(rule.rules)
    BY <1>1, <2>1, <2>3
  <2> QED
    BY <2>3, <2>4, ElementOfSeq
<1>4. f \in Frames(input) /\ f.rule = Last(ctl).rule
  <2>1. top \in Frames(input) /\ top = Last(ctl) /\ top.at + 1 \in Nat \ {0}
    BY <1>2, TopFacts
  <2> QED
    BY <2>1 DEF Frames
<1> HIDE DEF f
<1>5. todo' \in Todos(input) /\ todo' # Loop
  BY <1>1, <1>3, Todo, TodoTyped
<1>6. Stack(input, ctl', todo', Len(mss)) /\ ctl' \in Seq(Frames(input)) /\ RangesTyped'
  <2>1. /\ ctl \in Seq(Frames(input)) /\ Stack(input, ctl, todo, Len(mss)) /\ Len(mss) \in Nat
        /\ RangesTyped
    BY <1>2, RunFacts
  <2>2. Stack(input, Front(ctl) \o <<f>>, todo', Len(mss))
    BY <1>1, <1>2, <1>4, <1>5, <2>1, StackReplace
  <2>3. /\ Front(ctl) \o <<f>> \in Seq(Frames(input)) /\ Last(Front(ctl) \o <<f>>) = f
    BY <1>2, <1>4, <2>1, ReplaceFrame
  <2> QED
    BY <1>1, <2>1, <2>2, <2>3, RangesSame
<1> QED
  BY <1>1, <1>2, <1>5, <1>6, NotSearching, KeepTextAndContexts

LEMMA MultiEndInv == IInv /\ MultiEnd => IInv'
<1> SUFFICES ASSUME IInv, MultiEnd PROVE IInv'
  OBVIOUS
<1>1. Returned("multi") /\ todo' = Return(todo.action) /\ ctl' = Front(ctl)
      /\ phase' = phase /\ UNCHANGED <<given, buf, mss>> /\ UNCHANGED ranges
  BY DEF MultiEnd, Leave
<1>2. phase = "run" /\ todo # Loop /\ ctl # <<>> /\ todo.action \in Actions
      /\ Type(input, Last(ctl)) = "multi"
  BY <1>1, ReturnFacts
<1>3. todo' \in Todos(input) /\ todo' # Loop
  BY <1>1, <1>2, Todo, TodoTyped
<1>4. Stack(input, ctl', todo', Len(mss)) /\ ctl' \in Seq(Frames(input)) /\ RangesTyped'
  BY <1>1, <1>2, <1>3, RunFacts, StackPop, PopFrame, RangesSame
<1> QED
  BY <1>1, <1>2, <1>3, <1>4, NotSearching, KeepTextAndContexts

LEMMA ExecMatchInv == IInv /\ ExecMatch => IInv'
<1> SUFFICES ASSUME IInv, ExecMatch PROVE IInv'
  OBVIOUS
<1> DEFINE f == Frame(todo.name, ctx.so, 0)
<1>1. Starts("match") /\ todo' = Loop /\ ctl' = Append(ctl, f) /\ phase' = phase
      /\ UNCHANGED <<given, buf, mss>> /\ UNCHANGED ranges
  BY DEF ExecMatch
<1>2. phase = "run" /\ todo # Loop /\ todo.name \in DOMAIN input.rules
      /\ input.rules[todo.name].type = "match"
  BY <1>1, StartFacts
<1>3. ctx.so \in Nat /\ ctx.so <= Len(buf) /\ ctx.so <= ctx.eo
  BY <1>2, RunFacts
<1>4. f \in Frames(input) /\ f.rule = todo.name /\ f.so = ctx.so
  BY <1>2, <1>3, FrameTyped
<1>5. Type(input, f) = "match"
  BY <1>2, <1>4 DEF Type
<1> HIDE DEF f
<1>6. todo' \in Todos(input)
  BY <1>1, TodoTyped
<1>7. Stack(input, ctl', todo', Len(mss)) /\ ctl' \in Seq(Frames(input)) /\ RangesTyped'
      /\ Last(ctl') = f
  BY <1>1, <1>2, <1>4, <1>5, RunFacts, StackPush, PushFrame, RangesSame
<1>8. GoesOn(input, ctl', todo', ctx, Len(buf))
  BY <1>3, <1>4, <1>5, <1>7 DEF GoesOn, Searching, MatchGoesOn
<1> QED
  BY <1>1, <1>2, <1>6, <1>7, <1>8, KeepTextAndContexts

LEMMA TryNothingInv == IInv /\ TryNothing => IInv'
<1> SUFFICES ASSUME IInv, TryNothing PROVE IInv'
  OBVIOUS
<1> DEFINE f == [top EXCEPT !.at = @ + 1, !.so = ctx.so, !.again = FALSE]
<1>1. Loops("match") /\ todo' = todo /\ ctl' = Front(ctl) \o <<f>> /\ phase' = phase
      /\ UNCHANGED <<given, buf, mss>> /\ UNCHANGED ranges
  BY DEF TryNothing, SetTop
<1>2. phase = "run" /\ todo = Loop /\ ctl # <<>> /\ Type(input, Last(ctl)) = "match"
  BY <1>1, LoopFacts
<1>3. ctx.so \in Nat /\ ctx.so <= Len(buf) /\ ctx.so <= ctx.eo
  BY <1>2, RunFacts
<1>4. f \in Frames(input) /\ f.rule = Last(ctl).rule /\ f.so = ctx.so
  <2>1. top \in Frames(input) /\ top = Last(ctl) /\ top.at + 1 \in Nat \ {0}
    BY <1>2, TopFacts
  <2> QED
    BY <1>3, <2>1 DEF Frames
<1> HIDE DEF f
<1>5. todo' \in Todos(input)
  BY <1>1, <1>2, TodoTyped
<1>6. Stack(input, ctl', todo', Len(mss)) /\ ctl' \in Seq(Frames(input)) /\ RangesTyped'
      /\ Last(ctl') = f
  <2>1. /\ ctl \in Seq(Frames(input)) /\ Stack(input, ctl, todo, Len(mss)) /\ Len(mss) \in Nat
        /\ RangesTyped
    BY <1>2, RunFacts
  <2>2. Stack(input, Front(ctl) \o <<f>>, todo', Len(mss))
    BY <1>1, <1>2, <1>4, <2>1, StackReplace
  <2>3. /\ Front(ctl) \o <<f>> \in Seq(Frames(input)) /\ Last(Front(ctl) \o <<f>>) = f
    BY <1>2, <1>4, <2>1, ReplaceFrame
  <2> QED
    BY <1>1, <2>1, <2>2, <2>3, RangesSame
<1>7. Type(input, f) = "match"
  BY <1>2, <1>4 DEF Type
<1>8. GoesOn(input, ctl', todo', ctx, Len(buf))
  BY <1>3, <1>4, <1>6, <1>7 DEF GoesOn, Searching, MatchGoesOn
<1> QED
  BY <1>1, <1>2, <1>5, <1>6, <1>8, KeepTextAndContexts

LEMMA DieInv == IInv /\ Die => IInv'
<1> SUFFICES ASSUME IInv, Die PROVE IInv'
  OBVIOUS
<1>1. phase' = "dead" /\ UNCHANGED <<given, buf, mss, ctl, todo>> /\ UNCHANGED ranges
  BY DEF Die
<1>2. Typed /\ RangesTyped
  BY DEF IInv, Typed
<1>3. RangesTyped'
  BY <1>1, <1>2, RangesSame
<1>4. Typed'
  BY <1>1, <1>2, <1>3 DEF Typed, given
<1> QED
  BY <1>1, <1>4 DEF IInv

LEMMA MatchEndInv == IInv /\ MatchEnd => IInv'
<1> SUFFICES ASSUME IInv, MatchEnd PROVE IInv'
  OBVIOUS
<1>1. Loops("match") /\ todo' = Return(top.outer) /\ ctl' = Front(ctl)
      /\ phase' = phase /\ UNCHANGED <<given, buf, mss>> /\ UNCHANGED ranges
  BY DEF MatchEnd, Leave
<1>2. phase = "run" /\ todo = Loop /\ ctl # <<>>
  BY <1>1, LoopFacts
<1>3. top.outer \in Actions
  BY <1>2, TopFacts DEF Actions
<1>4. todo' \in Todos(input) /\ todo' # Loop
  BY <1>1, <1>3, Todo, TodoTyped
<1>5. Stack(input, ctl', todo', Len(mss)) /\ ctl' \in Seq(Frames(input)) /\ RangesTyped'
  BY <1>1, <1>2, <1>4, RunFacts, StackPop, PopFrame, RangesSame
<1> QED
  BY <1>1, <1>2, <1>4, <1>5, NotSearching, KeepTextAndContexts

LEMMA ExecSubstInv == IInv /\ ExecSubst => IInv'
<1> SUFFICES ASSUME IInv, ExecSubst PROVE IInv'
  OBVIOUS
<1> DEFINE f == Frame(todo.name, ctx.so, ctx.eo)
<1>1. Starts("subst") /\ todo' = Loop /\ ctl' = Append(ctl, f) /\ phase' = phase
      /\ UNCHANGED <<given, buf, mss>> /\ UNCHANGED ranges
  BY DEF ExecSubst
<1>2. phase = "run" /\ todo # Loop /\ todo.name \in DOMAIN input.rules
      /\ input.rules[todo.name].type = "subst"
  BY <1>1, StartFacts
<1>3. ctx.so \in Nat /\ ctx.so <= Len(buf) /\ ctx.eo \in Nat /\ ctx.eo <= MaxLen
  BY <1>2, RunFacts, Bounds
<1>4. f \in Frames(input) /\ f.rule = todo.name /\ f.so = ctx.so /\ f.eo = ctx.eo
  BY <1>2, <1>3, FrameTyped
<1>5. Type(input, f) = "subst"
  BY <1>2, <1>4 DEF Type
<1> HIDE DEF f
<1>6. todo' \in Todos(input)
  BY <1>1, TodoTyped
<1>7. Stack(input, ctl', todo', Len(mss)) /\ ctl' \in Seq(Frames(input)) /\ RangesTyped'
      /\ Last(ctl') = f
  BY <1>1, <1>2, <1>4, <1>5, RunFacts, StackPush, PushFrame, RangesSame
<1>8. GoesOn(input, ctl', todo', ctx, Len(buf))
  BY <1>3, <1>4, <1>5, <1>7 DEF GoesOn, Searching, SubstGoesOn
<1> QED
  BY <1>1, <1>2, <1>6, <1>7, <1>8, KeepTextAndContexts

LEMMA SubstNothingInv == IInv /\ SubstNothing => IInv'
<1> SUFFICES ASSUME IInv, SubstNothing PROVE IInv'
  OBVIOUS
<1>1. Loops("subst") /\ todo' = Return("CONTINUE") /\ ctl' = Front(ctl)
      /\ phase' = phase /\ UNCHANGED <<given, buf, mss>> /\ UNCHANGED ranges
  BY DEF SubstNothing, Leave
<1>2. phase = "run" /\ todo = Loop /\ ctl # <<>>
  BY <1>1, LoopFacts
<1>3. todo' \in Todos(input) /\ todo' # Loop
  BY <1>1, Todo, TodoTyped DEF Actions
<1>4. Stack(input, ctl', todo', Len(mss)) /\ ctl' \in Seq(Frames(input)) /\ RangesTyped'
  BY <1>1, <1>2, <1>3, RunFacts, StackPop, PopFrame, RangesSame
<1> QED
  BY <1>1, <1>2, <1>3, <1>4, NotSearching, KeepTextAndContexts

-----------------------------------------------------------------------------
(* The actions that change the contexts.                                     *)
LEMMA KeepText ==
    ASSUME IInv, phase = "run", phase' = "run", UNCHANGED <<given, buf>>, UNCHANGED ranges,
           ctl' \in Seq(Frames(input)), todo' \in Todos(input),
           Chain(input, mss', Len(buf)), Stack(input, ctl', todo', Len(mss')),
           GoesOn(input, ctl', todo', Last(mss').subv[1], Len(buf))
    PROVE  IInv'
<1>1. input' = input /\ lines' = lines /\ buf' = buf
  BY DEF given
<1>2. RangesTyped'
  BY RunFacts, RangesSame
<1> QED
  BY <1>1, <1>2, RunFacts, RunAgain

LEMMA UnsignedIsNat ==
    ASSUME NEW x \in Int PROVE Unsigned(x) \in Nat
  BY Bounds DEF Unsigned

LEMMA FramePlaced ==
    ASSUME NEW in, NEW f \in Frames(in), NEW so \in Nat
    PROVE  /\ [f EXCEPT !.so = so, !.again = TRUE] \in Frames(in)
           /\ [f EXCEPT !.so = so, !.again = TRUE].rule = f.rule
  BY DEF Frames

LEMMA RunBodyInv ==
    ASSUME IInv, Loops("match"), NEW subv, SubvOK(input, subv, Len(buf)),
           Within(input, ctx, subv[1]), NEW so \in Nat, RunBody(subv, so), phase' = phase
    PROVE  IInv'
<1> DEFINE f == [top EXCEPT !.so = so, !.again = TRUE]
<1>1. /\ mss' = Append(mss, new_match_state(subv)) /\ ctl' = Front(ctl) \o <<f>>
      /\ todo' = Exec(rule.body) /\ UNCHANGED <<given, buf>> /\ UNCHANGED ranges
  BY DEF RunBody, SetTop
<1>2. phase = "run" /\ todo = Loop /\ ctl # <<>> /\ Type(input, Last(ctl)) = "match"
      /\ rule.type = "match"
  BY LoopFacts
<1>3. rule.body \in DOMAIN input.rules
  <2>1. rule = input.rules[top.rule] /\ top.rule \in DOMAIN input.rules /\ input \in Inputs
    BY <1>2, TopFacts, RunFacts
  <2> QED
    BY <1>2, <2>1, RuleFields
<1>4. todo' \in Todos(input) /\ todo' # Loop
  <2>1. todo' = Exec(rule.body)
    BY <1>1
  <2> QED
    BY <1>3, <2>1, Todo, TodoTyped
<1>5. f \in Frames(input) /\ f.rule = Last(ctl).rule
  <2>1. top \in Frames(input) /\ top = Last(ctl)
    BY <1>2, TopFacts
  <2> QED
    BY <2>1, FramePlaced
<1> HIDE DEF f
<1>6. /\ ctl \in Seq(Frames(input)) /\ Stack(input, ctl, todo, Len(mss)) /\ Len(mss) \in Nat
      /\ Chain(input, mss, Len(buf)) /\ Len(buf) \in Nat /\ ctx = Last(mss).subv[1]
  BY <1>2, RunFacts
<1>7. Chain(input, mss', Len(buf)) /\ Len(mss') = Len(mss) + 1
  BY <1>1, <1>6, PushContext
<1>8. Stack(input, ctl', todo', Len(mss'))
  <2>1. Len(mss) + 1 \in Nat
    BY <1>6
  <2> QED
    BY <1>1, <1>2, <1>4, <1>5, <1>6, <1>7, <2>1, StackReplace
<1>9. ctl' \in Seq(Frames(input))
  BY <1>1, <1>2, <1>5, <1>6, ReplaceFrame
<1> QED
  BY <1>1, <1>2, <1>4, <1>7, <1>8, <1>9, NotSearching, KeepText

LEMMA TryRegexInv == IInv /\ TryRegex => IInv'
<1> SUFFICES ASSUME IInv, TryRegex PROVE IInv'
  OBVIOUS
<1>1. PICK subv \in xregexec_substring(match, top.so, ctx.eo) :
        RunBody(subv, Unsigned(top.so + subv[1].eo - subv[1].so))
  BY DEF TryRegex
<1>2. Loops("match") /\ top.at <= Len(rule.matches) /\ match.type = "regex"
  BY DEF TryRegex, Matching
<1>3. /\ phase = "run" /\ ctl # <<>> /\ rule.type = "match"
      /\ MatchGoesOn(input, top, ctx, Len(buf))
  BY <1>2, LoopFacts
<1>4. /\ Len(buf) \in Nat /\ buf \in Seq(0..MaxLen) /\ Len(buf) <= MaxLen
      /\ ctx \in Matchspec /\ ctx.so \in 0..Len(buf) /\ ctx.eo \in ctx.so..Len(buf)
      /\ ctx.eo \in Nat /\ input \in Inputs
  BY <1>3, RunFacts
<1>5. top.so \in 0..Len(buf) /\ top.so \in Nat
  <2>1. top.so \in Nat
    BY <1>3, TopFacts
  <2> QED
    BY <1>3, <1>4, <2>1 DEF MatchGoesOn
<1>6. match \in Matches /\ match \in Range(input.rules[top.rule].matches)
      /\ input.rules[top.rule].type = "match" /\ top.rule \in DOMAIN input.rules
  <2>1. rule = input.rules[top.rule] /\ top.rule \in DOMAIN input.rules /\ top.at \in Nat \ {0}
    BY <1>3, TopFacts
  <2>2. rule.matches \in Seq(Matches)
    BY <1>3, <1>4, <2>1, RuleFields
  <2>3. top.at \in 1..Len(rule.matches)
    BY <1>2, <2>1, <2>2
  <2>4. match = rule.matches[top.at] /\ match \in Matches
    BY <2>2, <2>3, ElementOfSeq DEF match
  <2>5. match \in Range(rule.matches)
    BY <2>2, <2>3, <2>4 DEF Range
  <2> QED
    BY <1>3, <2>1, <2>4, <2>5
<1>7. match.nsub \in Nat
  BY <1>2, <1>6, MatchFields
<1>8. /\ subv \in Seq(Matchspec) /\ subv # <<>>
      /\ subv[1] \in Matchspec /\ InText(subv[1], Len(buf)) /\ top.so <= subv[1].so
      /\ top.so <= ctx.eo => subv[1].eo <= ctx.eo
      /\ \A c \in 2..Len(subv) :
            \/ /\ InText(subv[c], Len(buf))
               /\ subv[1].so <= subv[c].so /\ subv[c].eo <= subv[1].eo
            \/ match.optional /\ (InText(subv[c], Len(buf)) \/ Unset(subv[c]))
  BY <1>1, <1>4, <1>5, <1>7, SubvInText
<1>9. match.optional => MayUnset(input)
  BY <1>2, <1>6 DEF MayUnset
<1>10. SubvOK(input, subv, Len(buf))
  BY <1>8, <1>9 DEF SubvOK, Within, Loose
<1>11. Within(input, ctx, subv[1])
  <2>1. subv[1].so \in Nat /\ subv[1].eo \in Nat /\ ctx.so \in Nat
    BY <1>4, <1>8, MatchspecFields
  <2> QED
    BY <1>3, <1>4, <1>5, <1>8, <2>1 DEF Within, MatchGoesOn
<1>12. Unsigned(top.so + subv[1].eo - subv[1].so) \in Nat
  <2>1. subv[1].so \in Nat /\ subv[1].eo \in Nat
    BY <1>8, MatchspecFields
  <2>2. top.so + subv[1].eo - subv[1].so \in Int
    BY <1>5, <2>1
  <2> QED
    BY <2>2, UnsignedIsNat
<1>13. phase' = phase
  BY <1>1 DEF RunBody
<1> QED
  BY <1>1, <1>2, <1>10, <1>11, <1>12, <1>13, RunBodyInv

LEMMA TrySubexInv == IInv /\ TrySubex => IInv'
<1> SUFFICES ASSUME IInv, TrySubex PROVE IInv'
  OBVIOUS
<1> DEFINE spec == ms.subv[match.index + 1]
<1>1. Loops("match") /\ top.at <= Len(rule.matches) /\ match.type = "subex"
      /\ match.index < Len(ms.subv)
      /\ spec.so # Unsigned(-1) /\ spec.eo # Unsigned(-1) /\ RunBody(<<spec>>, spec.so)
  BY DEF TrySubex, Matching
<1>2. phase = "run" /\ ctl # <<>> /\ rule.type = "match"
  BY <1>1, LoopFacts
<1>3. /\ Len(buf) \in Nat /\ SubvOK(input, ms.subv, Len(buf)) /\ ms.subv \in Seq(Matchspec)
      /\ ctx = ms.subv[1] /\ ctx \in Matchspec /\ input \in Inputs
  BY <1>2, RunFacts DEF ctx
<1>4. match.index \in Nat
  <2>1. rule = input.rules[top.rule] /\ top.rule \in DOMAIN input.rules /\ top.at \in Nat \ {0}
    BY <1>2, TopFacts
  <2>2. rule.matches \in Seq(Matches)
    BY <1>2, <1>3, <2>1, RuleFields
  <2>3. top.at \in 1..Len(rule.matches)
    BY <1>1, <2>1, <2>2
  <2> QED
    BY <1>1, <2>2, <2>3, ElementOfSeq, MatchFields DEF match
<1>5. match.index + 1 \in 1..Len(ms.subv)
  BY <1>1, <1>3, <1>4
<1>6. spec \in Matchspec /\ spec.so \in Nat
  BY <1>3, <1>5, MatchspecFields
<1>7. InText(spec, Len(buf)) /\ Within(input, ctx, spec)
  <2>1. CASE match.index + 1 = 1
    BY <1>3, <2>1, WithinSelf DEF SubvOK
  <2>2. CASE match.index + 1 # 1
    <3>1. match.index + 1 \in 2..Len(ms.subv)
      BY <1>3, <1>5, <2>2
    <3>2. Unsigned(-1) = Modulus - 1
      BY MinusOne
    <3> QED
      BY <1>1, <1>3, <3>1, <3>2 DEF SubvOK, Unset
  <2> QED
    BY <2>1, <2>2
<1> HIDE DEF spec
<1>8. SubvOK(input, <<spec>>, Len(buf)) /\ <<spec>>[1] = spec
  <2>1. <<spec>> \in Seq(Matchspec) /\ <<spec>> # <<>> /\ Len(<<spec>>) = 1 /\ <<spec>>[1] = spec
    BY <1>6
  <2>2. 2..1 = {}
    OBVIOUS
  <2> QED
    BY <1>7, <2>1, <2>2 DEF SubvOK
<1>9. phase' = phase
  BY <1>1 DEF RunBody
<1> QED
  BY <1>1, <1>6, <1>7, <1>8, <1>9, RunBodyInv

(* A body of a match rule that runs has a context of its own.                *)
LEMMA BodyContext ==
    ASSUME IInv, Returned("match")
    PROVE  Len(mss) >= 2
<1>1. phase = "run" /\ todo # Loop /\ ctl # <<>> /\ Type(input, Last(ctl)) = "match"
  BY ReturnFacts
<1>2. /\ ctl \in Seq(Frames(input)) /\ Stack(input, ctl, todo, Len(mss)) /\ Len(mss) \in Nat
  BY <1>1, RunFacts
<1>3. Len(mss) = 1 + Cardinality(Bodies(input, ctl))
  BY <1>1, <1>2 DEF Stack, Searching
<1>4. Cardinality(Bodies(input, ctl)) \in Nat /\ Cardinality(Bodies(input, Front(ctl))) \in Nat
      /\ Cardinality(Bodies(input, Front(ctl))) = Cardinality(Bodies(input, ctl)) - 1
  <2>1. Front(ctl) \in Seq(Frames(input))
    BY <1>1, <1>2, PopFrame
  <2>2. Cardinality(Bodies(input, Front(ctl)))
          = Cardinality(Bodies(input, ctl)) - (IF Type(input, Last(ctl)) = "match" THEN 1 ELSE 0)
    BY <1>1, <1>2, BodiesPop
  <2> QED
    BY <1>1, <1>2, <2>1, <2>2, BodiesFinite
<1> QED
  BY <1>3, <1>4

LEMMA BodyReturnsInv == IInv /\ BodyReturns => IInv'
<1> SUFFICES ASSUME IInv, BodyReturns PROVE IInv'
  OBVIOUS
<1> DEFINE f == [top EXCEPT !.so = ctx.eo, !.outer = IF todo.action = "BREAK" THEN "BREAK" ELSE @]
<1>1. /\ Returned("match") /\ ctl' = Front(ctl) \o <<f>> /\ mss' = Front(mss) /\ todo' = Loop
      /\ phase' = phase /\ UNCHANGED <<given, buf>> /\ UNCHANGED ranges
  BY DEF BodyReturns, SetTop
<1>2. phase = "run" /\ todo # Loop /\ ctl # <<>> /\ Type(input, Last(ctl)) = "match"
  BY <1>1, ReturnFacts
<1>3. /\ ctl \in Seq(Frames(input)) /\ Stack(input, ctl, todo, Len(mss)) /\ Len(mss) \in Nat
      /\ Chain(input, mss, Len(buf)) /\ Len(buf) \in Nat /\ ctx = Last(mss).subv[1]
      /\ ctx \in Matchspec /\ ctx.so \in 0..Len(buf) /\ ctx.eo \in ctx.so..Len(buf)
  BY <1>2, RunFacts
<1>4. f \in Frames(input) /\ f.rule = Last(ctl).rule /\ f.so = ctx.eo
  <2>1. top \in Frames(input) /\ top = Last(ctl) /\ ctx.eo \in Nat
    BY <1>2, <1>3, TopFacts
  <2> QED
    BY <2>1 DEF Frames
<1> HIDE DEF f
<1>5. todo' \in Todos(input)
  BY <1>1, TodoTyped
<1>6. /\ Chain(input, mss', Len(buf)) /\ Len(mss') = Len(mss) - 1 /\ Len(mss) >= 2
      /\ Within(input, Last(mss').subv[1], ctx)
  BY <1>1, <1>3, BodyContext, PopContext
<1>7. Stack(input, ctl', todo', Len(mss'))
  <2>1. Len(mss) - 1 \in Nat
    BY <1>3, <1>6
  <2> QED
    BY <1>1, <1>2, <1>3, <1>4, <1>6, <2>1, StackReplace
<1>8. ctl' \in Seq(Frames(input)) /\ Last(ctl') = f
  BY <1>1, <1>2, <1>3, <1>4, ReplaceFrame
<1>9. Type(input, f) = "match"
  BY <1>2, <1>4 DEF Type
<1>10. MatchGoesOn(input, f, Last(mss').subv[1], Len(buf))
  <2>1. /\ Last(mss').subv[1] \in Matchspec /\ Last(mss').subv[1].so \in Nat
        /\ Last(mss').subv[1].eo \in Nat
    BY <1>3, <1>6, InnermostContext, MatchspecFields
  <2> QED
    BY <1>3, <1>4, <1>6, <2>1 DEF MatchGoesOn, Within
<1>11. GoesOn(input, ctl', todo', Last(mss').subv[1], Len(buf))
  BY <1>8, <1>9, <1>10 DEF GoesOn, Searching
<1> QED
  BY <1>1, <1>2, <1>5, <1>6, <1>7, <1>8, <1>11, KeepText

LEMMA BodySkipsInv == IInv /\ BodySkips => IInv'
<1> SUFFICES ASSUME IInv, BodySkips PROVE IInv'
  OBVIOUS
<1>1. /\ Returned("match") /\ ctl' = Front(ctl) /\ mss' = Front(mss) /\ todo' = Return("SKIP")
      /\ phase' = phase /\ UNCHANGED <<given, buf>> /\ UNCHANGED ranges
  BY DEF BodySkips, Leave
<1>2. phase = "run" /\ todo # Loop /\ ctl # <<>> /\ Type(input, Last(ctl)) = "match"
  BY <1>1, ReturnFacts
<1>3. /\ ctl \in Seq(Frames(input)) /\ Stack(input, ctl, todo, Len(mss)) /\ Len(mss) \in Nat
      /\ Chain(input, mss, Len(buf)) /\ Len(buf) \in Nat
  BY <1>2, RunFacts
<1>4. todo' \in Todos(input) /\ todo' # Loop
  BY <1>1, Todo, TodoTyped DEF Actions
<1>5. Chain(input, mss', Len(buf)) /\ Len(mss') = Len(mss) - 1 /\ Len(mss) >= 2
  BY <1>1, <1>3, BodyContext, PopContext
<1>6. Stack(input, ctl', todo', Len(mss'))
  <2>1. Len(mss) - 1 \in Nat
    BY <1>3, <1>5
  <2> QED
    BY <1>1, <1>2, <1>3, <1>4, <1>5, <2>1, StackPop
<1>7. ctl' \in Seq(Frames(input))
  BY <1>1, <1>2, <1>3, PopFrame
<1> QED
  BY <1>1, <1>2, <1>4, <1>5, <1>6, <1>7, NotSearching, KeepText

-----------------------------------------------------------------------------
(* The actions that change the text.                                         *)
LEMMA MovedIsNat ==
    ASSUME NEW p \in Nat, NEW at \in Nat, NEW diff \in Int
    PROVE  Moved(p, at, diff) \in Nat
<1>1. Signed(p) \in Int
  BY Bounds DEF Signed
<1> QED
  BY <1>1 DEF Moved, Larger

LEMMA MoveRangeTyped ==
    ASSUME NEW r \in Ranges!StyleRange, NEW at \in Nat, NEW diff \in Int, NEW grows
    PROVE  MoveSpec(r, at, diff, grows) \in Ranges!StyleRange
<1>1. Moved(r.so, at, diff) \in Nat /\ Moved(r.eo, at, diff) \in Nat
  BY RangeFields, MovedIsNat
<1> DEFINE p == Moved(r.so, at, diff)
           q == Moved(r.eo, at, diff)
<1>2. MoveSpec(r, at, diff, grows)
        \in {r, [r EXCEPT !.eo = q], [r EXCEPT !.so = p], [r EXCEPT !.eo = q, !.so = p]}
  <2> HIDE DEF p, q
  <2>1. CASE r.so = r.eo /\ r.so = at
    BY <2>1 DEF MoveSpec, q
  <2>2. CASE ~(r.so = r.eo /\ r.so = at)
    <3>1. MoveSpec(r, at, diff, grows)
            = [r EXCEPT !.eo = IF r.eo > at \/ (grows /\ r.eo >= at) THEN q ELSE r.eo,
                        !.so = IF r.so > at THEN p ELSE r.so]
      BY <2>2 DEF MoveSpec, p, q
    <3>2. r = [r EXCEPT !.so = r.so] /\ r = [r EXCEPT !.eo = r.eo]
      BY DEF Ranges!StyleRange
    <3> QED
      BY <3>1, <3>2
  <2> QED
    BY <2>1, <2>2
<1> HIDE DEF p, q
<1>3. p \in Nat /\ q \in Nat
  BY <1>1 DEF p, q
<1> QED
  BY <1>2, <1>3 DEF Ranges!StyleRange

LEMMA MoveStylesTyped ==
    ASSUME RangesTyped, NEW at \in Nat, NEW diff \in Int, update_positions(at, diff)
    PROVE  RangesTyped'
<1>1. styles \in Seq(Ranges!StyleRange) /\ Len(styles) \in Nat
  BY DEF RangesTyped, Ranges!TypeOK
<1>2. \A i \in 1..Len(styles) :
        MoveSpec(styles[i], at, diff, at = mss[1].subv[1].eo) \in Ranges!StyleRange
  BY <1>1, MoveRangeTyped
<1>3. MoveStyles(at, diff) \in [1..Len(styles) -> Ranges!StyleRange]
  BY <1>2 DEF MoveStyles
<1>4. MoveStyles(at, diff) \in Seq(Ranges!StyleRange)
  BY <1>1, <1>3, FunctionIsSeq
<1>5. styles' = MoveStyles(at, diff) /\ UNCHANGED <<s1, old_so, node, pc>>
  BY DEF update_positions
<1> QED
  BY <1>4, <1>5 DEF RangesTyped, Ranges!TypeOK

LEMMA InnermostMoves ==
    ASSUME NEW in, NEW len \in 0..MaxLen, NEW new \in 0..MaxLen, NEW at \in 0..len, at <= new,
           Chain(in, mss, len)
    PROVE  /\ Len(MoveContexts(at, new - len)) = Len(mss)
           /\ Last(MoveContexts(at, new - len)).subv[1].so = After(ctx.so, at, len, new)
<1> DEFINE m == MoveContexts(at, new - len)
           n == Len(mss)
           g == (1 = 1 /\ n = 1)
<1>1. len \in Nat
  OBVIOUS
<1>2. /\ n \in Nat \ {0} /\ ctx = mss[n].subv[1] /\ mss[n].subv \in Seq(Matchspec)
      /\ mss[n].subv # <<>> /\ ctx \in Matchspec /\ InText(ctx, len)
  BY <1>1, InnermostContext DEF ctx, ms
<1>3. 1 \in 1..Len(mss[n].subv) /\ n \in 1..n
  BY <1>2
<1>4. m[n].subv[1] = MoveSpec(ctx, at, new - len, g)
  BY <1>2, <1>3 DEF MoveContexts, new_match_state
<1>5. Len(m) = n
  BY <1>2 DEF MoveContexts
<1>6. MovesTo(ctx, MoveSpec(ctx, at, new - len, g), at, len, new, g)
  <2>1. g \in BOOLEAN
    OBVIOUS
  <2> HIDE DEF g
  <2> QED
    BY <1>2, <2>1, MoveInText
<1> HIDE DEF m, g
<1>7. Last(m).subv[1].so = After(ctx.so, at, len, new)
  BY <1>4, <1>5, <1>6 DEF Last, MovesTo
<1> QED
  BY <1>5, <1>7 DEF m

(* The text p .. q is replaced, and the positions are updated at "at".       *)
LEMMA ChangeText ==
    ASSUME IInv, phase = "run", NEW p \in 0..Len(buf), NEW q \in p..Len(buf), NEW n \in Nat,
           NEW at \in {0, p}, Loose(input) \/ at = 0 \/ at < ctx.eo,
           Len(buf) + n - (q - p) <= MaxLen,
           buf' = strbuf_replace(buf, p, q, NewText(n)), update_positions(at, n - (q - p))
    PROVE  /\ buf' \in Seq(0..MaxLen) /\ Len(buf') \in 0..MaxLen /\ Len(buf') <= MaxLen
           /\ Len(buf') = Len(buf) + n - (q - p)
           /\ \A i \in 1..p : buf'[i] = buf[i]
           /\ \A i \in 1..(Len(buf) - q) : buf'[p + n + i] = buf[q + i]
           /\ \A i \in 1..n : buf'[p + i] = 0
           /\ RangesTyped' /\ Chain(input, mss', Len(buf')) /\ Len(mss') = Len(mss)
           /\ ctx.so <= at => Last(mss').subv[1].so = ctx.so
<1> DEFINE new == Len(buf) + n - (q - p)
<1>1. /\ Len(buf) \in Nat /\ Len(buf) \in 0..MaxLen /\ buf \in Seq(0..MaxLen) /\ RangesTyped
      /\ Chain(input, mss, Len(buf)) /\ ctx.so \in Nat /\ Len(buf) <= MaxLen
  BY RunFacts
<1>2. new \in 0..MaxLen /\ at \in 0..Len(buf) /\ at <= new /\ n - (q - p) = new - Len(buf)
      /\ at \in Nat /\ n - (q - p) \in Int
  BY <1>1, Bounds
<1>3. /\ buf' \in Seq(0..MaxLen) /\ Len(buf') = new
      /\ \A i \in 1..p : buf'[i] = buf[i]
      /\ \A i \in 1..(Len(buf) - q) : buf'[p + n + i] = buf[q + i]
      /\ \A i \in 1..n : buf'[p + i] = 0
  <2> HIDE DEF new
  <2> DEFINE t == strbuf_replace(buf, p, q, NewText(n))
  <2>1. /\ t \in Seq(0..MaxLen) /\ Len(t) = Len(buf) + n - (q - p)
        /\ \A i \in 1..p : t[i] = buf[i]
        /\ \A i \in 1..(Len(buf) - q) : t[p + n + i] = buf[q + i]
        /\ \A i \in 1..n : t[p + i] = 0
    <3>1. buf \in Seq(0..MaxLen) /\ Len(buf) <= MaxLen
      BY <1>1
    <3> QED
      BY <3>1, ReplaceInText
  <2>2. buf' = t
    OBVIOUS
  <2> HIDE DEF t
  <2> QED
    BY <2>1, <2>2 DEF new
<1>4. mss' = MoveContexts(at, new - Len(buf))
  BY <1>2 DEF update_positions
<1>5. RangesTyped'
  BY <1>1, <1>2, MoveStylesTyped
<1> HIDE DEF new
<1>6. Chain(input, mss', new)
  BY <1>1, <1>2, <1>4, MoveKeepsChain
<1>7. Len(mss') = Len(mss) /\ Last(mss').subv[1].so = After(ctx.so, at, Len(buf), new)
  BY <1>1, <1>2, <1>4, InnermostMoves
<1>8. ctx.so <= at => After(ctx.so, at, Len(buf), new) = ctx.so
  BY <1>1, <1>2 DEF After
<1>9. Len(buf') \in 0..MaxLen /\ Len(buf') <= MaxLen
  BY <1>2, <1>3
<1>10. Len(buf') = Len(buf) + n - (q - p)
  BY <1>3 DEF new
<1>11. Chain(input, mss', Len(buf'))
  BY <1>3, <1>6
<1> QED
  BY <1>3, <1>5, <1>7, <1>8, <1>9, <1>10, <1>11

LEMMA ExecSetChanges ==
    ASSUME IInv, ExecSet
    PROVE  \E n \in Nat :
             /\ Len(buf) + n - (ctx.eo - ctx.so) <= MaxLen
             /\ buf' = strbuf_replace(buf, ctx.so, ctx.eo, NewText(n))
             /\ update_positions(0, n - (ctx.eo - ctx.so))
<1>1. Starts("set")
  BY DEF ExecSet
<1>2. phase = "run" /\ Starting.replacement \in Seq(Parts)
  BY <1>1, StartFacts, RunFacts, RuleFields
<1>3. expand_substitution(Starting.replacement, ms.subv) \subseteq Nat
  BY <1>2, RunFacts, ExpansionIsNat
<1> QED
  BY <1>3 DEF ExecSet

LEMMA ExecSetInv == IInv /\ ExecSet => IInv'
<1> SUFFICES ASSUME IInv, ExecSet PROVE IInv'
  OBVIOUS
<1>1. /\ Starts("set") /\ todo' = Return("CONTINUE") /\ ctl' = ctl /\ phase' = phase
      /\ UNCHANGED given
  BY DEF ExecSet
<1>2. phase = "run" /\ todo # Loop
  BY <1>1, StartFacts
<1>3. PICK n \in Nat :
        /\ Len(buf) + n - (ctx.eo - ctx.so) <= MaxLen
        /\ buf' = strbuf_replace(buf, ctx.so, ctx.eo, NewText(n))
        /\ update_positions(0, n - (ctx.eo - ctx.so))
  BY ExecSetChanges
<1>4. ctx.so \in 0..Len(buf) /\ ctx.eo \in ctx.so..Len(buf)
  BY <1>2, RunFacts
<1>5. /\ buf' \in Seq(0..MaxLen) /\ Len(buf') <= MaxLen /\ RangesTyped'
      /\ Chain(input, mss', Len(buf')) /\ Len(mss') = Len(mss)
  BY <1>2, <1>3, <1>4, ChangeText
<1>6. todo' \in Todos(input) /\ todo' # Loop
  BY <1>1, Todo, TodoTyped DEF Actions
<1>7. Stack(input, ctl', todo', Len(mss')) /\ ctl' \in Seq(Frames(input))
  BY <1>1, <1>2, <1>5, <1>6, RunFacts, StackSame
<1>8. input' = input /\ lines' = lines /\ phase' = "run"
  BY <1>1, <1>2 DEF given
<1> QED
  BY <1>2, <1>5, <1>6, <1>7, <1>8, NotSearching, RunAgain

(* The text p .. q that a search found is replaced by n characters.          *)
SubstitutedBy(p, q, n) ==
    /\ Len(buf) + n - (q - p) <= MaxLen
    /\ buf' = strbuf_replace(buf, p, q, NewText(n))
    /\ update_positions(p, n - (q - p))
    /\ IF rule.global /\ ~(top.so >= Len(buf))
         THEN /\ SetTop([top EXCEPT !.so = @ + Advance(q - p, n)])
              /\ UNCHANGED todo
         ELSE Leave("CONTINUE")

Replaces(p, q, n) ==
    /\ SubstitutedBy(p, q, n)
    /\ top.so <= p /\ (~rule.nullable => p < q) /\ (top.so <= top.eo => q <= top.eo)

LEMMA SubstituteChanges ==
    ASSUME IInv, Substitute
    PROVE  \E p \in 0..Len(buf) : \E q \in p..Len(buf) : \E n \in Nat : Replaces(p, q, n)
<1>1. Loops("subst")
  BY DEF Substitute
<1>2. phase = "run" /\ ctl # <<>> /\ rule.type = "subst" /\ SubstGoesOn(input, top, ctx, Len(buf))
  BY <1>1, LoopFacts
<1>3. /\ Len(buf) \in Nat /\ buf \in Seq(0..MaxLen) /\ Len(buf) <= MaxLen /\ input \in Inputs
      /\ ctx \in Matchspec
  BY <1>2, RunFacts
<1>4. top.so \in 0..Len(buf) /\ top.eo \in Nat
  BY <1>2, <1>3, TopFacts DEF SubstGoesOn
<1>5. rule.nsub \in Nat /\ rule.replacement \in Seq(Parts)
  BY <1>2, <1>3, TopFacts, RuleFields
<1>6. PICK subv \in xregexec_substring(rule, top.so, top.eo) :
        \E n \in expand_substitution(rule.replacement, subv) :
          SubstitutedBy(subv[1].so, subv[1].eo, n)
  BY DEF Substitute, SubstitutedBy
<1>7. /\ subv \in Seq(Matchspec) /\ subv # <<>> /\ InText(subv[1], Len(buf))
      /\ top.so <= subv[1].so /\ (~rule.nullable => subv[1].so < subv[1].eo)
      /\ top.so <= top.eo => subv[1].eo <= top.eo
  BY <1>3, <1>4, <1>5, SubvInText
<1>8. expand_substitution(rule.replacement, subv) \subseteq Nat
  BY <1>3, <1>5, <1>7, ExpansionIsNat
<1>9. subv[1].so \in 0..Len(buf) /\ subv[1].eo \in subv[1].so..Len(buf)
  BY <1>7 DEF InText
<1>10. \E n \in Nat : Replaces(subv[1].so, subv[1].eo, n)
  BY <1>6, <1>7, <1>8 DEF Replaces
<1> QED
  BY <1>9, <1>10

LEMMA SubstituteText ==
    ASSUME IInv, Loops("subst"),
           NEW p \in 0..Len(buf), NEW q \in p..Len(buf), NEW n \in Nat, Replaces(p, q, n)
    PROVE  /\ buf' \in Seq(0..MaxLen) /\ Len(buf') <= MaxLen
           /\ Len(buf') = Len(buf) + n - (q - p)
           /\ \A i \in 1..p : buf'[i] = buf[i]
           /\ \A i \in 1..(Len(buf) - q) : buf'[p + n + i] = buf[q + i]
           /\ \A i \in 1..n : buf'[p + i] = 0
           /\ RangesTyped' /\ Chain(input, mss', Len(buf')) /\ Len(mss') = Len(mss)
           /\ ctx.so <= p /\ (~rule.global => q <= ctx.eo)
           /\ Last(mss').subv[1].so = ctx.so
<1>1. /\ phase = "run" /\ ctl # <<>> /\ rule.type = "subst"
      /\ SubstGoesOn(input, top, ctx, Len(buf))
  BY LoopFacts
<1>2. ctx.so \in Nat /\ ctx.eo \in Nat /\ ctx.so <= ctx.eo
  BY <1>1, RunFacts
<1>3. /\ top.so \in Nat /\ top.eo \in Nat
      /\ rule = input.rules[top.rule] /\ top.rule \in DOMAIN input.rules
  BY <1>1, TopFacts
<1>4. /\ Len(buf) + n - (q - p) <= MaxLen
      /\ buf' = strbuf_replace(buf, p, q, NewText(n))
      /\ update_positions(p, n - (q - p))
      /\ top.so <= p /\ (~rule.nullable => p < q) /\ (top.so <= top.eo => q <= top.eo)
  BY DEF Replaces, SubstitutedBy
<1>5. ctx.so <= p
  BY <1>1, <1>2, <1>3, <1>4 DEF SubstGoesOn
<1>6. ~rule.global => q <= ctx.eo
  BY <1>1, <1>2, <1>3, <1>4 DEF SubstGoesOn
<1>7. Loose(input) \/ p = 0 \/ p < ctx.eo
  <2> SUFFICES ASSUME ~Loose(input) PROVE p < ctx.eo
    OBVIOUS
  <2>1. ~rule.nullable /\ ~rule.global
    BY <1>1, <1>3 DEF Loose
  <2> QED
    BY <1>2, <1>4, <1>6, <2>1
<1> QED
  BY <1>1, <1>4, <1>5, <1>6, <1>7, ChangeText

LEMMA SubstituteInv == IInv /\ Substitute => IInv'
<1> SUFFICES ASSUME IInv, Substitute PROVE IInv'
  OBVIOUS
<1>1. Loops("subst") /\ phase' = phase /\ UNCHANGED given
  BY DEF Substitute
<1>2. /\ phase = "run" /\ todo = Loop /\ ctl # <<>> /\ rule.type = "subst"
      /\ Type(input, Last(ctl)) = "subst" /\ SubstGoesOn(input, top, ctx, Len(buf))
  BY <1>1, LoopFacts
<1>3. /\ Len(buf) \in Nat /\ ctx.so \in Nat /\ ctx.eo \in Nat /\ ctx.so <= ctx.eo
      /\ ctl \in Seq(Frames(input))
      /\ Stack(input, ctl, todo, Len(mss)) /\ Len(mss) \in Nat
  BY <1>2, RunFacts
<1>4. /\ top \in Frames(input) /\ top = Last(ctl) /\ top.so \in Nat /\ top.eo \in Nat
      /\ rule = input.rules[top.rule] /\ top.rule \in DOMAIN input.rules
  BY <1>2, TopFacts
<1>5. PICK p \in 0..Len(buf) : \E q \in p..Len(buf) : \E n \in Nat : Replaces(p, q, n)
  BY SubstituteChanges
<1>6. PICK q \in p..Len(buf), n \in Nat : Replaces(p, q, n)
  BY <1>5
<1>7. /\ Len(buf) + n - (q - p) <= MaxLen /\ top.so <= p
      /\ IF rule.global /\ ~(top.so >= Len(buf))
           THEN /\ SetTop([top EXCEPT !.so = @ + Advance(q - p, n)])
                /\ UNCHANGED todo
           ELSE Leave("CONTINUE")
  BY <1>6 DEF Replaces, SubstitutedBy
<1>8. ctx.so <= p /\ Last(mss').subv[1].so = ctx.so
  BY <1>1, <1>6, SubstituteText
<1>9. /\ buf' \in Seq(0..MaxLen) /\ Len(buf') <= MaxLen /\ Len(buf') = Len(buf) + n - (q - p)
      /\ RangesTyped' /\ Chain(input, mss', Len(buf')) /\ Len(mss') = Len(mss)
  BY <1>1, <1>6, SubstituteText
<1>10. input' = input /\ lines' = lines /\ phase' = "run"
  BY <1>1, <1>2 DEF given
<1>11. CASE rule.global /\ ~(top.so >= Len(buf))
  <2> DEFINE f == [top EXCEPT !.so = @ + Advance(q - p, n)]
  <2>1. ctl' = Front(ctl) \o <<f>> /\ todo' = todo
    BY <1>7, <1>11 DEF SetTop
  <2>2. Advance(q - p, n) \in Nat /\ top.so + Advance(q - p, n) \in Nat
    BY <1>4 DEF Advance
  <2>3. /\ f \in Frames(input) /\ f.rule = top.rule /\ f.so = top.so + Advance(q - p, n)
        /\ f.eo = top.eo
    BY <1>4, <2>2 DEF Frames
  <2> HIDE DEF f
  <2>4. ctl' \in Seq(Frames(input)) /\ Last(ctl') = f
    BY <1>2, <1>3, <2>1, <2>3, ReplaceFrame
  <2>5. Stack(input, ctl', todo', Len(mss'))
    BY <1>2, <1>3, <1>4, <1>9, <2>1, <2>3, StackReplace
  <2>6. top.so + Advance(q - p, n) <= Len(buf')
    BY <1>3, <1>4, <1>7, <1>9, <1>11 DEF Advance
  <2>7. SubstGoesOn(input, f, Last(mss').subv[1], Len(buf'))
    <3>1. ctx.so <= top.so /\ ctx.so <= p /\ top.eo <= MaxLen
      BY <1>2, <1>8 DEF SubstGoesOn
    <3>2. Last(mss').subv[1].so <= f.so
      BY <1>3, <1>4, <1>8, <2>2, <2>3, <3>1
    <3> QED
      BY <1>4, <1>11, <2>3, <2>6, <3>1, <3>2 DEF SubstGoesOn
  <2>8. GoesOn(input, ctl', todo', Last(mss').subv[1], Len(buf'))
    <3>1. Type(input, f) = "subst"
      BY <1>2, <1>4, <2>3 DEF Type
    <3> QED
      BY <2>4, <2>7, <3>1 DEF GoesOn, Searching
  <2>9. todo' \in Todos(input)
    BY <1>2, <2>1, TodoTyped
  <2> QED
    BY <1>2, <1>9, <1>10, <2>4, <2>5, <2>8, <2>9, RunAgain
<1>12. CASE ~(rule.global /\ ~(top.so >= Len(buf)))
  <2>1. ctl' = Front(ctl) /\ todo' = Return("CONTINUE")
    BY <1>7, <1>12 DEF Leave
  <2>2. todo' \in Todos(input) /\ todo' # Loop
    BY <2>1, Todo, TodoTyped DEF Actions
  <2>3. Stack(input, ctl', todo', Len(mss'))
    BY <1>2, <1>3, <1>9, <2>1, <2>2, StackPop
  <2>4. ctl' \in Seq(Frames(input))
    BY <1>2, <1>3, <2>1, PopFrame
  <2> QED
    BY <1>2, <1>9, <1>10, <2>2, <2>3, <2>4, NotSearching, RunAgain
<1> QED
  BY <1>11, <1>12

(* Between two lines.                                                        *)
(* execute_rule begins, on a text of any length and from any rule.           *)
LEMMA EnterInv ==
    ASSUME IInv, NEW root \in DOMAIN input.rules, NEW len \in 0..MaxLen, Enter(root, len),
           input' = input, lines' \in 0..input.lines, RangesTyped'
    PROVE  IInv'
<1>1. len \in Nat
  BY Bounds
<1>2. /\ phase = "idle" /\ buf' = [i \in 1..len |-> i]
      /\ mss' = <<new_match_state(<<SubmatchSpec(0, len)>>)>>
      /\ todo' = Exec(root) /\ phase' = "run" /\ ctl' = ctl
  BY DEF Enter
<1>3. input \in Inputs /\ ctl = <<>>
  BY <1>2 DEF IInv, Typed
<1>4. buf' \in Seq(0..MaxLen) /\ Len(buf') = len
  <2>1. buf' \in [1..len -> 0..MaxLen]
    BY <1>1, <1>2, Bounds
  <2> QED
    BY <1>1, <2>1, FunctionIsSeq
<1> DEFINE r == SubmatchSpec(0, len)
           m == <<new_match_state(<<r>>)>>
<1>5. r \in Matchspec /\ r.so = 0 /\ r.eo = len
  <2>1. 0 \in 0..(Modulus - 1) /\ len \in 0..(Modulus - 1)
    BY <1>1, Bounds
  <2> QED
    BY <2>1, SpecIsMatchspec
<1>6. InText(r, len)
  BY <1>1, <1>5 DEF InText
<1> HIDE DEF r
<1>7. SubvOK(input, <<r>>, len)
  BY <1>5, <1>6 DEF SubvOK
<1>8. m \in Seq(Context) /\ Len(m) = 1 /\ m[1].subv = <<r>> /\ m # <<>>
  BY <1>5 DEF Context, new_match_state
<1>9. Chain(input, m, len)
  <2>1. m[1].subv[1] = SubmatchSpec(0, len)
    BY <1>8 DEF r
  <2> HIDE DEF m
  <2>2. \A d \in 1..Len(m) : SubvOK(input, m[d].subv, len)
    BY <1>7, <1>8
  <2>3. \A d, e \in 1..Len(m) : ~(d < e)
    BY <1>8
  <2> QED
    BY <1>8, <2>1, <2>2, <2>3 DEF Chain
<1>10. mss' = m
  BY <1>2 DEF m, r
<1> HIDE DEF m
<1>11. todo' \in Todos(input) /\ todo' # Loop
  BY <1>2, <1>3, TodoTyped DEF Exec, Loop
<1>12. Stack(input, ctl', todo', Len(mss'))
  <2>1. ctl' = <<>> /\ Len(mss') = 1
    BY <1>2, <1>3, <1>8, <1>10
  <2>2. Bodies(input, <<>>) = {}
    BY DEF Bodies
  <2>3. Cardinality(Bodies(input, <<>>)) = 0
    BY <2>2, FS_EmptySet
  <2> QED
    BY <1>11, <2>1, <2>3 DEF Stack, Searching
<1>13. GoesOn(input, ctl', todo', ctx', Len(buf'))
  BY <1>11, NotSearching
<1>14. Typed'
  <2>1. ctl' \in Seq(Frames(input)) /\ mss' \in Seq(Context)
    BY <1>2, <1>3, <1>8, <1>10
  <2> QED
    BY <1>1, <1>2, <1>3, <1>4, <1>11, <2>1 DEF Typed
<1> QED
  BY <1>2, <1>4, <1>9, <1>10, <1>12, <1>13, <1>14 DEF IInv

LEMMA ReadLineInv == IInv /\ ReadLine => IInv'
<1> SUFFICES ASSUME IInv, ReadLine PROVE IInv'
  OBVIOUS
<1>1. PICK len \in input.lens : Enter("main", len)
  BY DEF ReadLine
<1>2. /\ "main" \in DOMAIN input.rules /\ lines < input.lines /\ lines' = lines + 1
      /\ input' = input /\ UNCHANGED ranges
  BY DEF ReadLine, Rules
<1>3. /\ input \in Inputs /\ lines \in 0..input.lines /\ RangesTyped
      /\ input.lens \subseteq 0..MaxLen /\ input.lines \in Nat
  BY InputsAssumption DEF IInv, Typed
<1>4. len \in 0..MaxLen /\ lines' \in 0..input.lines
  BY <1>2, <1>3
<1>5. RangesTyped'
  BY <1>2, <1>3, RangesSame
<1> QED
  BY <1>1, <1>2, <1>4, <1>5, EnterInv

(* The styles and the number of lines are the caller's between two texts.    *)
LEMMA CallerInv ==
    ASSUME IInv, UNCHANGED <<input, buf, mss, ctl, todo, phase>>, lines' \in 0..input.lines,
           RangesTyped'
    PROVE  IInv'
<1>1. Typed'
  BY DEF IInv, Typed
<1>2. ctx' = ctx
  BY DEF ctx, ms
<1> QED
  BY <1>1, <1>2 DEF IInv

LEMMA FinishLineInv == IInv /\ FinishLine => IInv'
<1> SUFFICES ASSUME IInv, FinishLine PROVE IInv'
  OBVIOUS
<1>1. /\ ctl = <<>> /\ ctl' = ctl /\ mss' = <<>> /\ todo' = Loop /\ phase' \in {"idle", "print"}
      /\ UNCHANGED <<given, buf>> /\ UNCHANGED ranges
  BY DEF FinishLine
<1>2. Typed /\ RangesTyped
  BY DEF IInv, Typed
<1>3. RangesTyped' /\ todo' \in Todos(input) /\ mss' \in Seq(Context)
  BY <1>1, <1>2, RangesSame, TodoTyped
<1>4. Typed'
  BY <1>1, <1>2, <1>3 DEF Typed, given
<1> QED
  BY <1>1, <1>4 DEF IInv

LEMMA PrintLineInv == IInv /\ PrintLine => IInv'
<1> SUFFICES ASSUME IInv, PrintLine PROVE IInv'
  OBVIOUS
<1>1. /\ phase = "print" /\ phase' = "idle" /\ buf' = <<>> /\ Ranges!Clear
      /\ UNCHANGED <<given, mss, ctl, todo>>
  BY DEF PrintLine
<1>2. Typed /\ RangesTyped /\ ctl = <<>> /\ mss = <<>>
  BY <1>1 DEF IInv, Typed
<1>3. RangesTyped'
  BY <1>1, <1>2, ClearTyped
<1>4. buf' \in Seq(0..MaxLen) /\ Len(buf') <= MaxLen
  BY <1>1, Bounds
<1>5. Typed'
  BY <1>1, <1>2, <1>3, <1>4 DEF Typed, given
<1> QED
  BY <1>1, <1>2, <1>5 DEF IInv

LEMMA StutterInv == IInv /\ UNCHANGED vars => IInv'
<1> SUFFICES ASSUME IInv, UNCHANGED vars PROVE IInv'
  OBVIOUS
<1>1. /\ UNCHANGED <<input, buf, mss, ctl, todo, phase>> /\ lines' = lines /\ UNCHANGED ranges
  BY DEF vars, given
<1>2. RangesTyped' /\ lines' \in 0..input.lines
  BY <1>1, RangesSame DEF IInv, Typed
<1> QED
  BY <1>1, <1>2, CallerInv

LEMMA InitInv == Init => IInv
<1> SUFFICES ASSUME Init PROVE IInv
  OBVIOUS
<1>1. /\ input \in Inputs /\ buf = <<>> /\ mss = <<>> /\ ctl = <<>> /\ todo = Loop
      /\ Ranges!Init /\ phase = "idle" /\ lines = 0
  BY DEF Init
<1>2. RangesTyped
  BY <1>1 DEF RangesTyped, Ranges!TypeOK, Ranges!Init
<1>3. lines \in 0..input.lines
  BY <1>1, InputsAssumption
<1>4. Typed
  BY <1>1, <1>2, <1>3, TodoTyped, Bounds DEF Typed
<1> QED
  BY <1>1, <1>4 DEF IInv

LEMMA NextInv == IInv /\ [Next]_vars => IInv'
<1> SUFFICES ASSUME IInv, [Next]_vars PROVE IInv'
  OBVIOUS
<1>1. CASE ExecMacro \/ ExecAction \/ ExecStyle \/ InsertStyle
  BY <1>1, ExecMacroInv, ExecActionInv, ExecStyleInv, InsertStyleInv
<1>2. CASE ExecMulti \/ MultiNext \/ MultiEnd
  BY <1>2, ExecMultiInv, MultiNextInv, MultiEndInv
<1>3. CASE ExecMatch \/ TryRegex \/ TrySubex \/ TryNothing \/ Die
  BY <1>3, ExecMatchInv, TryRegexInv, TrySubexInv, TryNothingInv, DieInv
<1>4. CASE BodyReturns \/ BodySkips \/ MatchEnd
  BY <1>4, BodyReturnsInv, BodySkipsInv, MatchEndInv
<1>5. CASE ExecSubst \/ Substitute \/ SubstNothing \/ ExecSet
  BY <1>5, ExecSubstInv, SubstituteInv, SubstNothingInv, ExecSetInv
<1>6. CASE ReadLine \/ FinishLine \/ PrintLine
  BY <1>6, ReadLineInv, FinishLineInv, PrintLineInv
<1>7. CASE UNCHANGED vars
  BY <1>7, StutterInv
<1> QED
  BY <1>1, <1>2, <1>3, <1>4, <1>5, <1>6, <1>7 DEF Next, Step, RuleStep, Stopped

LEMMA Inductive == Spec => []IInv
<1>1. Init => IInv
  BY InitInv
<1>2. IInv /\ [Next]_vars => IInv'
  BY NextInv
<1> QED
  BY <1>1, <1>2, PTL DEF Spec

-----------------------------------------------------------------------------
LEMMA IInvTypes == IInv => TypeOK
<1> SUFFICES ASSUME IInv PROVE TypeOK
  OBVIOUS
<1>1. styles \in Seq(Ranges!StyleRange)
  BY DEF IInv, Typed, RangesTyped, Ranges!TypeOK
<1>2. \A i \in 1..Len(ctl) : ctl[i].rule \in DOMAIN Rules
  <2>1. ctl \in Seq(Frames(input)) /\ \A f \in Frames(input) : f.rule \in DOMAIN Rules
    BY DEF IInv, Typed, Frames, Rules
  <2> QED
    BY <2>1
<1>3. todo.op \in {"exec", "loop", "return"}
  BY DEF IInv, Typed, Todos, Loop
<1> QED
  BY <1>1, <1>2, <1>3 DEF IInv, Typed, Context, TypeOK

(* The types of the text, its styles, the contexts and the frames stay as    *)
(* they are declared: the text never grows beyond what was allocated for it, *)
(* and every frame runs a rule the script has.                               *)
THEOREM TypeCorrect == Spec => []TypeOK
  BY IInvTypes, Inductive, PTL

(* try_match, execute_substitution_rule and the updates of the positions     *)
(* keep every context in the text and in the one around it, the root context *)
(* being all of the text.                                                    *)
THEOREM ContextsStayNested == Spec => []ContextsNested
<1>1. IInv => ContextsNested
  <2> SUFFICES ASSUME IInv, phase = "run"
               PROVE  /\ mss[1].subv[1] = SubmatchSpec(0, Len(buf))
                      /\ \A d \in 2..Len(mss) :
                           LET outer == mss[d - 1].subv[1]
                               inner == mss[d].subv[1]
                           IN  /\ inner.so <= inner.eo /\ inner.eo <= Len(buf)
                               /\ UnsetContexts \/ outer.so <= inner.so
                               /\ UnsetContexts \/ OpenEnded \/ inner.eo <= outer.eo
    BY DEF ContextsNested
  <2>1. /\ Chain(input, mss, Len(buf)) /\ Len(buf) \in Nat /\ Len(mss) \in Nat
        /\ UnsetContexts = MayUnset(input) /\ (Loose(input) <=> UnsetContexts \/ OpenEnded)
    BY RunFacts
  <2>2. ASSUME NEW d \in 2..Len(mss)
        PROVE  /\ mss[d].subv[1].so <= mss[d].subv[1].eo /\ mss[d].subv[1].eo <= Len(buf)
               /\ Within(input, mss[d - 1].subv[1], mss[d].subv[1])
    <3>1. d \in 1..Len(mss) /\ d - 1 \in 1..Len(mss) /\ d - 1 < d
      BY <2>1
    <3>2. InText(mss[d].subv[1], Len(buf))
      BY <2>1, <3>1 DEF Chain, SubvOK
    <3>3. Within(input, mss[d - 1].subv[1], mss[d].subv[1])
      BY <2>1, <3>1 DEF Chain
    <3> QED
      BY <2>1, <3>2, <3>3 DEF InText
  <2>3. mss[1].subv[1] = SubmatchSpec(0, Len(buf))
    BY <2>1 DEF Chain
  <2> QED
    BY <2>1, <2>2, <2>3 DEF Within
<1> QED
  BY <1>1, Inductive, PTL

(* However the text and the contexts changed since a loop began, it searches *)
(* from a position in the text, and hides what lies behind one.              *)
THEOREM SearchStaysInBuffer == Spec => []SearchInBuffer
<1>1. IInv => SearchInBuffer
  <2> SUFFICES ASSUME IInv, Running, todo = Loop, ctl # <<>>
               PROVE  \/ rule.type = "subst" /\ top.so <= Len(buf) /\ Signed(top.eo) \in 0..MaxLen
                      \/ /\ rule.type = "match"
                         /\ top.at <= Len(rule.matches) /\ match.type = "regex" =>
                              top.so <= Len(buf) /\ Signed(ctx.eo) \in 0..Len(buf)
    BY DEF SearchInBuffer
  <2>1. phase = "run"
    BY DEF Running
  <2>2. /\ Stack(input, ctl, todo, Len(mss)) /\ ctx.eo \in 0..Len(buf) /\ Len(buf) \in 0..MaxLen
        /\ Len(buf) \in Nat
    BY <2>1, RunFacts
  <2>3. rule.type \in {"match", "subst"} /\ top.eo \in Nat
    BY <2>1, <2>2, TopFacts DEF Stack
  <2>4. CASE rule.type = "match"
    <3>1. Loops("match")
      BY <2>4 DEF Loops
    <3>2. top.so <= Len(buf)
      BY <3>1, LoopFacts DEF MatchGoesOn
    <3>3. Signed(ctx.eo) = ctx.eo
      BY <2>2, Bounds, SmallNumbers
    <3> QED
      BY <2>2, <2>4, <3>2, <3>3
  <2>5. CASE rule.type = "subst"
    <3>1. Loops("subst")
      BY <2>5 DEF Loops
    <3>2. top.so <= Len(buf) /\ top.eo <= MaxLen
      BY <3>1, LoopFacts DEF SubstGoesOn
    <3>3. top.eo \in 0..MaxLen
      BY <2>3, <3>2, Bounds
    <3> QED
      BY <2>5, <3>2, <3>3, SmallNumbers
  <2> QED
    BY <2>3, <2>4, <2>5
<1> QED
  BY <1>1, Inductive, PTL

-----------------------------------------------------------------------------
(* Prefixes and suffixes, cell by cell.                                      *)
LEMMA PrefixByCells ==
    ASSUME NEW S, NEW a \in Seq(S), NEW t \in Seq(S), Len(a) <= Len(t),
           \A i \in 1..Len(a) : t[i] = a[i]
    PROVE  IsPrefix(a, t)
<1>1. Len(a) \in Nat /\ Len(t) \in Nat
  OBVIOUS
<1> DEFINE x == SubSeq(a, 1, Len(a))
           y == SubSeq(t, 1, Len(a))
<1>2. x \in Seq(S) /\ Len(x) = Len(a) /\ \A i \in 1..Len(a) : x[i] = a[i]
  <2>1. \A i \in 1..Len(a) : a[i] \in S
    OBVIOUS
  <2>2. /\ x \in Seq(S) /\ Len(x) = IF 1 <= Len(a) THEN Len(a) - 1 + 1 ELSE 0
        /\ \A i \in 1..(Len(a) - 1 + 1) : x[i] = a[1 + i - 1]
    BY <1>1, <2>1, SubSeqProperties
  <2> HIDE DEF x
  <2> QED
    BY <1>1, <2>2
<1>3. y \in Seq(S) /\ Len(y) = Len(a) /\ \A i \in 1..Len(a) : y[i] = t[i]
  <2>1. \A i \in 1..Len(a) : t[i] \in S
    BY <1>1
  <2>2. /\ y \in Seq(S) /\ Len(y) = IF 1 <= Len(a) THEN Len(a) - 1 + 1 ELSE 0
        /\ \A i \in 1..(Len(a) - 1 + 1) : y[i] = t[1 + i - 1]
    BY <1>1, <2>1, SubSeqProperties
  <2> HIDE DEF y
  <2> QED
    BY <1>1, <2>2
<1>4. x = y
  <2> HIDE DEF x, y
  <2>1. Len(x) = Len(y) /\ \A i \in 1..Len(x) : x[i] = y[i]
    BY <1>2, <1>3
  <2> QED
    BY <1>2, <1>3, <2>1, SeqEqual
<1> QED
  BY <1>4 DEF IsPrefix

LEMMA PrefixStays ==
    ASSUME NEW S, NEW s \in Seq(S), NEW t \in Seq(S), NEW k \in 0..Len(s), k <= Len(t),
           \A i \in 1..k : t[i] = s[i]
    PROVE  IsPrefix(SubSeq(s, 1, k), t)
<1> DEFINE a == SubSeq(s, 1, k)
<1>1. Len(s) \in Nat /\ k \in Int
  OBVIOUS
<1>2. \A i \in 1..k : s[i] \in S
  BY <1>1
<1>3. /\ a \in Seq(S) /\ Len(a) = IF 1 <= k THEN k - 1 + 1 ELSE 0
      /\ \A i \in 1..(k - 1 + 1) : a[i] = s[1 + i - 1]
  BY <1>1, <1>2, SubSeqProperties
<1> HIDE DEF a
<1>4. Len(a) = k /\ \A i \in 1..Len(a) : t[i] = a[i]
  BY <1>1, <1>3
<1>5. IsPrefix(a, t)
  BY <1>3, <1>4, PrefixByCells
<1> QED
  BY <1>5 DEF a

LEMMA ReverseCells ==
    ASSUME NEW S, NEW s \in Seq(S)
    PROVE  /\ Reverse(s) \in Seq(S) /\ Len(Reverse(s)) = Len(s)
           /\ \A i \in 1..Len(s) : Reverse(s)[i] = s[(Len(s) - i) + 1]
<1> DEFINE r == [i \in 1..Len(s) |-> s[(Len(s) - i) + 1]]
<1>1. Len(s) \in Nat /\ \A i \in 1..Len(s) : (Len(s) - i) + 1 \in 1..Len(s)
  OBVIOUS
<1>2. r \in [1..Len(s) -> S]
  BY <1>1
<1>3. Reverse(s) = r
  BY DEF Reverse
<1>4. r \in Seq(S) /\ Len(r) = Len(s)
  <2> HIDE DEF r
  <2> QED
    BY <1>1, <1>2, FunctionIsSeq
<1> QED
  BY <1>3, <1>4

LEMMA SuffixStays ==
    ASSUME NEW S, NEW s \in Seq(S), NEW t \in Seq(S), NEW k \in 0..Len(s),
           Len(s) - k <= Len(t),
           \A i \in 1..(Len(s) - k) : t[Len(t) - (Len(s) - k) + i] = s[k + i]
    PROVE  IsSuffix(SubSeq(s, k + 1, Len(s)), t)
<1> DEFINE a == SubSeq(s, k + 1, Len(s))
           x == Reverse(a)
           y == Reverse(t)
<1>1. Len(s) \in Nat /\ Len(t) \in Nat /\ k \in Nat /\ k + 1 \in Int /\ Len(s) \in Int
  OBVIOUS
<1>2. \A i \in (k + 1)..Len(s) : s[i] \in S
  BY <1>1
<1>3. /\ a \in Seq(S) /\ Len(a) = IF k + 1 <= Len(s) THEN Len(s) - (k + 1) + 1 ELSE 0
      /\ \A i \in 1..(Len(s) - (k + 1) + 1) : a[i] = s[(k + 1) + i - 1]
  BY <1>1, <1>2, SubSeqProperties
<1> HIDE DEF a
<1>4. Len(a) = Len(s) - k /\ \A i \in 1..Len(a) : a[i] = s[k + i]
  <2>1. Len(a) = Len(s) - k
    BY <1>1, <1>3
  <2> SUFFICES ASSUME NEW i \in 1..Len(a) PROVE a[i] = s[k + i]
    BY <2>1
  <2>2. i \in 1..(Len(s) - (k + 1) + 1) /\ (k + 1) + i - 1 = k + i
    BY <1>1, <2>1
  <2> QED
    BY <1>3, <2>2
<1>5. /\ x \in Seq(S) /\ Len(x) = Len(a) /\ \A i \in 1..Len(a) : x[i] = a[(Len(a) - i) + 1]
      /\ y \in Seq(S) /\ Len(y) = Len(t) /\ \A i \in 1..Len(t) : y[i] = t[(Len(t) - i) + 1]
  BY <1>3, ReverseCells
<1> HIDE DEF x, y
<1>6. ASSUME NEW i \in 1..Len(x) PROVE y[i] = x[i]
  <2> DEFINE j == (Len(a) - i) + 1
  <2>1. /\ i \in 1..Len(a) /\ i \in 1..Len(t) /\ j \in 1..Len(a)
        /\ (Len(t) - i) + 1 = Len(t) - Len(a) + j
    BY <1>1, <1>4, <1>5
  <2>2. x[i] = a[j] /\ y[i] = t[(Len(t) - i) + 1]
    BY <1>5, <2>1
  <2> HIDE DEF j
  <2>3. a[j] = s[k + j]
    BY <1>4, <2>1
  <2>4. t[Len(t) - Len(a) + j] = s[k + j]
    BY <1>4, <2>1
  <2> QED
    BY <2>1, <2>2, <2>3, <2>4
<1>7. Len(x) <= Len(y)
  BY <1>4, <1>5
<1>8. IsPrefix(x, y)
  BY <1>5, <1>6, <1>7, PrefixByCells
<1> QED
  BY <1>8 DEF IsSuffix, a, x, y

(* What a step of the loop of a substitution is.                             *)
LEMMA SubstSteps ==
    ASSUME IInv, Loops("subst"), Next
    PROVE  Substitute \/ SubstNothing
<1>1. /\ Running /\ phase = "run" /\ pc = "idle" /\ todo = Loop /\ rule.type = "subst"
      /\ todo.op = "loop"
  BY DEF Loops, Running, Loop
<1>2. ~ReadLine /\ ~PrintLine /\ ~Stopped /\ ~FinishLine
  BY <1>1 DEF ReadLine, Enter, PrintLine, Stopped, FinishLine
<1>3. ~InsertStyle
  BY <1>1, StepBusy DEF InsertStyle
<1>4. /\ ~ExecMacro /\ ~ExecAction /\ ~ExecStyle /\ ~ExecMulti /\ ~ExecMatch /\ ~ExecSubst
      /\ ~ExecSet
  BY <1>1 DEF ExecMacro, ExecAction, ExecStyle, ExecMulti, ExecMatch, ExecSubst, ExecSet, Starts
<1>5. ~MultiNext /\ ~MultiEnd /\ ~BodyReturns /\ ~BodySkips
  BY <1>1 DEF MultiNext, MultiEnd, BodyReturns, BodySkips, Returned
<1>6. ~TryRegex /\ ~TrySubex /\ ~TryNothing /\ ~Die /\ ~MatchEnd
  BY <1>1 DEF TryRegex, TrySubex, TryNothing, Die, MatchEnd, Matching, Loops
<1> QED
  BY <1>2, <1>3, <1>4, <1>5, <1>6 DEF Next, Step, RuleStep

(* Every round of a global substitution has less text ahead of it than the   *)
(* one before it: s///g ends, for every replacement and every regex.         *)
THEOREM SubstitutionMovesOn == Spec => SubstMovesOn
<1>1. IInv /\ [Next]_vars =>
        [Loops("subst") /\ todo' = Loop => Len(buf') - Last(ctl').so < Len(buf) - top.so]_vars
  <2> SUFFICES ASSUME IInv, Next, Loops("subst"), todo' = Loop
               PROVE  Len(buf') - Last(ctl').so < Len(buf) - top.so
    OBVIOUS
  <2>1. /\ phase = "run" /\ ctl # <<>> /\ SubstGoesOn(input, top, ctx, Len(buf))
        /\ Type(input, Last(ctl)) = "subst"
    BY LoopFacts
  <2>2. ~SubstNothing
    BY Todo DEF SubstNothing, Leave, Actions
  <2>3. PICK p \in 0..Len(buf) : \E q \in p..Len(buf) : \E n \in Nat : Replaces(p, q, n)
    BY <2>2, SubstSteps, SubstituteChanges
  <2>4. PICK q \in p..Len(buf), n \in Nat : Replaces(p, q, n)
    BY <2>3
  <2>5. /\ Len(buf) \in Nat /\ top \in Frames(input) /\ top.so \in Nat /\ ctl \in Seq(Frames(input))
        /\ top = Last(ctl) /\ ctx.so \in Nat
    BY <2>1, RunFacts, TopFacts
  <2> DEFINE f == [top EXCEPT !.so = @ + Advance(q - p, n)]
  <2>6. ctl' = Front(ctl) \o <<f>>
    BY <2>4, Todo DEF Replaces, SubstitutedBy, Leave, SetTop, Actions
  <2>7. Advance(q - p, n) \in Nat /\ Advance(q - p, n) > n - (q - p) /\ n \in Nat /\ q - p \in Nat
    BY DEF Advance
  <2>8. f \in Frames(input) /\ f.so = top.so + Advance(q - p, n)
    <3>1. top.so + Advance(q - p, n) \in Nat
      BY <2>5, <2>7
    <3> QED
      BY <2>5, <3>1 DEF Frames
  <2> HIDE DEF f
  <2>9. Last(ctl') = f
    BY <2>1, <2>5, <2>6, <2>8, ReplaceFrame
  <2>10. Len(buf') = Len(buf) + n - (q - p)
    BY <2>4, SubstituteText
  <2> QED
    BY <2>5, <2>7, <2>8, <2>9, <2>10
<1> QED
  BY <1>1, Inductive, PTL DEF Spec, SubstMovesOn

(* Where what follows the context is found again, when p..q of n is replaced *)
(* by k.                                                                     *)
LEMMA BehindTheEnd ==
    ASSUME NEW n \in Nat, NEW p \in Nat, NEW q \in Nat, NEW k \in Nat, NEW e \in Nat,
           NEW i \in Nat, NEW m, p <= q, q <= n, q <= e, 1 <= i, i <= n - e,
           m = n + k - (q - p)
    PROVE  /\ e - q + i \in 1..(n - q) /\ p + k + (e - q + i) = m - (n - e) + i
           /\ q + (e - q + i) = e + i
  OBVIOUS

(* A rule changes no text outside of its context; a global substitution      *)
(* below a match may go on behind it.                                        *)
THEOREM OnlyTheContextChanges == Spec => OnlyContextChanges
<1> DEFINE n == Len(buf)
           Kept == /\ IsPrefix(SubSeq(buf, 1, ctx.so), buf')
                   /\ \/ Loops("subst") /\ rule.global /\ Len(mss) > 1
                      \/ IsSuffix(SubSeq(buf, ctx.eo + 1, Len(buf)), buf')
<1>1. ASSUME IInv, phase = "run", NEW p \in 0..n, NEW q \in p..n, NEW k \in Nat,
             buf' \in Seq(0..MaxLen), Len(buf') = n + k - (q - p),
             \A i \in 1..p : buf'[i] = buf[i],
             \A i \in 1..(n - q) : buf'[p + k + i] = buf[q + i],
             ctx.so <= p,
             \/ Loops("subst") /\ rule.global /\ Len(mss) > 1
             \/ q <= ctx.eo
      PROVE  Kept
  <2>1. /\ buf \in Seq(0..MaxLen) /\ n \in Nat /\ ctx.so \in 0..n /\ ctx.eo \in 0..n
        /\ Len(buf') \in Nat
    BY <1>1, RunFacts
  <2>2. IsPrefix(SubSeq(buf, 1, ctx.so), buf')
    <3>1. \A i \in 1..ctx.so : buf'[i] = buf[i]
      BY <1>1, <2>1
    <3>2. ctx.so <= Len(buf')
      BY <1>1, <2>1
    <3> QED
      BY <1>1, <2>1, <3>1, <3>2, PrefixStays
  <2>3. CASE q <= ctx.eo
    <3>1. n - ctx.eo <= Len(buf')
      BY <1>1, <2>1, <2>3
    <3>2. ASSUME NEW i \in 1..(n - ctx.eo)
          PROVE  buf'[Len(buf') - (n - ctx.eo) + i] = buf[ctx.eo + i]
      <4> DEFINE j == ctx.eo - q + i
      <4>1. /\ j \in 1..(n - q) /\ p + k + j = Len(buf') - (n - ctx.eo) + i
            /\ q + j = ctx.eo + i
        <5>1. p \in Nat /\ q \in Nat /\ i \in Nat /\ ctx.eo \in Nat /\ n \in Nat
          BY <2>1
        <5>2. p <= q /\ q <= n /\ 1 <= i /\ i <= n - ctx.eo
          BY <2>1, <5>1
        <5>3. Len(buf') = n + k - (q - p)
          BY <1>1
        <5> HIDE DEF n, Kept
        <5>4. PICK m : m = Len(buf')
          OBVIOUS
        <5>5. PICK e \in Nat : e = ctx.eo
          BY <5>1
        <5>6. /\ p <= q /\ q <= n /\ q <= e /\ 1 <= i /\ i <= n - e /\ m = n + k - (q - p)
              /\ p \in Nat /\ q \in Nat /\ i \in Nat /\ e \in Nat /\ n \in Nat /\ k \in Nat
          BY <2>3, <5>1, <5>2, <5>3, <5>4, <5>5
        <5>7. /\ e - q + i \in 1..(n - q) /\ p + k + (e - q + i) = m - (n - e) + i
              /\ q + (e - q + i) = e + i
          BY <5>6, BehindTheEnd
        <5> QED
          BY <5>4, <5>5, <5>7
      <4> HIDE DEF j
      <4>2. buf'[p + k + j] = buf[q + j]
        BY <1>1, <4>1
      <4> QED
        BY <4>1, <4>2
    <3>3. IsSuffix(SubSeq(buf, ctx.eo + 1, Len(buf)), buf')
      BY <1>1, <2>1, <3>1, <3>2, SuffixStays
    <3> QED
      BY <2>2, <3>3
  <2> QED
    BY <1>1, <2>2, <2>3
<1>2. ASSUME IInv, phase = "run", ExecSet PROVE Kept
  <2>1. PICK k \in Nat :
          /\ Len(buf) + k - (ctx.eo - ctx.so) <= MaxLen
          /\ buf' = strbuf_replace(buf, ctx.so, ctx.eo, NewText(k))
          /\ update_positions(0, k - (ctx.eo - ctx.so))
    BY <1>2, ExecSetChanges
  <2>2. ctx.so \in 0..Len(buf) /\ ctx.eo \in ctx.so..Len(buf)
    BY <1>2, RunFacts
  <2>3. /\ buf' \in Seq(0..MaxLen) /\ Len(buf') = Len(buf) + k - (ctx.eo - ctx.so)
        /\ \A i \in 1..ctx.so : buf'[i] = buf[i]
        /\ \A i \in 1..(Len(buf) - ctx.eo) : buf'[ctx.so + k + i] = buf[ctx.eo + i]
    BY <1>2, <2>1, <2>2, ChangeText
  <2>4. ctx.so <= ctx.so /\ ctx.eo <= ctx.eo
    BY <2>2
  <2> HIDE DEF Kept
  <2> QED
    BY <1>1, <1>2, <2>2, <2>3, <2>4
<1>3. ASSUME IInv, phase = "run", Substitute PROVE Kept
  <2>1. Loops("subst")
    BY <1>3 DEF Substitute
  <2>2. PICK p \in 0..Len(buf) : \E q \in p..Len(buf) : \E k \in Nat : Replaces(p, q, k)
    BY <1>3, SubstituteChanges
  <2>3. PICK q \in p..Len(buf), k \in Nat : Replaces(p, q, k)
    BY <2>2
  <2>4. /\ buf' \in Seq(0..MaxLen) /\ Len(buf') = Len(buf) + k - (q - p)
        /\ \A i \in 1..p : buf'[i] = buf[i]
        /\ \A i \in 1..(Len(buf) - q) : buf'[p + k + i] = buf[q + i]
        /\ ctx.so <= p /\ (~rule.global => q <= ctx.eo)
    BY <1>3, <2>1, <2>3, SubstituteText
  <2>5. \/ Loops("subst") /\ rule.global /\ Len(mss) > 1
        \/ q <= ctx.eo
    <3>1. /\ Chain(input, mss, Len(buf)) /\ Len(mss) \in Nat \ {0} /\ ctx = Last(mss).subv[1]
          /\ Len(buf) \in Nat
      BY <1>3, RunFacts
    <3> SUFFICES ASSUME rule.global, ~(Len(mss) > 1) PROVE q <= ctx.eo
      BY <2>1, <2>4
    <3>2. ctx = SubmatchSpec(0, Len(buf))
      BY <3>1 DEF Chain, Last
    <3> QED
      BY <3>1, <3>2 DEF SubmatchSpec
  <2> HIDE DEF Kept
  <2> QED
    BY <1>1, <1>3, <2>4, <2>5
<1>4. IInv /\ [Next]_vars => [buf' # buf /\ phase = "run" => Kept]_vars
  <2> SUFFICES ASSUME IInv, Next, buf' # buf, phase = "run" PROVE Kept
    OBVIOUS
  <2>1. Substitute \/ ExecSet
    BY DEF Next, Step, RuleStep, Stopped, vars, ReadLine, Enter, FinishLine, PrintLine,
           ExecMacro, ExecAction, ExecStyle, InsertStyle, ExecMulti, MultiNext, MultiEnd,
           ExecMatch, TryRegex, TrySubex, RunBody, TryNothing, Die, BodyReturns, BodySkips,
           MatchEnd, ExecSubst, SubstNothing
  <2> HIDE DEF Kept
  <2> QED
    BY <1>2, <1>3, <2>1
<1> QED
  BY <1>4, Inductive, PTL DEF Spec, OnlyContextChanges

-----------------------------------------------------------------------------
(* The styles of the text.  insert_style is proved in StyleRanges_proofs; the *)
(* engine's own names of it mean the same.                                   *)
Insertion == INSTANCE StyleRanges_proofs WITH N <- MaxLen

LEMMA InsertionAssumptions == Insertion!NAssumption /\ Insertion!MaxRangesAssumption
  BY Bounds DEF Insertion!NAssumption, Insertion!MaxRangesAssumption

LEMMA SameParts ==
    /\ Ranges!StyleRange = Insertion!StyleRange /\ Ranges!NoRange = Insertion!NoRange
    /\ \A st, so, eo :
         Ranges!new_style_range(st, so, eo) = Insertion!new_style_range(st, so, eo)
    /\ \A r : Ranges!Empty(r) = Insertion!Empty(r)
    /\ \A r, t : Ranges!SameRange(r, t) = Insertion!SameRange(r, t)
    /\ \A s, n, r : Ranges!InsertAt(s, n, r) = Insertion!InsertAt(s, n, r)
    /\ \A r, c : Ranges!Covers(r, c) = Insertion!Covers(r, c)
<1>1. Ranges!StyleRange = Insertion!StyleRange /\ Ranges!NoRange = Insertion!NoRange
  BY DEF Ranges!StyleRange, Insertion!StyleRange, Ranges!NoRange, Insertion!NoRange
<1>2. \A st, so, eo :
        Ranges!new_style_range(st, so, eo) = Insertion!new_style_range(st, so, eo)
  BY DEF Ranges!new_style_range, Insertion!new_style_range
<1>3. /\ \A r : Ranges!Empty(r) = Insertion!Empty(r)
      /\ \A r, t : Ranges!SameRange(r, t) = Insertion!SameRange(r, t)
      /\ \A r, c : Ranges!Covers(r, c) = Insertion!Covers(r, c)
  BY Zenon DEF Ranges!Empty, Insertion!Empty, Ranges!SameRange, Insertion!SameRange,
         Ranges!Covers, Insertion!Covers
<1>4. \A s, n, r : Ranges!InsertAt(s, n, r) = Insertion!InsertAt(s, n, r)
  BY Zenon DEF Ranges!InsertAt, Insertion!InsertAt
<1> QED
  BY <1>1, <1>2, <1>3, <1>4

LEMMA SameLists ==
    /\ \A s, n : Ranges!GroupEnds(s, n) = Insertion!GroupEnds(s, n)
    /\ \A s, n, g, so, eo : Ranges!Trim(s, n, g, so, eo) = Insertion!Trim(s, n, g, so, eo)
    /\ \A s, n, r : /\ Ranges!lnode_add_before(s, n, r) = Insertion!lnode_add_before(s, n, r)
                    /\ Ranges!insort_style1(s, n, r) = Insertion!insort_style1(s, n, r)
    /\ \A s, n, g, p, a, b :
         Ranges!insort_style2(s, n, g, p, a, b) = Insertion!insort_style2(s, n, g, p, a, b)
    /\ \A s, n, g, b : Ranges!insort_style3(s, n, g, b) = Insertion!insort_style3(s, n, g, b)
<1>1. \A s, n : Ranges!GroupEnds(s, n) = Insertion!GroupEnds(s, n)
  BY SameParts, Zenon DEF Ranges!GroupEnds, Insertion!GroupEnds
<1>2. \A s, n, g, so, eo : Ranges!Trim(s, n, g, so, eo) = Insertion!Trim(s, n, g, so, eo)
  BY SameParts, Zenon DEF Ranges!Trim, Insertion!Trim
<1>3. \A s, n, r : /\ Ranges!lnode_add_before(s, n, r) = Insertion!lnode_add_before(s, n, r)
                   /\ Ranges!insort_style1(s, n, r) = Insertion!insort_style1(s, n, r)
  BY SameParts, Zenon DEF Ranges!lnode_add_before, Insertion!lnode_add_before,
         Ranges!insort_style1, Insertion!insort_style1, Ranges!lnode_add_after,
         Insertion!lnode_add_after
<1>4. \A s, n, g, p, a, b :
        Ranges!insort_style2(s, n, g, p, a, b) = Insertion!insort_style2(s, n, g, p, a, b)
  BY DEF Ranges!insort_style2, Insertion!insort_style2, Ranges!Trim, Insertion!Trim,
         Ranges!new_style_range, Insertion!new_style_range
<1>5. \A s, n, g, b : Ranges!insort_style3(s, n, g, b) = Insertion!insort_style3(s, n, g, b)
  BY DEF Ranges!insort_style3, Insertion!insort_style3, Ranges!Trim, Insertion!Trim,
         Ranges!new_style_range, Insertion!new_style_range
<1> QED
  BY <1>1, <1>2, <1>3, <1>4, <1>5

LEMMA SameWays ==
    /\ Ranges!s2 = Insertion!s2 /\ Ranges!g2 = Insertion!g2
    /\ Ranges!Fronted = Insertion!Fronted
    /\ Ranges!AtNode <=> Insertion!AtNode
    /\ Ranges!Overlap <=> Insertion!Overlap
    /\ \A s : Ranges!Return(s) <=> Insertion!Return(s)
    /\ \A s, n, r : Ranges!Continue(s, n, r) <=> Insertion!Continue(s, n, r)
<1>1. Ranges!s2 = Insertion!s2 /\ Ranges!g2 = Insertion!g2
  BY SameLists DEF Ranges!s2, Insertion!s2, Ranges!g2, Insertion!g2
<1>2. Ranges!Fronted = Insertion!Fronted
  BY <1>1, SameParts, SameLists DEF Ranges!Fronted, Insertion!Fronted
<1>3. Ranges!AtNode <=> Insertion!AtNode
  BY DEF Ranges!AtNode, Insertion!AtNode
<1>4. Ranges!Overlap <=> Insertion!Overlap
  BY <1>1, <1>3, SameParts, Zenon DEF Ranges!Overlap, Insertion!Overlap
<1>5. \A s : Ranges!Return(s) <=> Insertion!Return(s)
  BY SameParts DEF Ranges!Return, Insertion!Return
<1>6. \A s, n, r : Ranges!Continue(s, n, r) <=> Insertion!Continue(s, n, r)
  BY DEF Ranges!Continue, Insertion!Continue
<1> QED
  BY <1>1, <1>2, <1>3, <1>4, <1>5, <1>6

LEMMA SameStep == Ranges!Step => Insertion!Step
<1>1. Ranges!Case5 => Insertion!Case5
  BY SameParts, SameLists, SameWays, Zenon DEF Ranges!Case5, Insertion!Case5
<1>2. Ranges!Case6 => Insertion!Case6
  BY SameParts, SameLists, SameWays, Zenon DEF Ranges!Case6, Insertion!Case6
<1>3. Ranges!Case7 => Insertion!Case7
  BY SameParts, SameLists, SameWays, Zenon DEF Ranges!Case7, Insertion!Case7
<1>4. Ranges!Before => Insertion!Before
  BY SameParts, SameLists, SameWays, Zenon DEF Ranges!Before, Insertion!Before
<1>5. Ranges!Case1 => Insertion!Case1
  BY SameParts, SameLists, SameWays, Zenon DEF Ranges!Case1, Insertion!Case1
<1>6. Ranges!Case2a => Insertion!Case2a
  BY SameParts, SameLists, SameWays, Zenon DEF Ranges!Case2a, Insertion!Case2a
<1>7. Ranges!Case2b => Insertion!Case2b
  BY SameParts, SameLists, SameWays, Zenon DEF Ranges!Case2b, Insertion!Case2b
<1>8. Ranges!Case2c => Insertion!Case2c
  BY SameParts, SameLists, SameWays, Zenon DEF Ranges!Case2c, Insertion!Case2c
<1>9. Ranges!Case3a => Insertion!Case3a
  BY SameParts, SameLists, SameWays, Zenon DEF Ranges!Case3a, Insertion!Case3a
<1>10. Ranges!Case3b => Insertion!Case3b
  BY SameParts, SameLists, SameWays, Zenon DEF Ranges!Case3b, Insertion!Case3b
<1>11. Ranges!Case3c => Insertion!Case3c
  BY SameParts, SameLists, SameWays, Zenon DEF Ranges!Case3c, Insertion!Case3c
<1>12. Ranges!Case4a => Insertion!Case4a
  BY SameParts, SameLists, SameWays, Zenon DEF Ranges!Case4a, Insertion!Case4a
<1>13. Ranges!Case4b => Insertion!Case4b
  BY SameParts, SameLists, SameWays, Zenon DEF Ranges!Case4b, Insertion!Case4b
<1>14. Ranges!Past => Insertion!Past
  BY SameParts, SameLists, SameWays, Zenon DEF Ranges!Past, Insertion!Past
<1>15. Ranges!AppendRest => Insertion!AppendRest
  BY SameParts, SameLists, SameWays, Zenon DEF Ranges!AppendRest, Insertion!AppendRest
<1> QED
  BY <1>1, <1>2, <1>3, <1>4, <1>5, <1>6, <1>7, <1>8, <1>9, <1>10, <1>11, <1>12, <1>13, <1>14,
     <1>15 DEF Ranges!Step, Insertion!Step

LEMMA SameCalls ==
    /\ \A st, so, eo : Ranges!Call(st, so, eo) <=> Insertion!Call(st, so, eo)
    /\ \A s : Ranges!Ordered(s) <=> Insertion!Ordered(s)
    /\ \A s, c : Ranges!StylesAt(s, c) = Insertion!StylesAt(s, c)
    /\ Ranges!TypeOK <=> Insertion!TypeOK
<1>1. \A st, so, eo : Ranges!Call(st, so, eo) <=> Insertion!Call(st, so, eo)
  BY SameParts DEF Ranges!Call, Insertion!Call
<1>2. \A s : Ranges!Ordered(s) <=> Insertion!Ordered(s)
  BY SameParts, Zenon DEF Ranges!Ordered, Insertion!Ordered, Ranges!Precedes, Insertion!Precedes
<1>3. \A s, c : Ranges!StylesAt(s, c) = Insertion!StylesAt(s, c)
  BY Zenon DEF Ranges!StylesAt, Insertion!StylesAt, Ranges!FlattenSeq, Insertion!FlattenSeq,
         Ranges!Covers, Insertion!Covers
<1>4. Ranges!TypeOK <=> Insertion!TypeOK
  BY SameParts DEF Ranges!TypeOK, Insertion!TypeOK
<1> QED
  BY <1>1, <1>2, <1>3, <1>4

(* A style range r that lies in the text becomes t, as a context does.       *)
RangeMovesTo(r, t, at, len, new, grows) ==
    /\ t.style = r.style /\ InText(t, new)
    /\ t.so = After(r.so, at, len, new)
    /\ r.eo > at => t.eo = After(r.eo, at, len, new)
    /\ r.eo < at => t.eo = r.eo
    /\ r.eo = at /\ (grows \/ r.so = at) => t.eo = Larger(new - len + at, at)
    /\ r.eo = at /\ ~grows /\ r.so # at => t.eo = at

LEMMA MoveRange ==
    ASSUME NEW len \in 0..MaxLen, NEW new \in 0..MaxLen, NEW at \in 0..len, at <= new,
           NEW grows \in BOOLEAN, NEW r \in Ranges!StyleRange, InText(r, len)
    PROVE  RangeMovesTo(r, MoveSpec(r, at, new - len, grows), at, len, new, grows)
<1>1. r.so \in 0..MaxLen /\ r.eo \in 0..MaxLen /\ r.so <= r.eo /\ r.eo <= len
  BY Bounds DEF InText
<1>2. Signed(r.so) = r.so /\ Signed(r.eo) = r.eo
  BY <1>1, SmallNumbers
<1>3. MaxLen \in Nat
  BY Bounds
<1> DEFINE t == MoveSpec(r, at, new - len, grows)
<1>4. CASE r.so = r.eo /\ r.so = at
  <2>1. t = [r EXCEPT !.eo = Moved(r.eo, at, new - len)]
    BY <1>4 DEF MoveSpec
  <2>2. t.style = r.style /\ t.so = r.so /\ t.eo = Larger(r.eo + (new - len), at)
    BY <2>1, <1>2 DEF Moved, Ranges!StyleRange
  <2> HIDE DEF t
  <2>3. t.so \in 0..new /\ t.eo \in t.so..new
    BY <2>2, <1>1, <1>4 DEF Larger
  <2>4. RangeMovesTo(r, t, at, len, new, grows)
    BY <2>2, <2>3, <1>1, <1>3, <1>4 DEF RangeMovesTo, InText, After, Larger
  <2> QED
    BY <2>4 DEF t
<1>5. CASE ~(r.so = r.eo /\ r.so = at)
  <2> DEFINE from == IF r.so > at THEN Larger(r.so + (new - len), at) ELSE r.so
             till == IF r.eo > at \/ (grows /\ r.eo >= at)
                       THEN Larger(r.eo + (new - len), at) ELSE r.eo
  <2>1. t = [r EXCEPT !.eo = till, !.so = from]
    BY <1>2, <1>5 DEF MoveSpec, Moved
  <2>2. t.style = r.style /\ t.so = from /\ t.eo = till
    BY <2>1 DEF Ranges!StyleRange
  <2> HIDE DEF t
  <2>3. from \in 0..new /\ till \in from..new
    BY <1>1, <1>5 DEF Larger
  <2>4. RangeMovesTo(r, t, at, len, new, grows)
    BY <2>2, <2>3, <1>1, <1>3, <1>5 DEF RangeMovesTo, InText, After, Larger
  <2> QED
    BY <2>4 DEF t
<1> QED
  BY <1>4, <1>5

(* Ranges are in line if one ends before the next begins, or they begin       *)
(* together.                                                                 *)
Leads(r, u) == r.eo <= u.so \/ r.so = u.so

(* Of two ranges at the end of the text the second does not begin there      *)
(* without the first.                                                        *)
ApartAt(r, u, end) == u.so = end => r.eo < end \/ r.so = end

LEMMA MoveInLine ==
    ASSUME NEW len \in 0..MaxLen, NEW new \in 0..MaxLen, NEW at \in 0..len, at <= new,
           NEW g \in BOOLEAN, g => at = len,
           NEW r, NEW u, g /\ len < new => ApartAt(r, u, len), InText(r, len), InText(u, len), Leads(r, u),
           NEW t, NEW v, RangeMovesTo(r, t, at, len, new, g), RangeMovesTo(u, v, at, len, new, g)
    PROVE  Leads(t, v)
<1>1. /\ r.so \in 0..len /\ r.eo \in r.so..len /\ u.so \in 0..len /\ u.eo \in u.so..len
      /\ len \in Nat /\ new \in Nat
  BY Bounds DEF InText
<1>2. CASE r.so = u.so
  <2>1. t.so = v.so
    BY <1>2 DEF RangeMovesTo
  <2> QED
    BY <2>1 DEF Leads
<1>3. CASE r.so # u.so
  <2>1. r.eo <= u.so
    BY <1>3 DEF Leads
  <2>2. g /\ len < new => (u.so = len => r.eo < len \/ r.so = len)
    BY DEF ApartAt
  <2>3. t.eo <= v.so
    BY <1>1, <1>3, <2>1, <2>2 DEF RangeMovesTo, After, Larger
  <2> QED
    BY <2>3 DEF Leads
<1> QED
  BY <1>2, <1>3

(* A character before the place of the change stays in the ranges it is in.  *)
LEMMA CoversBefore ==
    ASSUME NEW len \in 0..MaxLen, NEW new \in 0..MaxLen, NEW at \in 0..len, at <= new,
           NEW g \in BOOLEAN, NEW r, InText(r, len), NEW t, RangeMovesTo(r, t, at, len, new, g),
           NEW c \in Nat, c < at
    PROVE  Ranges!Covers(t, c) <=> Ranges!Covers(r, c)
<1>1. r.so \in 0..len /\ r.eo \in r.so..len /\ len \in Nat /\ new \in Nat
  BY Bounds DEF InText
<1>2. t.so <= c <=> r.so <= c
  BY <1>1 DEF RangeMovesTo, After, Larger
<1>3. c < t.eo <=> c < r.eo
  BY <1>1 DEF RangeMovesTo, After, Larger
<1> QED
  BY <1>2, <1>3 DEF Ranges!Covers

(* Where x is when the text p .. q before it is replaced by k characters.    *)
ShiftsTo(x, y, p, q, k) == y = x + k - (q - p)

(* A character behind the change stays in the ranges it is in, too.          *)
LEMMA CoversBehind ==
    ASSUME NEW len \in 0..MaxLen, NEW new \in 0..MaxLen, NEW p \in 0..len, NEW q \in p..len,
           NEW k \in Nat, ShiftsTo(len, new, p, q, k),
           NEW g \in BOOLEAN, NEW r, InText(r, len), NEW t, RangeMovesTo(r, t, p, len, new, g),
           NEW c \in Nat, q <= c, NEW d \in Nat, ShiftsTo(c, d, p, q, k)
    PROVE  Ranges!Covers(t, d) <=> Ranges!Covers(r, c)
<1>1. r.so \in 0..len /\ r.eo \in r.so..len /\ len \in Nat /\ new \in Nat
      /\ new = len + k - (q - p) /\ d = c + k - (q - p)
  BY Bounds DEF InText, ShiftsTo
<1>2. t.so <= d <=> r.so <= c
  BY <1>1 DEF RangeMovesTo, After, Larger
<1>3. d < t.eo <=> c < r.eo
  BY <1>1 DEF RangeMovesTo, After, Larger
<1> QED
  BY <1>2, <1>3 DEF Ranges!Covers

-----------------------------------------------------------------------------
(* What is laid over the text stays in the text.                             *)
Laid ==
    /\ pc = "loop" =>
         /\ phase = "run"
         /\ Insertion!IInv /\ Insertion!Ahead /\ Insertion!ShowsWithin(Len(buf))
    /\ pc = "idle" /\ phase \in {"run", "print"} =>
         \A i \in 1..Len(styles) : InText(styles[i], Len(buf))

LEMMA LaidRanges ==
    ASSUME IInv, Laid, phase \in {"run", "print"}, pc = "idle"
    PROVE  /\ styles \in Seq(Ranges!StyleRange) /\ Len(styles) \in Nat
           /\ \A i \in 1..Len(styles) :
                styles[i] \in Ranges!StyleRange /\ InText(styles[i], Len(buf))
<1>1. styles \in Seq(Ranges!StyleRange)
  BY DEF IInv, Typed, RangesTyped, Ranges!TypeOK
<1>2. \A i \in 1..Len(styles) : InText(styles[i], Len(buf))
  BY DEF Laid
<1> QED
  BY <1>1, <1>2

(* A list that is in order is one that insert_style may be called on.        *)
LEMMA OrderedIsLaid ==
    ASSUME IInv, Laid, phase = "run", pc = "idle", Ranges!Ordered(styles)
    PROVE  Insertion!IInv /\ Insertion!Ahead /\ Insertion!ShowsWithin(Len(buf))
<1>1. Insertion!TypeOK
  <2>1. Ranges!TypeOK
    BY DEF IInv, Typed, RangesTyped
  <2> QED
    BY <2>1, SameCalls
<1>2. PICK n \in 0..MaxLen : n = Len(buf)
  BY RunFacts
<1>3. \A i \in 1..Len(styles) : InText(styles[i], n)
  BY <1>2, LaidRanges
<1>4. ASSUME NEW i \in 1..Len(styles) PROVE styles[i].eo <= n /\ styles[i].eo <= MaxLen
  <2>1. InText(styles[i], n)
    BY <1>3
  <2> QED
    BY <2>1, Bounds DEF InText
<1>5. Insertion!SortedDisjoint
  <2>1. Insertion!Ordered(styles)
    BY SameCalls
  <2> QED
    BY <1>4, <2>1 DEF Insertion!SortedDisjoint
<1>6. Insertion!NothingLeftBehind /\ Insertion!Ahead
  BY DEF Insertion!NothingLeftBehind, Insertion!Ahead
<1>7. Insertion!IInv
  BY <1>1, <1>5, <1>6 DEF Insertion!IInv
<1>8. Insertion!ShowsWithin(n)
  BY <1>4, <1>7, InsertionAssumptions, Insertion!RangesWithin
<1> QED
  BY <1>2, <1>6, <1>7, <1>8

(* And so it leaves one.                                                     *)
LEMMA CallLeaves ==
    Insertion!IInv /\ Insertion!ShowsWithin(Len(buf)) /\ pc = "idle" /\ Len(buf) \in 0..MaxLen
    => /\ Ranges!Ordered(styles)
       /\ \A i \in 1..Len(styles) : InText(styles[i], Len(buf))
<1> SUFFICES ASSUME Insertion!IInv, Insertion!ShowsWithin(Len(buf)), pc = "idle",
                    Len(buf) \in 0..MaxLen
             PROVE  /\ Ranges!Ordered(styles)
                    /\ \A i \in 1..Len(styles) : InText(styles[i], Len(buf))
  OBVIOUS
<1>1. \A i \in 1..Len(styles) : styles[i].eo <= Len(buf)
  BY InsertionAssumptions, Insertion!RangesWithin
<1>2. styles \in Seq(Ranges!StyleRange) /\ Ranges!Ordered(styles)
  <2>1. Insertion!TypeOK /\ Insertion!Ordered(styles)
    BY DEF Insertion!IInv, Insertion!SortedDisjoint
  <2> QED
    BY <2>1, SameParts, SameCalls DEF Insertion!TypeOK
<1>3. ASSUME NEW i \in 1..Len(styles) PROVE InText(styles[i], Len(buf))
  <2>1. styles[i] \in Ranges!StyleRange
    BY <1>2
  <2>2. styles[i].so \in Nat /\ styles[i].eo \in Nat
    BY <2>1, RangeFields
  <2>3. styles[i].so <= styles[i].eo
    BY <1>2 DEF Ranges!Ordered
  <2> QED
    BY <1>1, <2>2, <2>3, Bounds DEF InText
<1> QED
  BY <1>2, <1>3

LEMMA CallLeavesNext ==
    ASSUME Insertion!IInv', Insertion!ShowsWithin(Len(buf))', pc' = "idle",
           Len(buf') \in 0..MaxLen
    PROVE  /\ Ranges!Ordered(styles')
           /\ \A i \in 1..Len(styles') : InText(styles'[i], Len(buf'))
<1>1. (Insertion!IInv /\ Insertion!ShowsWithin(Len(buf)) /\ pc = "idle" /\ Len(buf) \in 0..MaxLen
       => /\ Ranges!Ordered(styles)
          /\ \A i \in 1..Len(styles) : InText(styles[i], Len(buf)))'
  BY CallLeaves, PTL
<1> QED
  BY <1>1

LEMMA LaidSame ==
    ASSUME Laid, UNCHANGED ranges, buf' = buf, pc = "loop" => phase' = "run",
           phase' \in {"run", "print"} => phase \in {"run", "print"}
    PROVE  Laid'
<1>1. styles' = styles /\ s1' = s1 /\ old_so' = old_so /\ node' = node /\ pc' = pc
  BY DEF ranges
<1>2. ASSUME pc = "loop"
      PROVE  /\ phase' = "run"
             /\ Insertion!IInv' /\ Insertion!Ahead' /\ Insertion!ShowsWithin(Len(buf))'
  <2>1. UNCHANGED Insertion!vars
    BY <1>1 DEF Insertion!vars
  <2>2. Insertion!IInv /\ Insertion!Ahead /\ Insertion!ShowsWithin(Len(buf))
    BY <1>2 DEF Laid
  <2>3. Insertion!IInv'
    BY <2>1, <2>2, InsertionAssumptions, Insertion!NextInv
  <2>4. Insertion!Ahead'
    BY <1>1, <2>2 DEF Insertion!Ahead, Insertion!Behind, Insertion!Empty
  <2>5. Insertion!layers' = Insertion!layers /\ Insertion!points' = Insertion!points
    BY <2>1, InsertionAssumptions, Insertion!StutterShows
  <2>6. Insertion!ShowsWithin(Len(buf))'
    BY <2>2, <2>5 DEF Insertion!ShowsWithin, Insertion!Layers!Tagged
  <2> QED
    BY <1>2, <2>3, <2>4, <2>6
<1>3. ASSUME pc = "idle", phase' \in {"run", "print"}
      PROVE  \A i \in 1..Len(styles') : InText(styles'[i], Len(buf'))
  BY <1>1, <1>3 DEF Laid
<1> QED
  BY <1>1, <1>2, <1>3 DEF Laid

(* update_positions moves every range; what ends at the end of the text      *)
(* grows with it.                                                            *)
LEMMA RangesMove ==
    ASSUME IInv, Laid, phase = "run", pc = "idle",
           NEW at \in 0..Len(buf), NEW new \in 0..MaxLen, at <= new,
           update_positions(at, new - Len(buf))
    PROVE  /\ Len(styles') = Len(styles)
           /\ \A i \in 1..Len(styles) :
                RangeMovesTo(styles[i], styles'[i], at, Len(buf), new, at = Len(buf))
<1>1. Len(buf) \in 0..MaxLen /\ Chain(input, mss, Len(buf))
  BY RunFacts
<1>2. mss[1].subv[1].eo = Len(buf)
  BY <1>1 DEF Chain, SubmatchSpec
<1>3. Len(styles) \in Nat /\ \A i \in 1..Len(styles) :
                              styles[i] \in Ranges!StyleRange /\ InText(styles[i], Len(buf))
  BY LaidRanges
<1>4. styles' = [i \in 1..Len(styles) |->
                    MoveSpec(styles[i], at, new - Len(buf), at = Len(buf))]
  BY <1>2 DEF update_positions, MoveStyles
<1>5. (at = Len(buf)) \in BOOLEAN
  OBVIOUS
<1>6. ASSUME NEW i \in 1..Len(styles)
      PROVE  RangeMovesTo(styles[i], styles'[i], at, Len(buf), new, at = Len(buf))
  BY <1>1, <1>3, <1>4, <1>5, MoveRange
<1> QED
  BY <1>3, <1>4, <1>6

LEMMA LaidMoves ==
    ASSUME IInv, Laid, phase = "run", pc = "idle", pc' = "idle",
           NEW at \in 0..Len(buf), Len(buf') \in 0..MaxLen, at <= Len(buf'),
           update_positions(at, Len(buf') - Len(buf))
    PROVE  Laid'
<1>1. PICK new \in 0..MaxLen : new = Len(buf')
  OBVIOUS
<1>2. at <= new /\ update_positions(at, new - Len(buf))
  BY <1>1
<1>3. /\ Len(styles') = Len(styles)
      /\ \A i \in 1..Len(styles) :
           RangeMovesTo(styles[i], styles'[i], at, Len(buf), new, at = Len(buf))
  BY <1>2, RangesMove
<1>4. \A i \in 1..Len(styles') : InText(styles'[i], Len(buf'))
  BY <1>1, <1>3 DEF RangeMovesTo
<1> QED
  BY <1>4 DEF Laid

(* Nothing was left of the line before, and the ranges are in order whenever *)
(* a style rule adds one.                                                    *)
NoneStale == phase = "idle" => styles = <<>>
TidyCalls == Starts("style") => Ranges!Ordered(styles)

LEMMA ReadLineLaid ==
    ASSUME IInv, Laid, NoneStale, ReadLine
    PROVE  Laid' /\ styles' = <<>> /\ pc' = "idle" /\ phase' = "run"
<1>1. phase = "idle" /\ phase' = "run" /\ UNCHANGED ranges
  BY DEF ReadLine, Enter
<1>2. styles' = <<>> /\ pc' = pc
  BY <1>1 DEF NoneStale, ranges
<1>3. pc' = "idle"
  BY <1>1, <1>2 DEF Laid, IInv, Typed, RangesTyped, Ranges!TypeOK
<1>4. \A i \in 1..Len(styles') : InText(styles'[i], Len(buf'))
  BY <1>2
<1> QED
  BY <1>1, <1>2, <1>3, <1>4 DEF Laid

LEMMA StyleCalls ==
    ASSUME IInv, Laid, TidyCalls, ExecStyle
    PROVE  /\ Insertion!Call(Starting.style, ctx.so, ctx.eo) /\ Starting.style \in Styles
           /\ ctx.so \in Insertion!Positions /\ ctx.eo \in Insertion!Positions
           /\ ctx.so <= ctx.eo /\ ctx.eo <= Len(buf) /\ Len(buf) \in 0..MaxLen
           /\ pc = "idle" /\ pc' = "loop" /\ phase = "run" /\ phase' = "run" /\ buf' = buf
           /\ Insertion!IInv /\ Insertion!IInv' /\ Insertion!ShowsWithin(Len(buf))
<1>1. /\ Starts("style") /\ Ranges!Call(Starting.style, ctx.so, ctx.eo)
      /\ buf' = buf /\ phase' = phase
  BY DEF ExecStyle
<1>2. phase = "run" /\ pc = "idle" /\ Starting.style \in Styles
  BY <1>1, StartFacts, RunFacts, RuleFields DEF Starts, Running
<1>3. ctx.so \in 0..Len(buf) /\ ctx.eo \in ctx.so..Len(buf) /\ Len(buf) \in 0..MaxLen
  BY <1>2, RunFacts
<1>4. /\ ctx.so \in Insertion!Positions /\ ctx.eo \in Insertion!Positions
      /\ ctx.so <= ctx.eo /\ ctx.eo <= Len(buf)
  BY <1>3, Bounds DEF Insertion!Positions
<1>5. Insertion!Call(Starting.style, ctx.so, ctx.eo) /\ pc' = "loop"
  BY <1>1, SameCalls DEF Ranges!Call
<1>6. Insertion!IInv /\ Insertion!ShowsWithin(Len(buf))
  <2>1. Ranges!Ordered(styles)
    BY <1>1 DEF TidyCalls
  <2> QED
    BY <1>2, <2>1, OrderedIsLaid
<1>7. Insertion!IInv'
  BY <1>2, <1>4, <1>5, <1>6, InsertionAssumptions, Insertion!CallInv
<1> QED
  BY <1>1, <1>2, <1>3, <1>4, <1>5, <1>6, <1>7

LEMMA ExecStyleLaid == IInv /\ Laid /\ TidyCalls /\ ExecStyle => Laid' /\ pc' = "loop"
<1> SUFFICES ASSUME IInv, Laid, TidyCalls, ExecStyle PROVE Laid' /\ pc' = "loop"
  OBVIOUS
<1>1. /\ Insertion!Call(Starting.style, ctx.so, ctx.eo) /\ Starting.style \in Styles
      /\ ctx.so \in Insertion!Positions /\ ctx.eo \in Insertion!Positions
      /\ ctx.so <= ctx.eo /\ ctx.eo <= Len(buf) /\ Len(buf) \in 0..MaxLen
      /\ pc = "idle" /\ pc' = "loop" /\ phase = "run" /\ phase' = "run" /\ buf' = buf
      /\ Insertion!IInv /\ Insertion!IInv' /\ Insertion!ShowsWithin(Len(buf))
  BY StyleCalls
<1>2. Insertion!Ahead'
  BY <1>1, InsertionAssumptions, Insertion!CallAhead
<1>3. PICK n \in 0..MaxLen : n = Len(buf)
  BY <1>1
<1>4. ctx.eo <= n /\ Insertion!ShowsWithin(n)
  BY <1>1, <1>3
<1>5. Insertion!ShowsWithin(n)'
  BY <1>1, <1>4, InsertionAssumptions, Insertion!CallWithin
<1>6. Insertion!ShowsWithin(Len(buf))'
  BY <1>1, <1>3, <1>5 DEF Insertion!ShowsWithin
<1> QED
  BY <1>1, <1>2, <1>6 DEF Laid

LEMMA InsertStyleShows ==
    ASSUME Laid, InsertStyle
    PROVE  /\ Insertion!IInv' /\ Insertion!Ahead' /\ buf' = buf /\ phase = "run" /\ phase' = "run"
           /\ Insertion!layers' = Insertion!layers /\ Insertion!points' = Insertion!points
           /\ Insertion!ShowsWithin(Len(buf))
<1>1. phase = "run" /\ phase' = "run" /\ buf' = buf /\ Ranges!Step /\ pc = "loop"
  BY StepBusy DEF InsertStyle
<1>2. /\ Insertion!IInv /\ Insertion!Ahead /\ Insertion!Step
      /\ Insertion!ShowsWithin(Len(buf))
  BY <1>1, SameStep DEF Laid
<1> QED
  BY <1>1, <1>2, InsertionAssumptions, Insertion!StepShows

LEMMA InsertStyleLaid ==
    ASSUME IInv, Laid, InsertStyle
    PROVE  Laid' /\ (pc' = "idle" => Ranges!Ordered(styles'))
<1>1. /\ Insertion!IInv' /\ Insertion!Ahead' /\ buf' = buf /\ phase = "run" /\ phase' = "run"
      /\ Insertion!layers' = Insertion!layers /\ Insertion!points' = Insertion!points
      /\ Insertion!ShowsWithin(Len(buf))
  BY InsertStyleShows
<1>2. Insertion!ShowsWithin(Len(buf))'
  BY <1>1 DEF Insertion!ShowsWithin, Insertion!Layers!Tagged
<1>3. Len(buf') \in 0..MaxLen
  BY <1>1, RunFacts
<1>4. pc' = "idle" => /\ Ranges!Ordered(styles')
                      /\ \A i \in 1..Len(styles') : InText(styles'[i], Len(buf'))
  BY <1>1, <1>2, <1>3, CallLeavesNext
<1> QED
  BY <1>1, <1>2, <1>4 DEF Laid

(* A set rule, and a substitution, tell update_positions of a change.        *)
LEMMA ExecSetMoves ==
    ASSUME IInv, ExecSet
    PROVE  /\ phase = "run" /\ pc = "idle" /\ phase' = "run" /\ pc' = "idle"
           /\ Len(buf') \in 0..MaxLen
           /\ \E at \in 0..Len(buf) :
                at <= Len(buf') /\ update_positions(at, Len(buf') - Len(buf))
<1>1. Starts("set") /\ phase' = phase
  BY DEF ExecSet
<1>2. phase = "run" /\ pc = "idle"
  BY <1>1, StartFacts DEF Starts, Running
<1>3. PICK n \in Nat :
        /\ Len(buf) + n - (ctx.eo - ctx.so) <= MaxLen
        /\ buf' = strbuf_replace(buf, ctx.so, ctx.eo, NewText(n))
        /\ update_positions(0, n - (ctx.eo - ctx.so))
  BY ExecSetChanges
<1>4. ctx.so \in 0..Len(buf) /\ ctx.eo \in ctx.so..Len(buf) /\ Len(buf) \in Nat
  BY <1>2, RunFacts
<1>5. Len(buf') \in 0..MaxLen /\ Len(buf') = Len(buf) + n - (ctx.eo - ctx.so)
  BY <1>2, <1>3, <1>4, ChangeText
<1>6. pc' = "idle"
  BY <1>2, <1>3 DEF update_positions
<1>7. n - (ctx.eo - ctx.so) = Len(buf') - Len(buf) /\ 0 \in 0..Len(buf) /\ 0 <= Len(buf')
  BY <1>4, <1>5, Bounds
<1>8. update_positions(0, Len(buf') - Len(buf))
  BY <1>3, <1>7
<1> QED
  BY <1>1, <1>2, <1>5, <1>6, <1>7, <1>8

LEMMA SubstituteMoves ==
    ASSUME IInv, Substitute
    PROVE  /\ phase = "run" /\ pc = "idle" /\ phase' = "run" /\ pc' = "idle"
           /\ Len(buf') \in 0..MaxLen
           /\ \E at \in 0..Len(buf) :
                at <= Len(buf') /\ update_positions(at, Len(buf') - Len(buf))
<1>1. Loops("subst") /\ phase' = phase
  BY DEF Substitute
<1>2. phase = "run" /\ pc = "idle"
  BY <1>1, LoopFacts DEF Loops, Running
<1>3. PICK p \in 0..Len(buf) : \E q \in p..Len(buf) : \E n \in Nat : Replaces(p, q, n)
  BY SubstituteChanges
<1>4. PICK q \in p..Len(buf), n \in Nat : Replaces(p, q, n)
  BY <1>3
<1>5. Len(buf') <= MaxLen /\ buf' \in Seq(0..MaxLen) /\ Len(buf') = Len(buf) + n - (q - p)
  BY <1>1, <1>4, SubstituteText
<1>6. update_positions(p, n - (q - p))
  BY <1>4 DEF Replaces, SubstitutedBy
<1>7. pc' = "idle"
  BY <1>2, <1>6 DEF update_positions
<1>8. Len(buf) \in Nat
  BY <1>2, RunFacts
<1>9. n - (q - p) = Len(buf') - Len(buf) /\ p <= Len(buf') /\ Len(buf') \in 0..MaxLen
  BY <1>5, <1>8, Bounds
<1>10. update_positions(p, Len(buf') - Len(buf))
  BY <1>6, <1>9
<1> QED
  BY <1>1, <1>2, <1>7, <1>9, <1>10

LEMMA OthersKeepStyles ==
    ASSUME \/ ExecMacro \/ ExecAction \/ ExecMulti \/ MultiNext \/ MultiEnd
           \/ ExecMatch \/ TryRegex \/ TrySubex \/ TryNothing \/ Die
           \/ BodyReturns \/ BodySkips \/ MatchEnd \/ ExecSubst \/ SubstNothing
           \/ FinishLine \/ UNCHANGED vars
    PROVE  /\ UNCHANGED ranges /\ buf' = buf /\ marks' = marks
           /\ phase' = phase \/ (phase = "run" /\ pc = "idle")
<1>1. UNCHANGED ranges /\ buf' = buf /\ marks' = marks
  BY DEF ExecMacro, ExecAction, ExecMulti, MultiNext, MultiEnd, ExecMatch, TryRegex,
         TrySubex, RunBody, TryNothing, BodyReturns, BodySkips, MatchEnd, ExecSubst,
         SubstNothing, Die, FinishLine, vars
<1>2. phase' = phase \/ (phase = "run" /\ pc = "idle")
  BY DEF ExecMacro, ExecAction, ExecMulti, MultiNext, MultiEnd, ExecMatch, TryRegex,
         TrySubex, RunBody, TryNothing, BodyReturns, BodySkips, MatchEnd, ExecSubst,
         SubstNothing, Die, FinishLine, Running, Matching, Loops, vars
<1> QED
  BY <1>1, <1>2

LEMMA NextLaid ==
    ASSUME IInv, Laid, NoneStale, TidyCalls, [Next]_vars PROVE Laid'
<1>1. CASE ReadLine
  BY <1>1, ReadLineLaid
<1>2. CASE ExecStyle \/ InsertStyle
  BY <1>2, ExecStyleLaid, InsertStyleLaid
<1>3. CASE ExecSet \/ Substitute
  <2>1. /\ phase = "run" /\ pc = "idle" /\ pc' = "idle" /\ Len(buf') \in 0..MaxLen
        /\ \E at \in 0..Len(buf) :
             at <= Len(buf') /\ update_positions(at, Len(buf') - Len(buf))
    BY <1>3, ExecSetMoves, SubstituteMoves
  <2> QED
    BY <2>1, LaidMoves
<1>4. CASE \/ ExecMacro \/ ExecAction \/ ExecMulti \/ MultiNext \/ MultiEnd
           \/ ExecMatch \/ TryRegex \/ TrySubex \/ TryNothing \/ Die
           \/ BodyReturns \/ BodySkips \/ MatchEnd \/ ExecSubst \/ SubstNothing
           \/ FinishLine \/ UNCHANGED vars
  <2>1. /\ UNCHANGED ranges /\ buf' = buf
        /\ phase' = phase \/ (phase = "run" /\ pc = "idle")
    BY <1>4, OthersKeepStyles
  <2>2. pc = "loop" => phase' = "run"
    BY <2>1 DEF Laid
  <2> QED
    BY <2>1, <2>2, LaidSame
<1>5. CASE PrintLine
  <2>1. phase = "print" /\ phase' = "idle" /\ pc' = pc /\ pc = "idle"
    BY <1>5 DEF PrintLine, Ranges!Clear, Ranges!locals
  <2> QED
    BY <2>1 DEF Laid
<1> QED
  BY <1>1, <1>2, <1>3, <1>4, <1>5 DEF Next, Step, RuleStep, Stopped

(* The ranges are in line between two calls; they stay so when text is put   *)
(* in at the end of the line if those that end there are apart.              *)
InLine ==
    pc = "idle" /\ phase \in {"run", "print"} =>
        \A i, j \in 1..Len(styles) : i < j => Leads(styles[i], styles[j])

Appends ==
    phase = "run" /\ \E more \in 1..MaxLen : update_positions(Len(buf), more)

ApartAtEnd ==
    Appends =>
        \A i, j \in 1..Len(styles) : i < j => ApartAt(styles[i], styles[j], Len(buf))

EndsApart == [][ApartAtEnd]_vars

LEMMA InLineMoves ==
    ASSUME IInv, Laid, InLine, phase = "run", pc = "idle",
           NEW at \in 0..Len(buf), Len(buf') \in 0..MaxLen, at <= Len(buf'),
           update_positions(at, Len(buf') - Len(buf)), ApartAtEnd
    PROVE  InLine'
<1>1. PICK len \in 0..MaxLen, new \in 0..MaxLen : len = Len(buf) /\ new = Len(buf')
  BY RunFacts
<1>2. /\ at \in 0..len /\ at <= new /\ update_positions(at, new - Len(buf))
      /\ len \in Nat /\ new \in Nat
  BY <1>1, Bounds
<1>3. /\ Len(styles') = Len(styles)
      /\ \A i \in 1..Len(styles) :
           RangeMovesTo(styles[i], styles'[i], at, Len(buf), new, at = Len(buf))
  BY <1>1, <1>2, RangesMove
<1>4. \A i \in 1..Len(styles) : InText(styles[i], len)
  BY <1>1, LaidRanges
<1>5. \A i, j \in 1..Len(styles) : i < j => Leads(styles[i], styles[j])
  BY DEF InLine
<1>6. ASSUME at = len, len < new, NEW i \in 1..Len(styles), NEW j \in 1..Len(styles), i < j
      PROVE  ApartAt(styles[i], styles[j], len)
  <2>1. PICK more \in 1..MaxLen : more = new - len
    BY <1>2, <1>6, Bounds
  <2>2. Appends
    BY <1>1, <1>2, <1>6, <2>1 DEF Appends
  <2> QED
    BY <1>1, <1>6, <2>2 DEF ApartAtEnd
<1>7. ASSUME NEW i \in 1..Len(styles), NEW j \in 1..Len(styles), i < j
      PROVE  Leads(styles'[i], styles'[j])
  <2>1. PICK g \in BOOLEAN : g = (at = Len(buf))
    OBVIOUS
  <2>2. /\ RangeMovesTo(styles[i], styles'[i], at, len, new, g)
        /\ RangeMovesTo(styles[j], styles'[j], at, len, new, g)
        /\ InText(styles[i], len) /\ InText(styles[j], len) /\ (g => at = len)
        /\ Leads(styles[i], styles[j])
        /\ g /\ len < new => ApartAt(styles[i], styles[j], len)
    BY <1>1, <1>3, <1>4, <1>5, <1>6, <1>7, <2>1
  <2> QED
    BY <1>2, <2>2, MoveInLine
<1> QED
  BY <1>3, <1>7 DEF InLine

LEMMA NextInLine ==
    ASSUME IInv, Laid, InLine, NoneStale, TidyCalls, [ApartAtEnd]_vars, [Next]_vars
    PROVE  InLine'
<1>1. CASE ReadLine
  <2>1. styles' = <<>>
    BY <1>1, ReadLineLaid
  <2> QED
    BY <2>1 DEF InLine
<1>2. CASE ExecStyle
  <2>1. pc' = "loop"
    BY <1>2, ExecStyleLaid
  <2> QED
    BY <2>1 DEF InLine
<1>3. CASE InsertStyle
  <2>1. pc' = "idle" => Ranges!Ordered(styles')
    BY <1>3, InsertStyleLaid
  <2> QED
    BY <2>1 DEF InLine, Ranges!Ordered, Ranges!Precedes, Ranges!SameRange, Leads
<1>4. CASE ExecSet \/ Substitute
  <2>1. /\ phase = "run" /\ pc = "idle" /\ pc' = "idle" /\ Len(buf') \in 0..MaxLen
        /\ \E at \in 0..Len(buf) :
             at <= Len(buf') /\ update_positions(at, Len(buf') - Len(buf))
    BY <1>4, ExecSetMoves, SubstituteMoves
  <2>2. CASE ApartAtEnd
    BY <2>1, <2>2, InLineMoves
  <2>3. CASE UNCHANGED vars
    BY <2>3 DEF InLine, vars, ranges
  <2> QED
    BY <2>2, <2>3
<1>5. CASE \/ ExecMacro \/ ExecAction \/ ExecMulti \/ MultiNext \/ MultiEnd
           \/ ExecMatch \/ TryRegex \/ TrySubex \/ TryNothing \/ Die
           \/ BodyReturns \/ BodySkips \/ MatchEnd \/ ExecSubst \/ SubstNothing
           \/ FinishLine \/ UNCHANGED vars
  <2>1. UNCHANGED ranges /\ (phase' = phase \/ (phase = "run" /\ pc = "idle"))
    BY <1>5, OthersKeepStyles
  <2> QED
    BY <2>1 DEF InLine, ranges
<1>6. CASE PrintLine
  <2>1. phase' = "idle"
    BY <1>6 DEF PrintLine
  <2> QED
    BY <2>1 DEF InLine
<1> QED
  BY <1>1, <1>2, <1>3, <1>4, <1>5, <1>6 DEF Next, Step, RuleStep, Stopped

(* What a script does to the text moves the styles with it: apply_styles is  *)
(* given ranges in the text, from left to right.                             *)
THEOREM StylesStayPrintable ==
    Spec /\ []NoneStale /\ []TidyCalls /\ EndsApart => []StylesPrintable
<1>1. Init => Laid /\ InLine
  BY DEF Init, Ranges!Init, Laid, InLine
<1>2. IInv /\ Laid /\ NoneStale /\ TidyCalls /\ [Next]_vars => Laid'
  BY NextLaid
<1>3. /\ IInv /\ Laid /\ InLine /\ NoneStale /\ TidyCalls /\ [ApartAtEnd]_vars /\ [Next]_vars
      => InLine'
  BY NextInLine
<1>4. IInv /\ Laid /\ InLine => StylesPrintable
  <2> SUFFICES ASSUME IInv, Laid, InLine, phase = "print"
               PROVE  /\ \A i \in 1..Len(styles) :
                            styles[i].so <= styles[i].eo /\ styles[i].eo <= Len(buf)
                      /\ \A i, j \in 1..Len(styles) :
                            i < j => styles[i].eo <= styles[j].so \/ styles[i].so = styles[j].so
    BY DEF StylesPrintable
  <2>1. pc = "idle" /\ Len(buf) \in 0..MaxLen
    BY Bounds DEF Laid, IInv, Typed, RangesTyped, Ranges!TypeOK
  <2>2. \A i \in 1..Len(styles) : InText(styles[i], Len(buf))
    BY <2>1, LaidRanges
  <2>3. \A i, j \in 1..Len(styles) : i < j => Leads(styles[i], styles[j])
    BY <2>1 DEF InLine
  <2> QED
    BY <2>1, <2>2, <2>3 DEF Leads, InText
<1> QED
  BY <1>1, <1>2, <1>3, <1>4, Inductive, PTL DEF Spec, EndsApart

-----------------------------------------------------------------------------
(* The styles laid over a character.  The cells that are characters of the   *)
(* line as it was read are all different, and what they show was laid on     *)
(* them.                                                                     *)
Follows ==
    phase \in {"run", "print"} =>
        /\ \A i \in 1..Len(buf) :
              buf[i] # 0 => buf[i] \in DOMAIN marks /\ marks[buf[i]] \in Seq(Styles)
        /\ \A i, j \in 1..Len(buf) : buf[i] = buf[j] /\ buf[i] # 0 => i = j
        /\ \A i \in 1..Len(buf) : buf[i] # 0 => Insertion!layers[i - 1] = marks[buf[i]]

(* Cell i of a text is cell j when p .. q is replaced by n characters.       *)
ComesTo(i, j, p, q, n) ==
    \/ i <= p /\ j = i
    \/ i > q /\ j = i + n - (q - p)

LEMMA CellsCome ==
    ASSUME NEW s \in Seq(0..MaxLen), NEW t \in Seq(0..MaxLen),
           NEW p \in 0..Len(s), NEW q \in p..Len(s), NEW n \in Nat,
           Len(t) = Len(s) + n - (q - p),
           \A i \in 1..p : t[i] = s[i],
           \A i \in 1..(Len(s) - q) : t[p + n + i] = s[q + i],
           \A i \in 1..n : t[p + i] = 0,
           NEW j \in 1..Len(t), t[j] # 0
    PROVE  \E i \in 1..Len(s) : t[j] = s[i] /\ ComesTo(i, j, p, q, n)
<1>1. Len(s) \in Nat /\ j \in Nat /\ 1 <= j /\ p \in Nat /\ q \in Nat /\ p <= q /\ q <= Len(s)
  OBVIOUS
<1>2. CASE j <= p
  <2>1. j \in 1..p /\ j \in 1..Len(s)
    BY <1>1, <1>2
  <2> QED
    BY <2>1 DEF ComesTo
<1>3. CASE p < j /\ j <= p + n
  <2>1. j - p \in 1..n /\ p + (j - p) = j
    BY <1>1, <1>3
  <2> QED
    BY <2>1
<1>4. CASE p + n < j
  <2>1. j <= Len(s) + n - (q - p)
    OBVIOUS
  <2> DEFINE m == j - p - n
  <2>2. /\ m \in 1..(Len(s) - q) /\ p + n + m = j /\ q + m \in 1..Len(s) /\ q + m > q
        /\ j = (q + m) + n - (q - p)
    <3>1. PICK k \in Nat : k = Len(s)
      BY <1>1
    <3>2. j <= k + n - (q - p) /\ q <= k
      BY <1>1, <2>1, <3>1
    <3>3. /\ m \in 1..(k - q) /\ p + n + m = j /\ q + m \in 1..k /\ q + m > q
          /\ j = (q + m) + n - (q - p)
      BY <1>1, <1>4, <3>2
    <3> QED
      BY <3>1, <3>3
  <2> HIDE DEF m
  <2>3. t[j] = s[q + m]
    BY <2>2
  <2> QED
    BY <2>2, <2>3 DEF ComesTo
<1> QED
  BY <1>1, <1>2, <1>3, <1>4

(* Between two calls the layers are what the list shows.                     *)
LEMMA IdleLayers ==
    IInv /\ pc = "idle" =>
        \A c \in Insertion!Characters : Insertion!layers[c] = Insertion!StylesAt(styles, c)
<1> SUFFICES ASSUME IInv, pc = "idle", NEW c \in Insertion!Characters
             PROVE  Insertion!layers[c] = Insertion!StylesAt(styles, c)
  OBVIOUS
<1>1. styles \in Seq(Insertion!StyleRange)
  <2>1. Insertion!TypeOK
    BY SameCalls DEF IInv, Typed, RangesTyped
  <2> QED
    BY <2>1 DEF Insertion!TypeOK
<1>2. Insertion!StylesAt(styles, c) \in Seq(Styles)
  BY <1>1, InsertionAssumptions, Insertion!StylesAre
<1>3. Insertion!StylesAt(styles, c) \o <<>> = Insertion!StylesAt(styles, c)
  BY <1>2, ConcatEmptySeq
<1> QED
  BY <1>3 DEF Insertion!layers, Insertion!Pending

LEMMA IdleLayersNext ==
    IInv' /\ pc' = "idle" =>
        \A c \in Insertion!Characters : Insertion!layers'[c] = Insertion!StylesAt(styles', c)
<1>1. (IInv /\ pc = "idle" =>
        \A c \in Insertion!Characters :
            Insertion!layers[c] = Insertion!StylesAt(styles, c))'
  BY IdleLayers, PTL
<1> QED
  BY <1>1 DEF Insertion!Characters

(* A character that stays shows what it showed before.                       *)
LEMMA CellsShow ==
    ASSUME IInv, IInv', Laid, phase = "run", phase' = "run", pc = "idle", pc' = "idle",
           NEW p \in 0..Len(buf), NEW q \in p..Len(buf), NEW n \in Nat,
           Len(buf') = Len(buf) + n - (q - p), Len(buf') \in 0..MaxLen,
           update_positions(p, n - (q - p)),
           NEW i \in 1..Len(buf), NEW j \in 1..Len(buf'), ComesTo(i, j, p, q, n)
    PROVE  Insertion!layers'[j - 1] = Insertion!layers[i - 1]
<1>1. Len(buf) \in 0..MaxLen /\ MaxLen \in Nat
  BY RunFacts, Bounds
<1>2. PICK len \in 0..MaxLen, new \in 0..MaxLen : len = Len(buf) /\ new = Len(buf')
  BY <1>1
<1>3. /\ p \in 0..len /\ q \in p..len /\ new = len + n - (q - p) /\ p <= new
      /\ n - (q - p) = new - len /\ i \in 1..len /\ j \in 1..new
  BY <1>1, <1>2
<1>4. update_positions(p, new - Len(buf))
  BY <1>2, <1>3
<1>5. /\ Len(styles') = Len(styles)
      /\ \A k \in 1..Len(styles) :
           RangeMovesTo(styles[k], styles'[k], p, Len(buf), new, p = Len(buf))
  BY <1>2, <1>3, <1>4, RangesMove
<1>6. \A k \in 1..Len(styles) : InText(styles[k], len)
  BY <1>2, LaidRanges
<1>7. i - 1 \in Insertion!Characters /\ j - 1 \in Insertion!Characters
  BY <1>1, <1>2, <1>3 DEF Insertion!Characters
<1>8. Insertion!layers[i - 1] = Insertion!StylesAt(styles, i - 1)
  BY <1>7, IdleLayers
<1>9. Insertion!layers'[j - 1] = Insertion!StylesAt(styles', j - 1)
  BY <1>7, IdleLayersNext
<1>10. ASSUME NEW k \in 1..Len(styles)
       PROVE  /\ styles'[k].style = styles[k].style
              /\ Insertion!Covers(styles'[k], j - 1) <=> Insertion!Covers(styles[k], i - 1)
  <2>1. PICK g \in BOOLEAN : RangeMovesTo(styles[k], styles'[k], p, len, new, g)
    BY <1>2, <1>5
  <2>2. styles'[k].style = styles[k].style
    BY <2>1 DEF RangeMovesTo
  <2>3. InText(styles[k], len)
    BY <1>6
  <2>4. Ranges!Covers(styles'[k], j - 1) <=> Ranges!Covers(styles[k], i - 1)
    <3>1. CASE i <= p /\ j = i
      <4>1. i - 1 \in Nat /\ i - 1 < p
        BY <1>1, <1>3, <3>1
      <4> QED
        BY <1>3, <2>1, <2>3, <3>1, <4>1, CoversBefore
    <3>2. CASE i > q /\ j = i + n - (q - p)
      <4>1. PICK c \in Nat, d \in Nat : c = i - 1 /\ d = j - 1
        BY <1>3
      <4>2. q <= c /\ ShiftsTo(c, d, p, q, n)
        BY <1>3, <3>2, <4>1 DEF ShiftsTo
      <4>3. p \in 0..len /\ q \in p..len /\ ShiftsTo(len, new, p, q, n)
        BY <1>3 DEF ShiftsTo
      <4>4. Ranges!Covers(styles'[k], d) <=> Ranges!Covers(styles[k], c)
        BY <2>1, <2>3, <4>2, <4>3, CoversBehind
      <4> QED
        BY <4>1, <4>4
    <3> QED
      BY <3>1, <3>2 DEF ComesTo
  <2> QED
    BY <2>2, <2>4, SameParts
<1>11. Insertion!StylesAt(styles', j - 1) = Insertion!StylesAt(styles, i - 1)
  <2>1. PICK s, t, c, d : s = styles /\ t = styles' /\ c = i - 1 /\ d = j - 1
    OBVIOUS
  <2>2. /\ Len(t) = Len(s)
        /\ \A k \in 1..Len(s) :
              t[k].style = s[k].style /\ (Insertion!Covers(t[k], d) <=> Insertion!Covers(s[k], c))
    BY <1>5, <1>10, <2>1
  <2>3. Insertion!StylesAt(t, d) = Insertion!StylesAt(s, c)
    BY <2>2, InsertionAssumptions, Insertion!StylesSame
  <2> QED
    BY <2>1, <2>3
<1> QED
  BY <1>8, <1>9, <1>11

LEMMA TextFollows ==
    ASSUME IInv, IInv', Laid, Follows, phase = "run", phase' = "run", pc = "idle", pc' = "idle",
           NEW p \in 0..Len(buf), NEW q \in p..Len(buf), NEW n \in Nat,
           buf' \in Seq(0..MaxLen), Len(buf') \in 0..MaxLen,
           Len(buf') = Len(buf) + n - (q - p),
           \A i \in 1..p : buf'[i] = buf[i],
           \A i \in 1..(Len(buf) - q) : buf'[p + n + i] = buf[q + i],
           \A i \in 1..n : buf'[p + i] = 0,
           update_positions(p, n - (q - p)), marks' = marks
    PROVE  Follows'
<1>1. buf \in Seq(0..MaxLen) /\ Len(buf) \in Nat
  BY RunFacts
<1>2. /\ \A i \in 1..Len(buf) :
            buf[i] # 0 => buf[i] \in DOMAIN marks /\ marks[buf[i]] \in Seq(Styles)
      /\ \A i, j \in 1..Len(buf) : buf[i] = buf[j] /\ buf[i] # 0 => i = j
      /\ \A i \in 1..Len(buf) : buf[i] # 0 => Insertion!layers[i - 1] = marks[buf[i]]
  BY DEF Follows
<1>3. \A j \in 1..Len(buf') :
        buf'[j] # 0 => \E i \in 1..Len(buf) : buf'[j] = buf[i] /\ ComesTo(i, j, p, q, n)
  <2>1. PICK s \in Seq(0..MaxLen), t \in Seq(0..MaxLen) : s = buf /\ t = buf'
    BY <1>1
  <2>2. /\ p \in 0..Len(s) /\ q \in p..Len(s) /\ Len(t) = Len(s) + n - (q - p)
        /\ \A i \in 1..p : t[i] = s[i]
        /\ \A i \in 1..(Len(s) - q) : t[p + n + i] = s[q + i]
        /\ \A i \in 1..n : t[p + i] = 0
    BY <2>1
  <2>3. \A j \in 1..Len(t) :
          t[j] # 0 => \E i \in 1..Len(s) : t[j] = s[i] /\ ComesTo(i, j, p, q, n)
    BY <2>2, CellsCome
  <2> QED
    BY <2>1, <2>3
<1>4. ASSUME NEW j \in 1..Len(buf'), buf'[j] # 0
      PROVE  /\ buf'[j] \in DOMAIN marks /\ marks[buf'[j]] \in Seq(Styles)
             /\ Insertion!layers'[j - 1] = marks[buf'[j]]
  <2>1. PICK i \in 1..Len(buf) : buf'[j] = buf[i] /\ ComesTo(i, j, p, q, n)
    BY <1>3, <1>4
  <2>2. Insertion!layers'[j - 1] = Insertion!layers[i - 1]
    BY <2>1, CellsShow
  <2> QED
    BY <1>2, <1>4, <2>1, <2>2
<1>5. ASSUME NEW j \in 1..Len(buf'), NEW k \in 1..Len(buf'), buf'[j] = buf'[k], buf'[j] # 0
      PROVE  j = k
  <2>1. PICK i \in 1..Len(buf) : buf'[j] = buf[i] /\ ComesTo(i, j, p, q, n)
    BY <1>3, <1>5
  <2>2. PICK m \in 1..Len(buf) : buf'[k] = buf[m] /\ ComesTo(m, k, p, q, n)
    BY <1>3, <1>5
  <2>3. i = m
    BY <1>2, <1>5, <2>1, <2>2
  <2>4. p \in Int /\ q \in Int /\ p <= q /\ i \in Int
    BY <1>1
  <2> QED
    BY <2>1, <2>2, <2>3, <2>4 DEF ComesTo
<1> QED
  BY <1>4, <1>5 DEF Follows

LEMMA SubstituteFollows ==
    ASSUME IInv, IInv', Laid, Follows, Substitute PROVE Follows'
<1>1. Loops("subst") /\ marks' = marks /\ phase' = phase
  BY DEF Substitute
<1>2. phase = "run" /\ pc = "idle"
  BY <1>1, LoopFacts DEF Loops, Running
<1>3. PICK p \in 0..Len(buf) : \E q \in p..Len(buf) : \E n \in Nat : Replaces(p, q, n)
  BY SubstituteChanges
<1>4. PICK q \in p..Len(buf), n \in Nat : Replaces(p, q, n)
  BY <1>3
<1>5. /\ buf' \in Seq(0..MaxLen) /\ Len(buf') <= MaxLen
      /\ Len(buf') = Len(buf) + n - (q - p)
      /\ \A i \in 1..p : buf'[i] = buf[i]
      /\ \A i \in 1..(Len(buf) - q) : buf'[p + n + i] = buf[q + i]
      /\ \A i \in 1..n : buf'[p + i] = 0
  BY <1>1, <1>4, SubstituteText
<1>6. update_positions(p, n - (q - p))
  BY <1>4 DEF Replaces, SubstitutedBy
<1>7. pc' = "idle" /\ phase' = "run" /\ Len(buf') \in 0..MaxLen
  BY <1>1, <1>2, <1>5, <1>6, Bounds DEF update_positions
<1> QED
  BY <1>1, <1>2, <1>5, <1>6, <1>7, TextFollows

(* A set rule updates the positions as if it had changed the start of the    *)
(* line: it has to be there.                                                 *)
SetsAtStart == Starts("set") => ctx.so = 0

LEMMA ExecSetFollows ==
    ASSUME IInv, IInv', Laid, Follows, SetsAtStart, ExecSet PROVE Follows'
<1>1. Starts("set") /\ marks' = marks /\ phase' = phase
  BY DEF ExecSet
<1>2. phase = "run" /\ pc = "idle"
  BY <1>1, StartFacts DEF Starts, Running
<1>3. PICK n \in Nat :
        /\ Len(buf) + n - (ctx.eo - ctx.so) <= MaxLen
        /\ buf' = strbuf_replace(buf, ctx.so, ctx.eo, NewText(n))
        /\ update_positions(0, n - (ctx.eo - ctx.so))
  BY ExecSetChanges
<1>4. ctx.so \in 0..Len(buf) /\ ctx.eo \in ctx.so..Len(buf) /\ Len(buf) \in Nat
  BY <1>2, RunFacts
<1>10. PICK p \in 0..Len(buf) : p = ctx.so
  BY <1>4
<1>5. PICK q \in p..Len(buf) : q = ctx.eo
  BY <1>4, <1>10
<1>6. p = 0
  BY <1>1, <1>10 DEF SetsAtStart
<1>7. /\ Len(buf) + n - (q - p) <= MaxLen
      /\ buf' = strbuf_replace(buf, p, q, NewText(n)) /\ update_positions(p, n - (q - p))
  BY <1>3, <1>5, <1>6, <1>10
<1>8. p \in {0, p} /\ (Loose(input) \/ p = 0 \/ p < ctx.eo)
  BY <1>6
<1>9. /\ buf' \in Seq(0..MaxLen) /\ Len(buf') \in 0..MaxLen
      /\ Len(buf') = Len(buf) + n - (q - p)
      /\ \A i \in 1..p : buf'[i] = buf[i]
      /\ \A i \in 1..(Len(buf) - q) : buf'[p + n + i] = buf[q + i]
      /\ \A i \in 1..n : buf'[p + i] = 0
  BY <1>2, <1>7, <1>8, ChangeText
<1>11. pc' = "idle" /\ phase' = "run"
  BY <1>1, <1>2, <1>7 DEF update_positions
<1> QED
  BY <1>1, <1>2, <1>7, <1>9, <1>11, TextFollows

(* A line that was just read shows nothing, and no style was laid on it.     *)
LEMMA ReadLineFollows ==
    ASSUME IInv, Laid, NoneStale, ReadLine PROVE Follows'
<1>1. styles' = <<>> /\ pc' = "idle"
  BY ReadLineLaid
<1>2. PICK len \in input.lens : /\ buf' = [i \in 1..len |-> i]
                                /\ marks' = [i \in 1..len |-> <<>>]
  BY DEF ReadLine, Enter
<1>3. len \in 0..MaxLen /\ len \in Nat
  <2>1. input \in Inputs
    BY DEF IInv, Typed
  <2> QED
    BY <1>2, <2>1, InputsAssumption, Bounds
<1>4. Len(buf') = len /\ DOMAIN marks' = 1..len
  BY <1>2, <1>3
<1>5. ASSUME NEW i \in 1..Len(buf')
      PROVE  /\ buf'[i] = i /\ i \in DOMAIN marks' /\ marks'[i] = <<>>
             /\ Insertion!layers'[i - 1] = <<>>
  <2>1. i \in 1..len
    BY <1>4
  <2>2. i - 1 \in Insertion!Characters
    BY <1>3, <2>1, Bounds DEF Insertion!Characters
  <2>3. Insertion!layers' = [c \in Insertion!Characters |-> <<>>]
    BY <1>1, InsertionAssumptions, Insertion!NothingShownNext
  <2> QED
    BY <1>2, <1>4, <2>1, <2>2, <2>3
<1>6. <<>> \in Seq(Styles)
  OBVIOUS
<1>7. ASSUME NEW i \in 1..Len(buf'), buf'[i] # 0
      PROVE  /\ buf'[i] \in DOMAIN marks' /\ marks'[buf'[i]] \in Seq(Styles)
             /\ Insertion!layers'[i - 1] = marks'[buf'[i]]
  BY <1>5, <1>6
<1>8. ASSUME NEW i \in 1..Len(buf'), NEW j \in 1..Len(buf'), buf'[i] = buf'[j], buf'[i] # 0
      PROVE  i = j
  BY <1>5, <1>8
<1> QED
  BY <1>7, <1>8 DEF Follows

(* A style rule lays its style over the characters of its context, and the   *)
(* insertion, from its call on, shows it on those.                           *)
LEMMA ExecStyleFollows ==
    ASSUME IInv, Laid, Follows, TidyCalls, ExecStyle PROVE Follows'
<1>1. /\ Insertion!Call(Starting.style, ctx.so, ctx.eo) /\ Starting.style \in Styles
      /\ ctx.so \in Insertion!Positions /\ ctx.eo \in Insertion!Positions
      /\ ctx.so <= ctx.eo /\ Len(buf) \in 0..MaxLen
      /\ phase = "run" /\ phase' = "run" /\ buf' = buf
      /\ Insertion!IInv /\ Insertion!IInv'
  BY StyleCalls
<1>2. Insertion!Added(Starting.style, ctx.so, ctx.eo)
  BY <1>1, InsertionAssumptions, Insertion!CallAdds
<1>3. marks' = [k \in DOMAIN marks |->
                  IF \E i \in 1..Len(buf) : buf[i] = k /\ Covered(i)
                    THEN Append(marks[k], Starting.style) ELSE marks[k]]
  BY DEF ExecStyle
<1>4. /\ \A i \in 1..Len(buf) :
            buf[i] # 0 => buf[i] \in DOMAIN marks /\ marks[buf[i]] \in Seq(Styles)
      /\ \A i, j \in 1..Len(buf) : buf[i] = buf[j] /\ buf[i] # 0 => i = j
      /\ \A i \in 1..Len(buf) : buf[i] # 0 => Insertion!layers[i - 1] = marks[buf[i]]
  BY <1>1 DEF Follows
<1>5. ASSUME NEW i \in 1..Len(buf), buf[i] # 0
      PROVE  /\ buf[i] \in DOMAIN marks' /\ marks'[buf[i]] \in Seq(Styles)
             /\ Insertion!layers'[i - 1] = marks'[buf[i]]
  <2>1. (\E j \in 1..Len(buf) : buf[j] = buf[i] /\ Covered(j)) <=> Covered(i)
    BY <1>4, <1>5
  <2>2. marks'[buf[i]] = IF Covered(i) THEN Append(marks[buf[i]], Starting.style)
                                       ELSE marks[buf[i]]
    BY <1>3, <1>4, <1>5, <2>1
  <2>3. i - 1 \in Insertion!Characters
    BY <1>1, Bounds DEF Insertion!Characters
  <2>4. Covered(i) <=> ctx.so <= i - 1 /\ i - 1 < ctx.eo
    <3>1. PICK so \in 0..MaxLen, eo \in 0..MaxLen : so = ctx.so /\ eo = ctx.eo
      BY <1>1 DEF Insertion!Positions
    <3>2. so < i /\ i <= eo <=> so <= i - 1 /\ i - 1 < eo
      BY <1>1, Bounds
    <3> QED
      BY <3>1, <3>2 DEF Covered
  <2>5. Insertion!layers'[i - 1] = IF Covered(i) THEN Insertion!layers[i - 1] \o <<Starting.style>>
                                                 ELSE Insertion!layers[i - 1]
    BY <1>2, <2>3, <2>4 DEF Insertion!Added
  <2>6. Insertion!layers[i - 1] = marks[buf[i]] /\ marks[buf[i]] \in Seq(Styles)
    BY <1>4, <1>5
  <2>7. \A m \in Seq(Styles) : \A st \in Styles :
          Append(m, st) \in Seq(Styles) /\ Append(m, st) = m \o <<st>>
    OBVIOUS
  <2> QED
    BY <1>1, <1>3, <1>4, <1>5, <2>2, <2>5, <2>6, <2>7
<1> QED
  BY <1>1, <1>4, <1>5 DEF Follows

LEMMA FollowsSame ==
    ASSUME Follows, Insertion!layers' = Insertion!layers, buf' = buf, marks' = marks,
           phase' \in {"run", "print"} => phase \in {"run", "print"}
    PROVE  Follows'
  BY DEF Follows

LEMMA NextFollows ==
    ASSUME IInv, IInv', Laid, Follows, NoneStale, TidyCalls, SetsAtStart, [Next]_vars
    PROVE  Follows'
<1>1. CASE ReadLine
  BY <1>1, ReadLineFollows
<1>2. CASE ExecStyle
  BY <1>2, ExecStyleFollows
<1>3. CASE InsertStyle
  <2>1. Insertion!layers' = Insertion!layers /\ buf' = buf /\ phase = "run"
    BY <1>3, InsertStyleShows
  <2>2. marks' = marks
    BY <1>3 DEF InsertStyle
  <2> QED
    BY <2>1, <2>2, FollowsSame
<1>4. CASE ExecSet \/ Substitute
  BY <1>4, ExecSetFollows, SubstituteFollows
<1>5. CASE \/ ExecMacro \/ ExecAction \/ ExecMulti \/ MultiNext \/ MultiEnd
           \/ ExecMatch \/ TryRegex \/ TrySubex \/ TryNothing \/ Die
           \/ BodyReturns \/ BodySkips \/ MatchEnd \/ ExecSubst \/ SubstNothing
           \/ FinishLine \/ UNCHANGED vars
  <2>1. UNCHANGED ranges /\ buf' = buf /\ marks' = marks
    BY <1>5, OthersKeepStyles
  <2>2. phase' = phase \/ phase = "run"
    BY <1>5, OthersKeepStyles
  <2>3. Insertion!layers' = Insertion!layers
    <3>1. UNCHANGED Insertion!vars
      BY <2>1 DEF ranges, Insertion!vars
    <3> QED
      BY <3>1, InsertionAssumptions, Insertion!StutterShows
  <2> QED
    BY <2>1, <2>2, <2>3, FollowsSame
<1>6. CASE PrintLine
  <2>1. phase' = "idle"
    BY <1>6 DEF PrintLine
  <2> QED
    BY <2>1 DEF Follows
<1> QED
  BY <1>1, <1>2, <1>3, <1>4, <1>5, <1>6 DEF Next, Step, RuleStep, Stopped

(* Whatever a script does to the text, a character that is still there       *)
(* carries the styles that were laid over it, in their order: as long as     *)
(* update_positions is told where the text was changed, no line leaves its   *)
(* ranges to the next, and the ranges are in order when a style is added.    *)
THEOREM MarksStayWithCells ==
    Spec /\ []NoneStale /\ []TidyCalls /\ []SetsAtStart => []MarksFollowCells
<1>1. Init => Laid /\ Follows
  BY DEF Init, Ranges!Init, Laid, Follows
<1>2. IInv /\ Laid /\ NoneStale /\ TidyCalls /\ [Next]_vars => Laid'
  BY NextLaid
<1>3. /\ IInv /\ IInv' /\ Laid /\ Follows /\ NoneStale /\ TidyCalls /\ SetsAtStart
      /\ [Next]_vars
      => Follows'
  BY NextFollows
<1>4. IInv /\ Laid /\ Follows => MarksFollowCells
  <2> SUFFICES ASSUME IInv, Laid, Follows, phase \in {"run", "print"}, pc = "idle",
                      NEW i \in 1..Len(buf), buf[i] # 0
               PROVE  Ranges!StylesAt(styles, i - 1) = marks[buf[i]]
    BY DEF MarksFollowCells, Between
  <2>1. Len(buf) \in 0..MaxLen
    BY Bounds DEF IInv, Typed
  <2>2. i - 1 \in Insertion!Characters
    BY <2>1, Bounds DEF Insertion!Characters
  <2>4. Insertion!layers[i - 1] = Insertion!StylesAt(styles, i - 1)
    BY <2>2, IdleLayers
  <2>5. Ranges!StylesAt(styles, i - 1) = Insertion!StylesAt(styles, i - 1)
    BY SameCalls
  <2> QED
    BY <2>4, <2>5 DEF Follows
<1> QED
  BY <1>1, <1>2, <1>3, <1>4, Inductive, PTL DEF Spec

(* Styles are left to the next line only by a rule that skips one.           *)
NeverSkips ==
    \A in \in Inputs : \A name \in DOMAIN in.rules :
        in.rules[name].type = "action" => in.rules[name].action # "SKIP"

Unskipped == NoneStale /\ (todo.op = "return" => todo.action # "SKIP")

LEMMA NextUnskipped ==
    ASSUME NeverSkips, IInv, Unskipped, [Next]_vars PROVE Unskipped'
<1> USE DEF Loop, Return, Exec
<1>1. CASE ReadLine
  <2>1. phase' = "run" /\ todo'.op = "exec"
    BY <1>1 DEF ReadLine, Enter
  <2> QED
    BY <2>1 DEF Unskipped, NoneStale
<1>2. CASE ExecAction
  <2>1. /\ phase = "run" /\ todo.name \in DOMAIN input.rules
        /\ Starting = input.rules[todo.name] /\ Starting.type = "action"
    BY <1>2, StartFacts DEF ExecAction
  <2>2. Starting.action # "SKIP"
    BY <2>1 DEF NeverSkips, IInv, Typed
  <2>3. todo'.action = Starting.action /\ phase' = "run"
    BY <1>2, <2>1 DEF ExecAction
  <2> QED
    BY <2>2, <2>3 DEF Unskipped, NoneStale
<1>3. CASE MatchEnd
  <2>1. phase = "run" /\ top.outer # "SKIP"
    BY <1>3, LoopFacts, TopFacts DEF MatchEnd
  <2>2. todo'.action = top.outer /\ phase' = "run"
    BY <1>3, <2>1 DEF MatchEnd, Leave
  <2> QED
    BY <2>1, <2>2 DEF Unskipped, NoneStale
<1>4. CASE \/ ExecMacro \/ ExecStyle \/ ExecMulti \/ MultiNext
           \/ ExecMatch \/ TryRegex \/ TrySubex
           \/ BodyReturns \/ ExecSubst \/ SubstNothing \/ ExecSet
  <2>1. phase = "run" /\ phase' = phase
    BY <1>4 DEF ExecMacro, ExecStyle, ExecMulti, MultiNext, ExecMatch, TryRegex, TrySubex,
                RunBody, BodyReturns, ExecSubst, SubstNothing, ExecSet, Starts, Loops, Returned,
                Matching, Running
  <2>2. CASE ExecMacro \/ MultiNext
    <3>1. todo'.op = "exec"
      BY <2>2 DEF ExecMacro, MultiNext
    <3> QED
      BY <2>1, <3>1 DEF Unskipped, NoneStale
  <2>3. CASE TryRegex \/ TrySubex
    <3>1. todo'.op = "exec"
      <4>1. PICK subv, so : RunBody(subv, so)
        BY <2>3, Zenon DEF TryRegex, TrySubex
      <4>2. todo' = Exec(rule.body)
        BY <4>1, Zenon DEF RunBody
      <4> QED
        BY <4>2
    <3> QED
      BY <2>1, <3>1 DEF Unskipped, NoneStale
  <2>4. CASE ExecStyle \/ ExecMulti \/ SubstNothing \/ ExecSet
    <3>1. todo' = Return("CONTINUE")
      BY <2>4, Zenon DEF ExecStyle, ExecMulti, SubstNothing, ExecSet, Leave
    <3> QED
      BY <2>1, <3>1 DEF Unskipped, NoneStale
  <2>5. CASE ExecMatch \/ BodyReturns \/ ExecSubst
    <3>1. todo' = Loop
      BY <2>5, Zenon DEF ExecMatch, BodyReturns, ExecSubst
    <3> QED
      BY <2>1, <3>1 DEF Unskipped, NoneStale
  <2> QED
    BY <1>4, <2>2, <2>3, <2>4, <2>5
<1>5. CASE InsertStyle \/ TryNothing \/ Die
  <2>1. todo' = todo /\ phase' # "idle"
    BY <1>5 DEF InsertStyle, TryNothing, Die, Loops, Running
  <2> QED
    BY <2>1 DEF Unskipped, NoneStale
<1>6. CASE MultiEnd \/ BodySkips
  <2>1. phase = "run" /\ phase' = phase /\ todo.op = "return" /\ todo'.action = todo.action
    BY <1>6 DEF MultiEnd, BodySkips, Returned, Running, Leave
  <2> QED
    BY <2>1 DEF Unskipped, NoneStale
<1>7. CASE Substitute
  <2>1. phase = "run" /\ phase' = phase
    BY <1>7 DEF Substitute, Loops, Running
  <2>2. todo' = todo \/ todo' = Return("CONTINUE")
    BY <1>7 DEF Substitute, Leave
  <2> QED
    BY <2>1, <2>2 DEF Unskipped, NoneStale
<1>8. CASE FinishLine
  <2>1. phase' = "print" /\ todo' = Loop
    BY <1>8 DEF FinishLine, Unskipped
  <2> QED
    BY <2>1 DEF Unskipped, NoneStale
<1>9. CASE PrintLine
  <2>1. styles' = <<>> /\ todo' = todo
    BY <1>9 DEF PrintLine, Ranges!Clear
  <2> QED
    BY <2>1 DEF Unskipped, NoneStale
<1>10. CASE UNCHANGED vars
  BY <1>10 DEF Unskipped, NoneStale, vars, ranges
<1> QED
  BY <1>1, <1>2, <1>3, <1>4, <1>5, <1>6, <1>7, <1>8, <1>9, <1>10
  DEF Next, Step, RuleStep, Stopped

(* A script that never skips a line leaves no styles to the next one: what   *)
(* the two theorems above ask of the lines is so for every such script.      *)
THEOREM NothingIsStale == ASSUME NeverSkips PROVE Spec => []NoneStale
<1>1. Init => Unskipped
  BY DEF Init, Ranges!Init, Unskipped, NoneStale, Loop
<1>2. IInv /\ Unskipped /\ [Next]_vars => Unskipped'
  BY NextUnskipped
<1>3. Unskipped => NoneStale
  BY DEF Unskipped
<1> QED
  BY <1>1, <1>2, <1>3, Inductive, PTL DEF Spec

-----------------------------------------------------------------------------
(* Breaks and skips.  Q holds every break of a script and, with a rule, all   *)
(* that lead to it.  A match rule goes on after a break, to its next find or *)
(* its next match: those of Q have one match, that looks once.               *)
BreaksEnd(in, Q) ==
    /\ Q \subseteq DOMAIN in.rules
    /\ \A name \in DOMAIN in.rules :
         LET r == in.rules[name]
         IN  /\ r.type = "action" /\ r.action = "BREAK" => name \in Q
             /\ r.type \in {"macro", "match"} /\ r.body \in Q => name \in Q
             /\ r.type = "multi" /\ (\E i \in 1..Len(r.rules) : r.rules[i] \in Q) => name \in Q
             /\ r.type = "match" /\ name \in Q =>
                  /\ Len(r.matches) <= 1
                  /\ \A i \in 1..Len(r.matches) :
                       r.matches[i].type = "regex" => ~r.matches[i].global

BreaksAreLast == \A in \in Inputs : \E Q \in SUBSET DOMAIN in.rules : BreaksEnd(in, Q)

AllIn(c, Q) == \A i \in 1..Len(c) : c[i].rule \in Q

(* What leads to a rule of Q is in Q, and the frame of a match rule below    *)
(* another one has found something.                                          *)
Framed(in, c, td, Q) ==
    /\ \A i, j \in 1..Len(c) : i < j /\ c[j].rule \in Q => c[i].rule \in Q
    /\ \A i \in 1..Len(c) :
         Type(in, c[i]) = "match" /\ (i < Len(c) \/ td # Loop) => c[i].again
    /\ td.op = "exec" /\ td.name \in Q => AllIn(c, Q)

(* A match rule whose body has asked for a break looks no more.              *)
Ending(in, c) ==
    /\ c # <<>> /\ Type(in, Last(c)) = "match" /\ Last(c).outer = "BREAK"
    /\ Last(c).again \/ Last(c).at > 1

Stops(Q) ==
    phase = "run" =>
        /\ Framed(input, ctl, todo, Q)
        /\ verdict = "BREAK" =>
             AllIn(ctl, Q) /\ (todo = Return("BREAK") \/ (todo = Loop /\ Ending(input, ctl)))
        /\ verdict = "SKIP" => todo = Return("SKIP")

LEMMA FramedPush ==
    ASSUME NEW in, NEW S, NEW c \in Seq(S), NEW td, NEW Q, Framed(in, c, td, Q),
           NEW f \in S, td = Exec(f.rule), NEW tm, tm.op # "exec",
           tm # Loop => Type(in, f) # "match"
    PROVE  Framed(in, Append(c, f), tm, Q)
<1>1. PICK a \in Seq(S) : a = Append(c, f)
  BY PushFrame
<1>2. /\ Len(c) \in Nat /\ Len(a) = Len(c) + 1 /\ a[Len(c) + 1] = f
      /\ \A i \in 1..Len(c) : a[i] = c[i]
  BY <1>1, PushFrame
<1>3. td # Loop /\ (f.rule \in Q => AllIn(c, Q))
  BY Todo DEF Framed
<1>4. ASSUME NEW i \in 1..Len(a), NEW j \in 1..Len(a), i < j, a[j].rule \in Q
      PROVE  a[i].rule \in Q
  <2>1. i \in 1..Len(c) /\ a[i] = c[i]
    BY <1>2, <1>4
  <2>2. CASE j \in 1..Len(c)
    BY <1>2, <1>4, <2>1, <2>2 DEF Framed
  <2>3. CASE j = Len(c) + 1
    BY <1>2, <1>3, <1>4, <2>1, <2>3 DEF AllIn
  <2> QED
    BY <1>2, <2>2, <2>3
<1>5. ASSUME NEW i \in 1..Len(a), Type(in, a[i]) = "match", i < Len(a) \/ tm # Loop
      PROVE  a[i].again
  <2>1. i # Len(c) + 1
    BY <1>2, <1>5
  <2>2. i \in 1..Len(c) /\ a[i] = c[i]
    BY <1>2, <2>1
  <2> QED
    BY <1>3, <1>5, <2>2 DEF Framed
<1> QED
  BY <1>1, <1>4, <1>5 DEF Framed

LEMMA FramedPop ==
    ASSUME NEW in, NEW S, NEW c \in Seq(S), c # <<>>, NEW td, NEW Q, Framed(in, c, td, Q),
           NEW tm, tm.op # "exec"
    PROVE  Framed(in, Front(c), tm, Q) /\ (AllIn(c, Q) => AllIn(Front(c), Q))
<1>1. PICK a \in Seq(S) : a = Front(c)
  BY PopFrame
<1>2. /\ Len(c) \in Nat \ {0} /\ Len(a) = Len(c) - 1 /\ \A i \in 1..(Len(c) - 1) : a[i] = c[i]
  BY <1>1, LastFrame, PopFrame
<1>3. \A i \in 1..Len(a) : i \in 1..Len(c) /\ i < Len(c) /\ a[i] = c[i]
  BY <1>2
<1>4. ASSUME NEW i \in 1..Len(a), NEW j \in 1..Len(a), i < j, a[j].rule \in Q
      PROVE  a[i].rule \in Q
  BY <1>3, <1>4 DEF Framed
<1>5. ASSUME NEW i \in 1..Len(a), Type(in, a[i]) = "match" PROVE a[i].again
  BY <1>3, <1>5 DEF Framed
<1>6. AllIn(c, Q) => AllIn(a, Q)
  BY <1>3 DEF AllIn
<1> QED
  BY <1>1, <1>4, <1>5, <1>6 DEF Framed

LEMMA FramedReplace ==
    ASSUME NEW in, NEW S, NEW c \in Seq(S), c # <<>>, NEW td, NEW Q, Framed(in, c, td, Q),
           NEW f \in S, f.rule = Last(c).rule, NEW tm,
           tm # Loop /\ Type(in, f) = "match" => f.again,
           tm.op = "exec" /\ tm.name \in Q => f.rule \in Q
    PROVE  /\ Framed(in, Front(c) \o <<f>>, tm, Q)
           /\ AllIn(c, Q) => AllIn(Front(c) \o <<f>>, Q)
<1>1. PICK a \in Seq(S) : a = Front(c) \o <<f>>
  BY ReplaceFrame
<1>2. /\ Len(c) \in Nat \ {0} /\ Len(a) = Len(c) /\ \A i \in 1..(Len(c) - 1) : a[i] = c[i]
      /\ a[Len(c)] = f /\ c[Len(c)].rule = f.rule
  BY <1>1, LastFrame, ReplaceFrame
<1>3. \A i \in 1..Len(c) : a[i].rule = c[i].rule
  BY <1>2
<1>4. \A i, j \in 1..Len(a) : i < j /\ a[j].rule \in Q => a[i].rule \in Q
  BY <1>2, <1>3 DEF Framed
<1>5. ASSUME NEW i \in 1..Len(a), Type(in, a[i]) = "match", i < Len(a) \/ tm # Loop
      PROVE  a[i].again
  <2>1. CASE i = Len(c)
    BY <1>2, <1>5, <2>1
  <2>2. CASE i \in 1..(Len(c) - 1)
    <3>1. a[i] = c[i] /\ i < Len(c)
      BY <1>2, <2>2
    <3> QED
      BY <1>2, <1>5, <3>1 DEF Framed
  <2> QED
    BY <1>2, <2>1, <2>2
<1>6. f.rule \in Q => AllIn(a, Q)
  BY <1>2, <1>3, <1>4 DEF AllIn
<1>7. AllIn(c, Q) => AllIn(a, Q)
  BY <1>2, <1>3 DEF AllIn
<1> QED
  BY <1>1, <1>4, <1>5, <1>6, <1>7 DEF Framed

LEMMA AfterVerdict ==
    ASSUME NEW Q, Stops(Q), phase = "run", verdict \in {"BREAK", "SKIP"}
    PROVE  /\ todo.op # "exec"
           /\ todo = Loop => verdict = "BREAK" /\ Ending(input, ctl)
           /\ todo # Loop => todo = Return(verdict)
           /\ verdict = "BREAK" => AllIn(ctl, Q)
  BY Todo DEF Stops

(* A frame that ends its loop finds nothing more.                            *)
LEMMA EndingFindsNothing ==
    ASSUME NEW Q, IInv, BreaksEnd(input, Q), Stops(Q), phase = "run", verdict = "BREAK",
           todo = Loop
    PROVE  ~Loops("subst") /\ ~TryRegex /\ ~TrySubex /\ ~Die
<1>1. /\ ctl # <<>> /\ Type(input, Last(ctl)) = "match" /\ Last(ctl).outer = "BREAK"
      /\ Last(ctl).again \/ Last(ctl).at > 1
      /\ AllIn(ctl, Q)
  BY AfterVerdict DEF Ending
<1>2. /\ top = Last(ctl) /\ rule = input.rules[top.rule] /\ rule.type = "match"
      /\ top.at \in Nat \ {0} /\ top.rule \in DOMAIN input.rules
  BY <1>1, TopFacts
<1>3. top.rule \in Q
  <2>1. Last(ctl) = ctl[Len(ctl)] /\ Len(ctl) \in 1..Len(ctl)
    BY <1>1, RunFacts, LastFrame
  <2> QED
    BY <1>1, <1>2, <2>1 DEF AllIn
<1>4. /\ Len(rule.matches) <= 1
      /\ \A i \in 1..Len(rule.matches) : rule.matches[i].type = "regex" => ~rule.matches[i].global
  BY <1>2, <1>3 DEF BreaksEnd
<1>5. Len(rule.matches) \in Nat
  <2>1. rule.matches \in Seq(Matches)
    BY <1>2, RunFacts, RuleFields
  <2> QED
    BY <2>1
<1>6. ASSUME top.at <= Len(rule.matches)
      PROVE  top.again /\ (match.type = "regex" => ~match.global)
  <2>1. top.at = 1 /\ top.at \in 1..Len(rule.matches)
    BY <1>2, <1>4, <1>5, <1>6
  <2> QED
    BY <1>1, <1>2, <1>4, <2>1 DEF match
<1> QED
  BY <1>2, <1>6 DEF Loops, TryRegex, TrySubex, Die, Matching

(* The rules that run another.                                               *)
LEMMA BreaksAbove ==
    ASSUME NEW Q, NEW in, BreaksEnd(in, Q), NEW name \in DOMAIN in.rules
    PROVE  /\ in.rules[name].type = "action" /\ in.rules[name].action = "BREAK" => name \in Q
           /\ in.rules[name].type \in {"macro", "match"} /\ in.rules[name].body \in Q => name \in Q
           /\ in.rules[name].type = "multi" =>
                \A i \in 1..Len(in.rules[name].rules) : in.rules[name].rules[i] \in Q => name \in Q
  BY DEF BreaksEnd

LEMMA StartsStop ==
    ASSUME NEW Q, IInv, BreaksEnd(input, Q), Stops(Q),
           ExecMacro \/ ExecAction \/ ExecStyle \/ ExecSet
    PROVE  Stops(Q)'
<1>1. /\ phase = "run" /\ phase' = "run" /\ todo.op = "exec" /\ input' = input /\ ctl' = ctl
      /\ verdict \notin {"BREAK", "SKIP"} /\ Framed(input, ctl, todo, Q)
  <2>1. phase = "run" /\ todo.op = "exec"
    BY DEF ExecMacro, ExecAction, ExecStyle, ExecSet, Starts, Running
  <2>2. phase' = phase /\ input' = input /\ ctl' = ctl
    BY DEF ExecMacro, ExecAction, ExecStyle, ExecSet, given
  <2> QED
    BY <2>1, <2>2, AfterVerdict DEF Stops
<1>2. /\ todo # Loop /\ todo.name \in DOMAIN input.rules
      /\ todo.name \in Q => AllIn(ctl, Q)
      /\ Starting = input.rules[todo.name]
  <2>1. todo # Loop /\ todo.name \in DOMAIN input.rules /\ Starting = input.rules[todo.name]
    BY StartFacts DEF ExecMacro, ExecAction, ExecStyle, ExecSet
  <2> QED
    BY <1>1, <2>1 DEF Framed
<1>3. ASSUME NEW tm, tm # Loop, tm.op = "exec" /\ tm.name \in Q => AllIn(ctl, Q)
      PROVE  Framed(input, ctl, tm, Q)
  BY <1>1, <1>2, <1>3 DEF Framed
<1>4. CASE ExecMacro
  <2>1. Starting.type = "macro" /\ todo' = Exec(Starting.body) /\ verdict' = verdict
    BY <1>4, StartFacts DEF ExecMacro
  <2>2. Starting.body \in Q => AllIn(ctl, Q)
    BY <1>2, <2>1, BreaksAbove
  <2>3. Framed(input, ctl, todo', Q)
    BY <1>3, <2>1, <2>2, Todo
  <2> QED
    BY <1>1, <2>1, <2>3 DEF Stops
<1>5. CASE ExecAction
  <2>1. Starting.type = "action" /\ todo' = Return(Starting.action) /\ verdict' = Starting.action
    BY <1>5, StartFacts DEF ExecAction
  <2>2. Starting.action = "BREAK" => AllIn(ctl, Q)
    BY <1>2, <2>1, BreaksAbove
  <2>3. Framed(input, ctl, todo', Q)
    BY <1>3, <2>1, Todo
  <2> QED
    BY <1>1, <2>1, <2>2, <2>3 DEF Stops
<1>6. CASE ExecStyle \/ ExecSet
  <2>1. todo' = Return("CONTINUE") /\ verdict' = verdict
    BY <1>6, Zenon DEF ExecStyle, ExecSet
  <2>2. Framed(input, ctl, todo', Q)
    BY <1>3, <2>1, Todo
  <2> QED
    BY <1>1, <2>1, <2>2 DEF Stops
<1> QED
  BY <1>4, <1>5, <1>6

LEMMA PushesStop ==
    ASSUME NEW Q, IInv, Stops(Q), ExecMulti \/ ExecMatch \/ ExecSubst
    PROVE  Stops(Q)'
<1>1. PICK from, till :
        /\ Starts("multi") \/ Starts("match") \/ Starts("subst")
        /\ ctl' = Append(ctl, Frame(todo.name, from, till))
        /\ \/ todo' = Loop
           \/ Starts("multi") /\ todo' = Return("CONTINUE")
        /\ input' = input /\ phase' = phase /\ verdict' = verdict
        /\ from \in Nat /\ till \in Nat
  <2>1. CASE ExecMulti
    BY <2>1 DEF ExecMulti, given
  <2>2. CASE ExecMatch
    <3>1. ctx.so \in Nat
      <4>1. phase = "run"
        BY <2>2, StartFacts DEF ExecMatch
      <4> QED
        BY <4>1, RunFacts
    <3> QED
      BY <2>2, <3>1 DEF ExecMatch, given
  <2>3. CASE ExecSubst
    <3>1. ctx.so \in Nat /\ ctx.eo \in Nat
      <4>1. phase = "run"
        BY <2>3, StartFacts DEF ExecSubst
      <4> QED
        BY <4>1, RunFacts
    <3> QED
      BY <2>3, <3>1 DEF ExecSubst, given
  <2> QED
    BY <2>1, <2>2, <2>3
<1>2. PICK f : f = Frame(todo.name, from, till)
  OBVIOUS
<1>3. /\ phase = "run" /\ todo.op = "exec" /\ todo.name \in DOMAIN input.rules
      /\ Starts("multi") => input.rules[todo.name].type = "multi"
  <2>1. phase = "run" /\ todo.op = "exec"
    BY <1>1 DEF Starts, Running
  <2> QED
    BY <1>1, <2>1, StartFacts
<1>4. /\ f \in Frames(input) /\ f.rule = todo.name
      /\ Starts("multi") => Type(input, f) = "multi"
  BY <1>1, <1>2, <1>3, FrameTyped DEF Type
<1>5. ctl \in Seq(Frames(input)) /\ Framed(input, ctl, todo, Q) /\ todo = Exec(f.rule)
      /\ verdict \notin {"BREAK", "SKIP"}
  <2>1. todo \in Todos(input) /\ ctl \in Seq(Frames(input))
    BY <1>3, RunFacts
  <2>2. todo = Exec(todo.name)
    BY <1>3, <2>1 DEF Todos, Loop, Exec
  <2> QED
    BY <1>3, <1>4, <2>1, <2>2, AfterVerdict DEF Stops
<1>6. todo'.op # "exec" /\ (todo' # Loop => Type(input, f) # "match")
  BY <1>1, <1>4, Todo
<1>7. Framed(input, Append(ctl, f), todo', Q)
  BY <1>4, <1>5, <1>6, FramedPush
<1> QED
  BY <1>1, <1>2, <1>5, <1>7 DEF Stops

LEMMA FrameEdits ==
    ASSUME NEW in, NEW f \in Frames(in), NEW so
    PROVE  /\ [f EXCEPT !.at = @ + 1].rule = f.rule
           /\ [f EXCEPT !.so = so, !.again = TRUE].rule = f.rule
           /\ [f EXCEPT !.so = so, !.again = TRUE].again
           /\ [f EXCEPT !.so = so, !.again = TRUE].outer = f.outer
  BY DEF Frames

(* The body of the rule at the top starts: the next of a list, or that of a  *)
(* match rule that has found something.                                      *)
LEMMA BodiesStop ==
    ASSUME NEW Q, IInv, BreaksEnd(input, Q), Stops(Q), MultiNext \/ TryRegex \/ TrySubex
    PROVE  Stops(Q)'
<1>1. /\ input' = input /\ phase' = phase /\ verdict' = verdict /\ phase = "run" /\ ctl # <<>>
      /\ verdict \notin {"BREAK", "SKIP"}
  <2>1. CASE MultiNext
    <3>1. /\ input' = input /\ phase' = phase /\ verdict' = verdict /\ phase = "run" /\ ctl # <<>>
          /\ todo # Loop /\ todo.action = "CONTINUE"
      BY <2>1, ReturnFacts DEF MultiNext, given
    <3> QED
      BY <3>1, AfterVerdict, Todo
  <2>2. CASE TryRegex \/ TrySubex
    <3>1. input' = input /\ phase' = phase /\ verdict' = verdict
      BY <2>2, Zenon DEF TryRegex, TrySubex, RunBody, given
    <3>2. phase = "run" /\ ctl # <<>> /\ todo = Loop
      BY <2>2, LoopFacts DEF TryRegex, TrySubex, Matching
    <3> QED
      BY <2>2, <3>1, <3>2, AfterVerdict, EndingFindsNothing
  <2> QED
    BY <2>1, <2>2
<1>2. /\ top \in Frames(input) /\ top = Last(ctl) /\ top.rule \in DOMAIN input.rules
      /\ rule = input.rules[top.rule] /\ rule.type = Type(input, top)
      /\ ctl \in Seq(Frames(input)) /\ Framed(input, ctl, todo, Q)
  BY <1>1, TopFacts, RunFacts DEF Stops
<1>3. PICK f, name :
        /\ ctl' = Front(ctl) \o <<f>> /\ f.rule = top.rule /\ todo' = Exec(name)
        /\ rule.type = "match" => f.again
        /\ name \in Q => top.rule \in Q
  <2>1. CASE MultiNext
    <3>1. /\ ctl' = Front(ctl) \o <<[top EXCEPT !.at = @ + 1]>>
          /\ todo' = Exec(rule.rules[top.at]) /\ top.at <= Len(rule.rules) /\ rule.type = "multi"
      BY <2>1 DEF MultiNext, SetTop, Returned
    <3>2. rule.rules \in Seq(DOMAIN input.rules) /\ top.at \in Nat \ {0}
      BY <1>1, <1>2, <3>1, RunFacts, RuleFields DEF Frames
    <3>3. top.at \in 1..Len(rule.rules) /\ rule.rules[top.at] \in DOMAIN input.rules
      BY <3>1, <3>2
    <3>4. rule.rules[top.at] \in Q => top.rule \in Q
      BY <1>2, <3>1, <3>3, BreaksAbove
    <3>5. [top EXCEPT !.at = @ + 1].rule = top.rule
      BY <1>2, FrameEdits
    <3> QED
      BY <3>1, <3>3, <3>4, <3>5
  <2>2. CASE TryRegex \/ TrySubex
    <3>1. PICK subv, from : RunBody(subv, from)
      BY <2>2, Zenon DEF TryRegex, TrySubex
    <3>2. /\ ctl' = Front(ctl) \o <<[top EXCEPT !.so = from, !.again = TRUE]>>
          /\ todo' = Exec(rule.body)
      BY <3>1 DEF RunBody, SetTop
    <3>3. rule.type = "match" /\ rule.body \in DOMAIN input.rules
      <4>1. rule.type = "match"
        BY <2>2, LoopFacts DEF TryRegex, TrySubex, Matching
      <4> QED
        BY <1>1, <1>2, <4>1, RunFacts, RuleFields
    <3>4. rule.body \in Q => top.rule \in Q
      BY <1>2, <3>3, BreaksAbove
    <3>6. /\ [top EXCEPT !.so = from, !.again = TRUE].rule = top.rule
          /\ [top EXCEPT !.so = from, !.again = TRUE].again
      BY <1>2, FrameEdits
    <3> QED
      BY <3>2, <3>3, <3>4, <3>6
  <2> QED
    BY <2>1, <2>2
<1>4. Type(input, f) = rule.type
  BY <1>2, <1>3 DEF Type
<1>5. Framed(input, Front(ctl) \o <<f>>, todo', Q)
  <2>1. ctl \in Seq(Frames(input) \cup {f}) /\ f \in Frames(input) \cup {f}
    BY <1>2
  <2>2. todo'.op = "exec" /\ todo'.name \in Q => f.rule \in Q
    BY <1>3, Todo
  <2> QED
    BY <1>1, <1>2, <1>3, <1>4, <2>1, <2>2, FramedReplace
<1> QED
  BY <1>1, <1>3, <1>5 DEF Stops

(* A rule ends, with an action.                                              *)
LEMMA EndsStop ==
    ASSUME NEW Q, IInv, BreaksEnd(input, Q), Stops(Q),
           MultiEnd \/ BodySkips \/ MatchEnd \/ SubstNothing \/ (Substitute /\ todo' # todo)
    PROVE  Stops(Q)'
<1>1. PICK action :
        /\ input' = input /\ phase' = phase /\ verdict' = verdict /\ phase = "run"
        /\ ctl # <<>> /\ ctl' = Front(ctl) /\ todo' = Return(action)
        /\ verdict \in {"BREAK", "SKIP"} => action = verdict
  <2>1. CASE MultiEnd \/ BodySkips
    <3>1. /\ input' = input /\ phase' = phase /\ verdict' = verdict
          /\ ctl' = Front(ctl) /\ todo' = Return(todo.action)
      BY <2>1 DEF MultiEnd, BodySkips, Leave, given
    <3>2. phase = "run" /\ ctl # <<>> /\ todo # Loop
      BY <2>1, ReturnFacts DEF MultiEnd, BodySkips
    <3> QED
      BY <3>1, <3>2, AfterVerdict, Todo
  <2>2. CASE MatchEnd
    <3>1. /\ input' = input /\ phase' = phase /\ verdict' = verdict
          /\ ctl' = Front(ctl) /\ todo' = Return(top.outer)
      BY <2>2 DEF MatchEnd, Leave, given
    <3>2. phase = "run" /\ ctl # <<>> /\ todo = Loop
      BY <2>2, LoopFacts DEF MatchEnd
    <3>3. verdict \in {"BREAK", "SKIP"} => verdict = "BREAK" /\ top.outer = "BREAK"
      BY <3>2, AfterVerdict, TopFacts DEF Ending
    <3> QED
      BY <3>1, <3>2, <3>3
  <2>3. CASE SubstNothing \/ (Substitute /\ todo' # todo)
    <3>1. Loops("subst") /\ Leave("CONTINUE")
      BY <2>3 DEF SubstNothing, Substitute
    <3>2. input' = input /\ phase' = phase /\ verdict' = verdict
      BY <2>3 DEF SubstNothing, Substitute, given
    <3>3. phase = "run" /\ ctl # <<>> /\ todo = Loop
      BY <3>1, LoopFacts
    <3>4. verdict \notin {"BREAK", "SKIP"}
      BY <3>1, <3>3, AfterVerdict, EndingFindsNothing
    <3> QED
      BY <3>1, <3>2, <3>3, <3>4 DEF Leave
  <2> QED
    BY <2>1, <2>2, <2>3
<1>2. ctl \in Seq(Frames(input)) /\ Framed(input, ctl, todo, Q)
  BY <1>1, RunFacts DEF Stops
<1>3. Framed(input, Front(ctl), todo', Q) /\ (AllIn(ctl, Q) => AllIn(Front(ctl), Q))
  BY <1>1, <1>2, Todo, FramedPop
<1> QED
  BY <1>1, <1>3, AfterVerdict DEF Stops

(* The frame at the top goes on: after its body, or to its next match, or    *)
(* with its next substitution.                                               *)
LEMMA ReplacesStop ==
    ASSUME NEW Q, IInv, BreaksEnd(input, Q), Stops(Q),
           TryNothing \/ BodyReturns \/ (Substitute /\ todo' = todo)
    PROVE  Stops(Q)'
<1>1. /\ input' = input /\ phase' = phase /\ verdict' = verdict /\ phase = "run" /\ ctl # <<>>
      /\ todo' = Loop
  <2>1. CASE TryNothing
    BY <2>1, LoopFacts DEF TryNothing, given
  <2>2. CASE BodyReturns
    BY <2>2, ReturnFacts DEF BodyReturns, given
  <2>3. CASE Substitute /\ todo' = todo
    BY <2>3, LoopFacts DEF Substitute, given
  <2> QED
    BY <2>1, <2>2, <2>3
<1>2. /\ top \in Frames(input) /\ top = Last(ctl) /\ top.rule \in DOMAIN input.rules
      /\ rule = input.rules[top.rule] /\ rule.type = Type(input, top)
      /\ ctl \in Seq(Frames(input)) /\ Framed(input, ctl, todo, Q) /\ top.at \in Nat \ {0}
  BY <1>1, TopFacts, RunFacts DEF Stops
<1>3. verdict # "SKIP"
  <2>1. CASE TryNothing
    BY <1>1, <2>1, LoopFacts, AfterVerdict DEF TryNothing
  <2>2. CASE BodyReturns
    <3>1. todo # Loop /\ todo.action # "SKIP"
      BY <2>2, ReturnFacts DEF BodyReturns
    <3> QED
      BY <1>1, <3>1, AfterVerdict, Todo
  <2>3. CASE Substitute /\ todo' = todo
    BY <1>1, <2>3, AfterVerdict
  <2> QED
    BY <2>1, <2>2, <2>3
<1>4. PICK f :
        /\ ctl' = Front(ctl) \o <<f>> /\ f.rule = top.rule
        /\ verdict = "BREAK" =>
             rule.type = "match" /\ f.outer = "BREAK" /\ (f.again \/ f.at > 1)
  <2>1. CASE TryNothing
    <3>1. PICK f : f = [top EXCEPT !.at = @ + 1, !.so = ctx.so, !.again = FALSE]
      OBVIOUS
    <3>2. ctl' = Front(ctl) \o <<f>> /\ todo = Loop /\ rule.type = "match"
      BY <2>1, <3>1, LoopFacts DEF TryNothing, SetTop
    <3>3. f.rule = top.rule /\ f.at = top.at + 1 /\ f.outer = top.outer
      BY <1>2, <3>1 DEF Frames
    <3>4. f.at > 1
      BY <1>2, <3>3
    <3>5. verdict = "BREAK" => top.outer = "BREAK"
      BY <1>1, <1>2, <3>2, AfterVerdict DEF Ending
    <3> QED
      BY <3>2, <3>3, <3>4, <3>5
  <2>2. CASE BodyReturns
    <3>1. PICK f : f = [top EXCEPT !.so = ctx.eo,
                                   !.outer = IF todo.action = "BREAK" THEN "BREAK" ELSE @]
      OBVIOUS
    <3>2. ctl' = Front(ctl) \o <<f>> /\ todo # Loop /\ rule.type = "match"
      BY <2>2, <3>1, ReturnFacts DEF BodyReturns, SetTop, Returned
    <3>3. /\ f.rule = top.rule /\ f.again = top.again
          /\ todo.action = "BREAK" => f.outer = "BREAK"
      BY <1>2, <3>1 DEF Frames
    <3>4. top.again
      <4>1. Len(ctl) \in 1..Len(ctl) /\ ctl[Len(ctl)] = top
        BY <1>1, <1>2, LastFrame
      <4>2. Type(input, ctl[Len(ctl)]) = "match"
        BY <1>2, <3>2, <4>1
      <4> QED
        BY <1>2, <3>2, <4>1, <4>2 DEF Framed
    <3>5. verdict = "BREAK" => todo.action = "BREAK"
      BY <1>1, <3>2, AfterVerdict, Todo
    <3> QED
      BY <3>2, <3>3, <3>4, <3>5
  <2>3. CASE Substitute /\ todo' = todo
    <3>1. PICK so, f : f = [top EXCEPT !.so = so] /\ ctl' = Front(ctl) \o <<f>>
      <4>1. ~Leave("CONTINUE")
        BY <1>1, <2>3, Todo DEF Leave
      <4> QED
        BY <2>3, <4>1 DEF Substitute, SetTop
    <3>2. f.rule = top.rule
      BY <1>2, <3>1 DEF Frames
    <3>3. verdict # "BREAK"
      <4>1. Loops("subst") /\ todo = Loop
        BY <1>1, <2>3 DEF Substitute
      <4> QED
        BY <1>1, <4>1, EndingFindsNothing
    <3> QED
      BY <3>1, <3>2, <3>3
  <2> QED
    BY <2>1, <2>2, <2>3
<1>5. /\ Framed(input, Front(ctl) \o <<f>>, todo', Q)
      /\ AllIn(ctl, Q) => AllIn(Front(ctl) \o <<f>>, Q)
  <2>1. ctl \in Seq(Frames(input) \cup {f}) /\ f \in Frames(input) \cup {f}
    BY <1>2
  <2>2. todo'.op # "exec"
    BY <1>1, Todo
  <2> QED
    BY <1>1, <1>2, <1>4, <2>1, <2>2, FramedReplace
<1>6. ctl' # <<>> /\ Last(ctl') = f
  <2>1. ctl \in Seq(Frames(input) \cup {f}) /\ f \in Frames(input) \cup {f}
    BY <1>2
  <2>2. /\ Len(Front(ctl) \o <<f>>) = Len(ctl) /\ (Front(ctl) \o <<f>>)[Len(ctl)] = f
        /\ Front(ctl) \o <<f>> # <<>> /\ Last(Front(ctl) \o <<f>>) = f
    BY <1>1, <2>1, ReplaceFrame
  <2> QED
    BY <1>4, <2>2
<1>7. verdict = "BREAK" => AllIn(ctl', Q) /\ Ending(input, ctl')
  <2>1. verdict = "BREAK" => AllIn(ctl, Q)
    BY <1>1, AfterVerdict
  <2>2. Type(input, f) = rule.type
    BY <1>2, <1>4 DEF Type
  <2> QED
    BY <1>4, <1>5, <1>6, <2>1, <2>2 DEF Ending
<1> QED
  BY <1>1, <1>3, <1>4, <1>5, <1>7 DEF Stops

LEMMA FramedEmpty == ASSUME NEW in, NEW td, NEW Q PROVE Framed(in, <<>>, td, Q)
  BY DEF Framed, AllIn

LEMMA NextStops ==
    ASSUME NEW Q, IInv, BreaksEnd(input, Q), Stops(Q), [Next]_vars
    PROVE  Stops(Q)' /\ input' = input
<1>1. input' = input
  <2>1. UNCHANGED given => input' = input
    BY DEF given
  <2>2. UNCHANGED vars => input' = input
    BY DEF vars, given
  <2>3. ReadLine => input' = input
    BY DEF ReadLine
  <2>4. Substitute \/ ExecSet => input' = input
    BY DEF Substitute, ExecSet, given
  <2>5. Step => input' = input
    BY <2>1, <2>4, Zenon DEF Step, RuleStep, ExecMacro, ExecAction, ExecStyle, InsertStyle,
      ExecMulti, MultiNext, MultiEnd, ExecMatch, TryRegex, TrySubex, RunBody, TryNothing, Die,
      BodyReturns, BodySkips, MatchEnd, ExecSubst, SubstNothing, FinishLine, PrintLine
  <2> QED
    BY <2>2, <2>3, <2>5 DEF Next, Stopped
<1>2. CASE ReadLine
  <2>1. phase = "idle" /\ ctl' = ctl /\ verdict' = "CONTINUE"
    BY <1>2 DEF ReadLine, Enter
  <2>2. ctl' = <<>>
    BY <2>1 DEF IInv
  <2>3. Framed(input, <<>>, todo', Q)
    BY FramedEmpty
  <2> QED
    BY <1>1, <2>1, <2>2, <2>3 DEF Stops
<1>3. CASE InsertStyle \/ UNCHANGED vars
  <2>1. /\ phase' = phase /\ ctl' = ctl /\ todo' = todo /\ verdict' = verdict
    BY <1>3 DEF InsertStyle, vars
  <2> QED
    BY <1>1, <2>1 DEF Stops
<1>4. CASE Die \/ FinishLine \/ PrintLine
  <2>1. phase' # "run"
    BY <1>4 DEF Die, FinishLine, PrintLine
  <2> QED
    BY <1>1, <2>1 DEF Stops
<1>5. CASE ExecMacro \/ ExecAction \/ ExecStyle \/ ExecSet
  BY <1>1, <1>5, StartsStop
<1>6. CASE ExecMulti \/ ExecMatch \/ ExecSubst
  BY <1>1, <1>6, PushesStop
<1>7. CASE MultiNext \/ TryRegex \/ TrySubex
  BY <1>1, <1>7, BodiesStop
<1>8. CASE MultiEnd \/ BodySkips \/ MatchEnd \/ SubstNothing \/ (Substitute /\ todo' # todo)
  BY <1>1, <1>8, EndsStop
<1>9. CASE TryNothing \/ BodyReturns \/ (Substitute /\ todo' = todo)
  BY <1>1, <1>9, ReplacesStop
<1> QED
  BY <1>1, <1>2, <1>3, <1>4, <1>5, <1>6, <1>7, <1>8, <1>9, Zenon
  DEF Next, Step, RuleStep, Stopped

LEMMA NothingMore ==
    ASSUME NEW Q, IInv, BreaksEnd(input, Q), Stops(Q), [Next]_vars, phase = "run",
           verdict \in {"BREAK", "SKIP"}
    PROVE  /\ UNCHANGED <<buf, marks>>
           /\ verdict = "SKIP" => phase' # "print"
<1>1. todo.op # "exec" /\ ~Loops("subst")
  <2>1. verdict = "SKIP" => todo # Loop
    BY AfterVerdict
  <2>2. Loops("subst") => todo = Loop
    BY DEF Loops
  <2> QED
    BY <2>1, <2>2, AfterVerdict, EndingFindsNothing
<1>2. ~ExecStyle /\ ~ExecSet /\ ~Substitute /\ ~ReadLine /\ ~PrintLine
  BY <1>1 DEF ExecStyle, ExecSet, Starts, Substitute, ReadLine, Enter, PrintLine
<1>3. UNCHANGED <<buf, marks>>
  BY <1>2, Zenon DEF Next, Step, RuleStep, Stopped, vars, ExecMacro, ExecAction, InsertStyle,
    ExecMulti, MultiNext, MultiEnd, ExecMatch, TryRegex, TrySubex, RunBody, TryNothing, Die,
    BodyReturns, BodySkips, MatchEnd, ExecSubst, SubstNothing, FinishLine
<1>4. ASSUME verdict = "SKIP", phase' = "print" PROVE FALSE
  <2>1. FinishLine
    <3>1. UNCHANGED phase => phase' # "print"
      OBVIOUS
    <3>2. ~Die
      BY <1>4 DEF Die
    <3> QED
      BY <1>2, <1>4, <3>1, <3>2, Zenon DEF Next, Step, RuleStep, Stopped, vars, ExecMacro,
        ExecAction, InsertStyle, ExecMulti, MultiNext, MultiEnd, ExecMatch, TryRegex, TrySubex,
        RunBody, TryNothing, BodyReturns, BodySkips, MatchEnd, ExecSubst, SubstNothing
  <2>2. todo.op = "return" /\ todo.action # "SKIP"
    BY <1>4, <2>1 DEF FinishLine
  <2>3. todo = Return("SKIP")
    BY <1>4, <2>2, AfterVerdict, Todo
  <2> QED
    BY <2>2, <2>3, Todo
<1> QED
  BY <1>3, <1>4

(* After a break or a skip no rule touches the text or its styles, and a      *)
(* skipped line is not printed, in every script whose breaks end the rules    *)
(* around them: a match rule over a break has one match, that is not global.  *)
(* Another match, or another find, would go on with the line.                 *)
THEOREM VerdictsAreFinal == ASSUME BreaksAreLast PROVE Spec => ActionsAreFinal
<1> DEFINE Breaks == \E Q \in SUBSET DOMAIN input.rules : BreaksEnd(input, Q) /\ Stops(Q)
           Final  == /\ phase = "run" /\ verdict \in {"BREAK", "SKIP"} => UNCHANGED <<buf, marks>>
                     /\ phase = "run" /\ verdict = "SKIP" => phase' # "print"
<1>1. Init => Breaks
  <2> SUFFICES ASSUME Init PROVE Breaks
    OBVIOUS
  <2>1. input \in Inputs /\ phase = "idle"
    BY DEF Init
  <2>2. PICK Q \in SUBSET DOMAIN input.rules : BreaksEnd(input, Q)
    BY <2>1 DEF BreaksAreLast
  <2>3. Stops(Q)
    BY <2>1 DEF Stops
  <2> QED
    BY <2>2, <2>3
<1>2. IInv /\ Breaks /\ [Next]_vars => Breaks' /\ [Final]_vars
  <2> SUFFICES ASSUME IInv, Breaks, [Next]_vars PROVE Breaks' /\ Final
    OBVIOUS
  <2>1. PICK Q \in SUBSET DOMAIN input.rules : BreaksEnd(input, Q) /\ Stops(Q)
    OBVIOUS
  <2>2. Stops(Q)' /\ input' = input
    BY <2>1, NextStops
  <2>3. BreaksEnd(input', Q) /\ Q \in SUBSET DOMAIN input'.rules
    BY <2>1, <2>2
  <2>4. Final
    <3>1. CASE phase = "run" /\ verdict \in {"BREAK", "SKIP"}
      BY <2>1, <3>1, NothingMore
    <3> QED
      BY <3>1
  <2> QED
    BY <2>2, <2>3, <2>4
<1>3. Spec => [][Final]_vars
  <2> HIDE DEF Breaks, Final
  <2> QED
    BY <1>1, <1>2, Inductive, PTL DEF Spec
<1> QED
  BY <1>3 DEF ActionsAreFinal
===============================================================================
