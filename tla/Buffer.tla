-------------------------------- MODULE Buffer --------------------------------
(***************************************************************************)
(* The string buffer (src/common/strbuf.c): a block of memory that grows,   *)
(* with the text at its start and a NUL behind it.  A call is one action.   *)
(*                                                                         *)
(* A block is a function from 0 .. its size-1.  One that is new or longer   *)
(* holds Garbage where nothing was written; so does what is read behind it. *)
(* What is written behind it makes its domain larger, which no property     *)
(* here allows.                                                             *)
(***************************************************************************)
EXTENDS StrBuf

CONSTANTS
    Cells, NUL, Garbage,
    Strings,            \* the strings of the callers
    Positions, Numbers, \* the positions they give, and how many copies they want
    StrBufCapacity,     \* the capacity of a new buffer
    MaxLen              \* bound: how long the text gets

ASSUME CellsAssumption == {NUL, Garbage} \subseteq Cells /\ Strings \subseteq Seq(Cells)
ASSUME SizesAssumption ==
    /\ Numbers \subseteq Nat /\ Positions \subseteq 0..(Modulus - 1)
    /\ StrBufCapacity \in Nat \ {0} /\ MaxLen \in Nat
    /\ Modulus > 2 * MaxLen + 2

VARIABLES sb, call, returned

buffer_vars == <<sb, call, returned>>

NoMemory == [i \in {} |-> Garbage]
Freed    == [buf |-> NoMemory, len |-> 0, capacity |-> 0]

-----------------------------------------------------------------------------
Block(mem, size) == [i \in 0..(size - 1) |-> IF i \in DOMAIN mem THEN mem[i] ELSE Garbage]

Read(mem, at, n) ==
    [i \in 1..n |-> IF at + i - 1 \in DOMAIN mem THEN mem[at + i - 1] ELSE Garbage]

(* memcpy and memmove.                                                       *)
Write(mem, at, str) ==
    [i \in DOMAIN mem \cup at..(at + Len(str) - 1) |->
        IF i \in at..(at + Len(str) - 1) THEN str[i - at + 1] ELSE mem[i]]

(* normalize_strbuf_pos: positions of the buffer, the lesser one first.      *)
Start(p, q) == Smaller(Smaller(Unsigned(p), sb.len), Smaller(Unsigned(q), sb.len))
End(p, q)   == Larger(Smaller(Unsigned(p), sb.len), Smaller(Unsigned(q), sb.len))

strbuf_new_with_capacity(capacity) ==
    [buf |-> Write(Block(NoMemory, capacity), 0, <<NUL>>), len |-> 0, capacity |-> capacity]

strbuf_ensure_capacity(b, min) ==
    IF min <= b.capacity THEN b
    ELSE LET capacity == Larger(min, b.len * 2 + 2)
             mem      == Block(b.buf, capacity)
         IN  [b EXCEPT !.capacity = capacity,
                       !.buf = IF b.len = 0 THEN Write(mem, 0, <<NUL>>) ELSE mem]

(* Mutants: the NUL is not moved; there is no room for it.                   *)
MakeRoom_text(sp, ep, addlen) ==
    LET b == strbuf_ensure_capacity(sb, sb.len + 1 - (ep - sp) + addlen)
    IN  [b EXCEPT !.buf = Write(@, sp + addlen, Read(@, ep, sb.len - ep)),
                  !.len = Unsigned(@ + addlen - (ep - sp))]

MakeRoom_short(sp, ep, addlen) ==
    LET b == strbuf_ensure_capacity(sb, sb.len - (ep - sp) + addlen)
    IN  [b EXCEPT !.buf = Write(@, sp + addlen, Read(@, ep, sb.len + 1 - ep)),
                  !.len = Unsigned(@ + addlen - (ep - sp))]

(* The text behind what goes, with its NUL, moves to where it will be.       *)
MakeRoom(sp, ep, addlen) ==
    LET b == strbuf_ensure_capacity(sb, sb.len + 1 - (ep - sp) + addlen)
    IN  [b EXCEPT !.buf = Write(@, sp + addlen, Read(@, ep, sb.len + 1 - ep)),
                  !.len = Unsigned(@ + addlen - (ep - sp))]

-----------------------------------------------------------------------------
BufferInit == sb = Freed /\ call = [op |-> "none"] /\ returned = <<>>

Alive   == sb.capacity > 0
Returns(str) == returned' = str

(* strbuf_new and strbuf_new_from_data_n, strbuf_new_from_substring_n.       *)
strbuf_new ==
    /\ ~Alive
    /\ sb' = strbuf_new_with_capacity(StrBufCapacity)
    /\ call' = [op |-> "new", times |-> 0, str |-> <<>>] /\ Returns(<<>>)

strbuf_new_from_data_n(times, str) ==
    LET data == Copies(times, str)
    IN  /\ ~Alive /\ Len(data) <= MaxLen
        /\ LET b   == strbuf_new_with_capacity(Len(data) + 1)
               mem == Write(b.buf, 0, data)
           IN  sb' = [b EXCEPT !.buf = Write(mem, Len(data), <<NUL>>), !.len = Len(data)]
        /\ call' = [op |-> "new", times |-> times, str |-> str] /\ Returns(<<>>)

(* strbuf_replace_data_n, and with it append, prepend, insert, set, delete   *)
(* and clear, which only say where.                                          *)
strbuf_replace_data_n(p, q, times, str) ==
    LET sp   == Start(p, q)
        ep   == End(p, q)
        data == Copies(times, str)
        b    == IF Len(data) = ep - sp THEN sb ELSE MakeRoom(sp, ep, Len(data))
    IN  /\ Alive /\ sb.len + Len(data) - (ep - sp) <= MaxLen
        /\ sb' = [b EXCEPT !.buf = Write(@, sp, data)]
        /\ call' = [op |-> "replace", p |-> p, q |-> q, times |-> times, str |-> str]
        /\ Returns(<<>>)

strbuf_set_length(length) ==
    /\ Alive /\ length <= MaxLen
    /\ LET b == strbuf_ensure_capacity(sb, length + 1)
       IN  sb' = [b EXCEPT !.buf = Write(@, length, <<NUL>>), !.len = length]
    /\ call' = [op |-> "set_length", length |-> length] /\ Returns(<<>>)

ensure_capacity(min) ==
    /\ Alive /\ min <= MaxLen + 1
    /\ sb' = strbuf_ensure_capacity(sb, min)
    /\ call' = [op |-> "ensure_capacity"] /\ Returns(<<>>)

(* The copy takes one byte more, over which its NUL is put.                  *)
strbuf_substring(p, q) ==
    /\ Alive
    /\ Returns(Read(sb.buf, Start(p, q), End(p, q) - Start(p, q)))
    /\ call' = [op |-> "substring", p |-> p, q |-> q]
    /\ UNCHANGED sb

strbuf_char_at(p) ==
    /\ Alive
    /\ Returns(Read(sb.buf, Start(p, p), 1))
    /\ call' = [op |-> "char_at", p |-> p]
    /\ UNCHANGED sb

(* strbuf_free_to_string, and strbuf_free: the memory is a C string from now *)
(* on, whatever length and capacity were.                                    *)
strbuf_free_to_string ==
    /\ Alive
    /\ \E n \in 0..sb.capacity :
         /\ \A i \in 1..n : Read(sb.buf, 0, n)[i] # NUL
         /\ n < sb.capacity => sb.buf[n] = NUL
         /\ Returns(Read(sb.buf, 0, n))
    /\ sb' = Freed /\ call' = [op |-> "free"]

BufferNext ==
    \/ strbuf_new \/ strbuf_free_to_string
    \/ \E times \in Numbers, str \in Strings :
         \/ strbuf_new_from_data_n(times, str)
         \/ \E p, q \in Positions : strbuf_replace_data_n(p, q, times, str)
    \/ \E length \in Numbers : strbuf_set_length(length) \/ ensure_capacity(length)
    \/ \E p \in Positions : strbuf_char_at(p) \/ \E q \in Positions : strbuf_substring(p, q)

BufferSpec == BufferInit /\ [][BufferNext]_buffer_vars

-----------------------------------------------------------------------------
BufferTypeOK ==
    /\ sb \in [buf : {sb.buf}, len : 0..MaxLen, capacity : Nat]
    /\ sb.buf \in [DOMAIN sb.buf -> Cells]

(* No call writes outside of the block, however it has grown, and where the  *)
(* text ends there is a NUL in it.                                           *)
Bounded ==
    /\ DOMAIN sb.buf = 0..(sb.capacity - 1)
    /\ Alive => sb.len < sb.capacity /\ sb.buf[sb.len] = NUL
    /\ ~Alive => sb = Freed

(* The block implements a text: every call does to the text what Execute and *)
(* Wrap take it to do, and no byte of it is lost when the block grows or the *)
(* text moves within it.                                                     *)
TheText == Read(sb.buf, 0, sb.len)
Abstract == INSTANCE Text WITH text <- TheText, result <- returned

ImplementsText == Abstract!Spec
===============================================================================
