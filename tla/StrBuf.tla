-------------------------------- MODULE StrBuf --------------------------------
(***************************************************************************)
(* The text of a line as the program holds it (src/common/strbuf.c): a      *)
(* sequence of cells, and positions into it that are 32 bit integers.       *)
(*                                                                         *)
(* Positions travel through the program as uint32_t and reach strbuf as     *)
(* int32_t.  normalize_strbuf_pos compares one with the uint32_t length of  *)
(* the text, so that a negative position, too, is the end of the text.      *)
(***************************************************************************)
EXTENDS Integers, Sequences

CONSTANT Modulus        \* uint32_t counts modulo this (2^32 in the program)

ASSUME ModulusAssumption == Modulus \in Nat \ {0}

Unsigned(x)   == x % Modulus
Signed(p)     == IF p < Modulus \div 2 THEN p ELSE p - Modulus
Larger(x, y)  == IF x > y THEN x ELSE y
Smaller(x, y) == IF x < y THEN x ELSE y

normalize_strbuf_pos(text, p) == Smaller(Unsigned(p), Len(text))

(* A position in a C string: a negative one counts from behind its end.      *)
normalize_str_pos(text, p) ==
    IF Signed(p) >= 0 THEN Smaller(p, Len(text)) ELSE Larger(Signed(p) + 1 + Len(text), 0)

(* How much of the text two positions cut out, in either order.              *)
SubstringLength(text, p, q) ==
    LET sp == normalize_str_pos(text, p)
        ep == normalize_str_pos(text, q)
    IN  Larger(sp, ep) - Smaller(sp, ep)

(* So many copies of a string, one behind the other.                         *)
Copies(times, str) ==
    [i \in 1..(times * Len(str)) |-> str[((i - 1) % Len(str)) + 1]]

(* The text with what lies between two positions, in either order, replaced. *)
strbuf_replace(text, p, q, new) ==
    LET sp == normalize_strbuf_pos(text, p)
        ep == normalize_strbuf_pos(text, q)
    IN  SubSeq(text, 1, Smaller(sp, ep)) \o new
            \o SubSeq(text, Larger(sp, ep) + 1, Len(text))

strbuf_insert(text, p, new) == strbuf_replace(text, p, p, new)
strbuf_delete(text, p, q)   == strbuf_replace(text, p, q, <<>>)
===============================================================================
