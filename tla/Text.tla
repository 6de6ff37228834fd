--------------------------------- MODULE Text ---------------------------------
(***************************************************************************)
(* What src/common/strbuf.h promises: a text, and calls that change it or   *)
(* copy parts of it.  The operators are those that Execute and Wrap compute *)
(* with, whatever the memory is that holds the text.                        *)
(***************************************************************************)
EXTENDS StrBuf

CONSTANTS
    Cells,          \* what a byte can be
    NUL             \* the one that ends a C string

VARIABLES
    text,
    call,           \* the last call, with its arguments
    result          \* the string it returned

vars == <<text, call, result>>

Between(p, q) ==
    LET sp == normalize_strbuf_pos(text, p)
        ep == normalize_strbuf_pos(text, q)
    IN  SubSeq(text, Smaller(sp, ep) + 1, Larger(sp, ep))

CharAt(p) ==
    LET sp == normalize_strbuf_pos(text, p)
    IN  IF sp = Len(text) THEN <<NUL>> ELSE <<text[sp + 1]>>

(* A string in C ends before its first NUL.                                  *)
IsCString(str, of) ==
    /\ Len(str) <= Len(of) /\ str = SubSeq(of, 1, Len(str))
    /\ \A i \in 1..Len(str) : str[i] # NUL
    /\ Len(str) < Len(of) => of[Len(str) + 1] = NUL

Init == text = <<>> /\ call = [op |-> "none"] /\ result = <<>>

New ==
    /\ call'.op = "new"
    /\ text' = Copies(call'.times, call'.str) /\ result' = <<>>

Replace ==
    /\ call'.op = "replace"
    /\ text' = strbuf_replace(text, call'.p, call'.q, Copies(call'.times, call'.str))
    /\ result' = <<>>

(* What comes behind the text when it is made longer may be anything.        *)
SetLength ==
    /\ call'.op = "set_length"
    /\ Len(text') = call'.length
    /\ \A i \in 1..Smaller(Len(text), Len(text')) : text'[i] = text[i]
    /\ result' = <<>>

EnsureCapacity == call'.op = "ensure_capacity" /\ result' = <<>> /\ UNCHANGED text

Copy ==
    /\ \/ call'.op = "substring" /\ result' = Between(call'.p, call'.q)
       \/ call'.op = "char_at" /\ result' = CharAt(call'.p)
    /\ UNCHANGED text

Free ==
    /\ call'.op = "free"
    /\ IsCString(result', text) /\ text' = <<>>

Next == New \/ Replace \/ SetLength \/ EnsureCapacity \/ Copy \/ Free

Spec == Init /\ [][Next]_vars
===============================================================================
