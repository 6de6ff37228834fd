------------------------------- MODULE Options -------------------------------
(***************************************************************************)
(* The options of the command line (main of src/remark.c, identify_wrapper  *)
(* of src/wrap.c): read one after the other, a later one over an earlier    *)
(* one, and then checked together, before any line is read.                 *)
(*                                                                         *)
(* An argument is told by what main looks at: of a string its length, of a  *)
(* number its value, with -1 for one that is not made of digits, of a       *)
(* wrapping type the name before the colon.                                 *)
(***************************************************************************)
EXTENDS StrBuf

CONSTANT Width80        \* the width that naming a wrapper stands for: 80

ASSUME Width80Assumption == Width80 \in 1..(Modulus - 2)

VARIABLES
    opt,            \* the options
    args,           \* the arguments that are not read yet
    pc              \* "options" while they are read, then "idle", or "dead"

Unlimited == Modulus - 1        \* UINT32_MAX, the width when none is given

Defaults == [width |-> Unlimited, retain |-> 0, wrapper |-> "none", prepend |-> 0, append |-> 0]

parse_uint32(value) == value \in 0..(Modulus - 1)
Wrappers == {"none", "char", "word"}

identify_wrapper(o, name) ==
    [o EXCEPT !.wrapper = name,
              !.width = IF name # "none" /\ @ = Unlimited THEN Width80 ELSE @]

StringOption == args # <<>> /\ Head(args).option \in {"prepend", "append"}
NumberOption == args # <<>> /\ Head(args).option \in {"retain", "width"}
WrapOption   == args # <<>> /\ Head(args).option = "wrap"

(* One round of the loop around getopt_long.                                 *)
TakeOption(o) == opt' = o /\ args' = Tail(args) /\ UNCHANGED pc

ReadOption ==
    /\ pc = "options"
    /\ \/ /\ StringOption \/ (NumberOption /\ parse_uint32(Head(args).value))
          /\ TakeOption([opt EXCEPT ![Head(args).option] = Head(args).value])
       \/ /\ WrapOption /\ Head(args).value \in Wrappers
          /\ TakeOption(identify_wrapper(opt, Head(args).value))

(* A bad value is fatal, and --help and --version end the program as well.   *)
BadOption ==
    /\ pc = "options" /\ args # <<>>
    /\ \/ NumberOption /\ ~parse_uint32(Head(args).value)
       \/ WrapOption /\ Head(args).value \notin Wrappers
       \/ Head(args).option \in {"help", "version", "?"}
    /\ pc' = "dead"
    /\ UNCHANGED <<opt, args>>

(* Mutant: the margins may fill the width.                                   *)
MarginsFillWidth(o) == Unsigned(o.retain + o.append + o.prepend) > o.width

TooLong(o) == Unsigned(o.retain + o.append + o.prepend) >= o.width

(* After the loop: no wrapper is the one by character, and the margins must  *)
(* leave room for text.  The three lengths are added as uint32_t.            *)
CheckOptions ==
    /\ pc = "options" /\ args = <<>>
    /\ opt' = [opt EXCEPT !.wrapper = IF @ = "none" THEN "char" ELSE @]
    /\ pc' = IF TooLong(opt) THEN "dead" ELSE "idle"
    /\ UNCHANGED args

OptionsStep == ReadOption \/ BadOption \/ CheckOptions
===============================================================================
