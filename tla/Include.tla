------------------------------- MODULE Include -------------------------------
(***************************************************************************)
(* Files that include files (include_script of src/parser.y, the buffers of *)
(* src/lexer.l).  Each file is read by a yyparse of its own, nested in the  *)
(* one that has met the include; what they share is global: the file, the   *)
(* lookahead and the line number of the parser, the file and the buffer of  *)
(* the scanner.  include_script sets all that and puts it back.             *)
(*                                                                         *)
(* A file is a sequence of tokens, one on each line: SKIP, a statement of   *)
(* its own; INCLUDE; and strings, names of files, which are wrong but       *)
(* behind an include.  A name is the sequence of its parts.                 *)
(***************************************************************************)
EXTENDS Integers, Sequences, SequencesExt

CONSTANTS
    Disks,          \* functions from the paths of files to what they hold
    Main,           \* the name of the file on the command line
    HOME, PKGDATADIR,       \* where files are looked for as well
    MaxFiles        \* how many files the system lets the program open

ASSUME LimitAssumption == MaxFiles \in Nat

Names  == Seq(STRING)
Tokens == [type : {"SKIP", "INCLUDE", "STRING"}, text : Names]

Token(type)  == [type |-> type, text |-> <<>>]
String(name) == [type |-> "STRING", text |-> name]

Locked == <<Token("locked")>>       \* what a file holds that may not be read

ASSUME DisksAssumption ==
    /\ {Main, HOME, PKGDATADIR} \subseteq Names
    /\ \A d \in Disks : \A path \in DOMAIN d : d[path] \in Seq(Tokens) \cup {Locked}

VARIABLES
    disk,
    calls,          \* the calls of include_script, the innermost last: each
                    \* has its RemarkFile, and the locals of its yyparse
    file,           \* parser.y's file: the call whose RemarkFile it is, or NULL
    lex_file,       \* lexer.l's file
    buffer,         \* the call whose file the scanner reads
    yychar, yylineno,
    script,         \* what the script does: the statements, in their order
    status,         \* "start", "parse", "done", or "dead"
    where           \* what script_die names: a file, and a line

globals == <<file, lex_file, buffer, yychar, yylineno>>
vars == <<disk, calls, globals, script, status, where>>

NULL    == 0
YYEMPTY == Token("empty")
YYEOF   == Token("eof")

(* cat_files, and dir_name of gnulib; a path of no parts is ".".             *)
cat_files(dir, name) == dir \o name
dir_name(name)       == Front(name)
Absolute(name)       == Head(name) = "/"

Init ==
    /\ disk \in Disks
    /\ calls = <<>>
    /\ file = NULL /\ lex_file = NULL /\ buffer = NULL
    /\ yychar = YYEMPTY /\ yylineno = 1
    /\ script = <<>> /\ status = "start" /\ where = <<>>

-----------------------------------------------------------------------------
fopen(path) ==
    IF Len(calls) = MaxFiles THEN "EMFILE"
    ELSE IF path \notin DOMAIN disk THEN "ENOENT"
    ELSE IF disk[path] = Locked THEN "EACCES" ELSE "open"

(* Where a file is looked for.  The directory of the file that includes it   *)
(* is that of the name that file was included by.                            *)
Places(name) ==
    IF Absolute(name) THEN <<name>>
    ELSE <<IF file # NULL THEN cat_files(calls[file].directory, name) ELSE name,
           cat_files(HOME, name), cat_files(PKGDATADIR, name)>>

Tried(name) == SelectInSeq(Places(name), LAMBDA path : fopen(path) # "ENOENT")
Path(name)  == Places(name)[Tried(name)]
Found(name) == Tried(name) # 0 /\ fopen(Path(name)) = "open"

(* script_die: the program exits.                                            *)
script_die ==
    /\ status' = "dead"
    /\ where' = IF file = NULL THEN <<>> ELSE <<calls[file].filename, yylineno>>
    /\ UNCHANGED <<disk, calls, globals, script>>

RemarkFile(path, name) ==
    [path |-> path, filename |-> name, directory |-> dir_name(name),
     rules |-> <<>>, tokens |-> <<>>, previous |-> file,
     at |-> 0, reading |-> "statement", name |-> <<>>,
     old_yychar |-> yychar, old_yylineno |-> yylineno]

Open(stack, path, name) ==
    /\ calls' = Append(stack, RemarkFile(path, name))
    /\ file' = Len(calls') /\ lex_file' = Len(calls') /\ buffer' = Len(calls')
    /\ yychar' = YYEMPTY /\ yylineno' = 1
    /\ status' = "parse"
    /\ UNCHANGED <<disk, script, where>>

(* Mutant: a file that cannot be opened is tried again.                      *)
include_script_again(stack, name) ==
    IF Found(name) THEN Open(stack, Path(name), name) ELSE UNCHANGED vars

(* include_script up to its yyparse, with lexer_set_buffer.                  *)
include_script(stack, name) ==
    IF Found(name) THEN Open(stack, Path(name), name) ELSE script_die

parse_script ==
    /\ status = "start"
    /\ include_script(<<>>, Main)

-----------------------------------------------------------------------------
Parsing == status = "parse"
running == Last(calls)      \* the innermost call, whose yyparse runs

(* yylex: the next token of the scanner's buffer.  The text of a name is     *)
(* kept in the list of the scanner's file.  Between two tokens is a newline.  *)
(* The parser asks for no token where it knows what to do without: an         *)
(* include is carried out when its name has been read.                        *)
yylex ==
    /\ Parsing /\ yychar = YYEMPTY /\ running.reading # "include"
    /\ LET at    == calls[buffer].at
           lines == disk[calls[buffer].path]
       IN  IF at = Len(lines)
             THEN /\ yychar' = YYEOF
                  /\ UNCHANGED <<calls, yylineno>>
             ELSE /\ yychar' = lines[at + 1]
                  /\ yylineno' = IF at = 0 THEN yylineno ELSE yylineno + 1
                  /\ calls' = [i \in DOMAIN calls |->
                        [calls[i] EXCEPT
                            !.at = IF i = buffer THEN at + 1 ELSE @,
                            !.tokens = IF i = lex_file /\ yychar'.type = "STRING"
                                         THEN Append(@, yychar'.text) ELSE @]]
    /\ UNCHANGED <<disk, file, lex_file, buffer, script, status, where>>

Expects(what) == Parsing /\ yychar # YYEMPTY /\ running.reading = what

(* A statement is one of the rules of the parser's file.                     *)
Statement ==
    /\ Expects("statement") /\ yychar.type = "SKIP"
    /\ calls' = [calls EXCEPT ![file].rules = Append(@, <<running.path, running.at>>)]
    /\ yychar' = YYEMPTY
    /\ UNCHANGED <<disk, file, lex_file, buffer, yylineno, script, status, where>>

ReadInclude ==
    /\ Expects("statement") /\ yychar.type = "INCLUDE"
    /\ calls' = [calls EXCEPT ![Len(calls)].reading = "name"]
    /\ yychar' = YYEMPTY
    /\ UNCHANGED <<disk, file, lex_file, buffer, yylineno, script, status, where>>

ReadName ==
    /\ Expects("name") /\ yychar.type = "STRING"
    /\ calls' = [calls EXCEPT ![Len(calls)].reading = "include", ![Len(calls)].name = yychar.text]
    /\ yychar' = YYEMPTY
    /\ UNCHANGED <<disk, file, lex_file, buffer, yylineno, script, status, where>>

IncludeFile ==
    /\ Parsing /\ running.reading = "include"
    /\ include_script([calls EXCEPT ![Len(calls)].reading = "statement"], running.name)

(* A name that is not one of a style or a macro, or a syntax error.          *)
Wrong ==
    /\ \/ Expects("name") /\ yychar.type # "STRING"
       \/ Expects("statement") /\ yychar.type = "STRING"
    /\ script_die

(* Mutants: the file or the buffer of the scanner stays that of the file     *)
(* that has ended.                                                           *)
lexer_restore_buffer_file(rf) == buffer' = rf /\ UNCHANGED lex_file
lexer_restore_buffer_delete(rf) == lex_file' = rf /\ UNCHANGED buffer

lexer_restore_buffer(rf) == lex_file' = rf /\ buffer' = rf

(* Mutants: the end of the file, or its last line, stays.                    *)
PutBackLine  == yylineno' = running.old_yylineno /\ UNCHANGED yychar
PutBackToken == yychar' = running.old_yychar /\ UNCHANGED yylineno

PutBack == yychar' = running.old_yychar /\ yylineno' = running.old_yylineno

(* include_script after its yyparse: what the file says is a statement of    *)
(* the parser's file, now the one that includes it.                          *)
EndOfFile ==
    /\ Expects("statement") /\ yychar = YYEOF
    /\ lexer_restore_buffer(running.previous)
    /\ file' = running.previous
    /\ PutBack
    /\ IF file' = NULL
         THEN /\ calls' = <<>>
              /\ script' = running.rules /\ status' = "done"
         ELSE /\ calls' = [Front(calls) EXCEPT ![file'].rules = @ \o running.rules]
              /\ UNCHANGED <<script, status>>
    /\ UNCHANGED <<disk, where>>

Stopped == status \in {"done", "dead"} /\ UNCHANGED vars

Step ==
    \/ parse_script \/ yylex \/ Statement \/ ReadInclude \/ ReadName
    \/ IncludeFile \/ Wrong \/ EndOfFile

Next == Step \/ Stopped

(* Nothing holds up the program while it reads files.                        *)
FairSpec == Init /\ [][Next]_vars /\ WF_vars(Step)

-----------------------------------------------------------------------------
Paths == DOMAIN disk

TypeOK ==
    /\ {file, lex_file, buffer} \subseteq 0..Len(calls) /\ Len(calls) <= MaxFiles
    /\ \A i \in DOMAIN calls :
         /\ calls[i].path \in Paths /\ calls[i].at \in 0..Len(disk[calls[i].path])
         /\ calls[i].previous \in 0..(i - 1)
         /\ calls[i].reading \in {"statement", "name", "include"}
    /\ yychar.type \in {"SKIP", "INCLUDE", "STRING", "empty", "eof"} /\ yylineno \in Nat
    /\ status \in {"start", "parse", "done", "dead"}

(* What a script says: what its files say, each at every place where it is   *)
(* included, down to a depth.  TokensSay is what each token of a file says,  *)
(* where files that are included say what `said' tells.                      *)
Beside(dir, name) ==
    IF Absolute(name) THEN <<name>>
    ELSE <<dir \o name, HOME \o name, PKGDATADIR \o name>>

Nearest(files, dir, name) ==
    SelectInSeq(Beside(dir, name),
                LAMBDA path : path \in DOMAIN files /\ files[path] # Locked)

TokensSay(files, said, path, name) ==
    [i \in DOMAIN files[path] |->
        LET token == files[path][i]
        IN  CASE token.type = "SKIP"   -> <<<<path, i>>>>
              [] token.type = "STRING" -> said[<<dir_name(name), token.text>>]
              [] OTHER -> <<>>]

Says(files) ==
    LET says[depth \in Nat] ==
            [at \in Names \X Names |->
                LET i == Nearest(files, at[1], at[2])
                IN  IF depth = 0 \/ i = 0 THEN <<>>
                    ELSE FlattenSeq(TokensSay(files, says[depth - 1],
                                              Beside(at[1], at[2])[i], at[2]))]
    IN  says

Whole == Says(disk)[MaxFiles][<<<<>>, Main>>]

(* A file stands for what it says, at the place where it is included: the    *)
(* statements of all the files are read in that order, and none is left out  *)
(* or read again when the parser comes back from a file.                     *)
ReadInPlace ==
    /\ IsPrefix(FlattenSeq([i \in DOMAIN calls |-> calls[i].rules]) \o script, Whole)
    /\ status = "done" => script = Whole

(* The file and the line in a message are those of the token that is wrong,  *)
(* before, in and behind an included file.                                   *)
ErrorsLocated ==
    status = "dead" =>
        where = IF calls = <<>> THEN <<>>
                ELSE <<running.filename, IF running.at = 0 THEN 1 ELSE running.at>>

(* The names that were read in a file, and no others, are kept by that file, *)
(* until its end, and so is the name of every file that is still being read.  *)
TextsOf(tokens) ==
    FlattenSeq([i \in DOMAIN tokens |->
        IF tokens[i].type = "STRING" THEN <<tokens[i].text>> ELSE <<>>])

NamesKept ==
    \A i \in DOMAIN calls :
        /\ calls[i].tokens = TextsOf(SubSeq(disk[calls[i].path], 1, calls[i].at))
        /\ i > 1 => calls[i].filename \in Range(calls[i - 1].tokens)

(* A script is read to its end, or the program dies; files that include      *)
(* each other in a circle end at the limit of open files.                    *)
ParseEnds == <>(status \in {"done", "dead"})
=============================================================================
