# Verification of remark

`remark` (regex-markup 0.10.0) reads lines from standard input, runs a script of rules over each of them
(regular expressions that mark text up with styles, replace it, or skip the line), and prints the result,
wrapped to a width. It is a single-threaded C program. What makes it hard is not concurrency but
positions: contexts, style ranges, list iterators and wrapping offsets are all numbers or pointers into
something that another part of the program changes while they are held.

This directory holds TLA+ specifications of that program, the TLC configurations that check them on small
instances, and machine-checked proofs (TLAPS). Every definition is translated from the C source;
`PROJECT.json` ("map") names the lines.

## 1. The system

| Component | State it keeps | Operations | Correct when |
|---|---|---|---|
| **Rule engine** (`execute.c`, `match.c`, `regex-utils.c`) | the text of the line (`MatchBuffer.buffer`), a chain of contexts (`MatchState.parent`), the C stack of `execute_any_rule` | one function per rule type: style, action, macro, list, match, substitution, set; `try_match`; `update_positions` | every position still names the text it was set for after any substitution; a rule changes only what is in its context; `skip` and `break` do what they say; every line ends |
| **Style ranges** (`insert_style` in `execute.c`) | `MatchBuffer.styles`, a sorted list of ranges | insert a range, splitting it and those it meets | the list can always be printed from left to right, and says of each character which styles were laid over it, in which order |
| **Printing and wrapping** (`wrap.c`, `style.c`) | the buffer being cut into lines, an offset from the text to the buffer (`style_mod`), an iterator that stays between lines | cut a line by character or by word, put markup, retained text, prepend and append strings in | no text is lost or reordered, no line is too wide, every character is in its markup |
| **String buffer** (`common/strbuf.c`) | a block of memory, length, capacity | insert, replace and delete at positions, growing the block | nothing is written outside of the block, there is a NUL behind the text, and what lies outside of the positions stays |
| **Linked list** (`common/llist.c`, `common/iterator.c`) | doubly linked nodes, first, last, size; iterators that point at nodes | add, remove, index, iterate, change under an iterator | pointers agree in both directions, and the list is the sequence its callers think it is |
| **Hash table** (`common/hmap.c`) | buckets of chained entries, number of entries | put, get, remove, clear, grow, visit all values | a key has one value, the last one put, also while the table grows and entries are removed under a walk |
| **Script in memory** (`parser.y`, `rule.c`, `style.c`) | rules (a forest), counted styles and macros, two tables of names, prepend, append and main rule | the reductions of the grammar, `include_script`, `free_script` | no rule leads to itself, every rule has one owner, styles and macros are counted right, nothing is freed twice |
| **Main loop and options** (`remark.c`) | options, the line read | parse options, read lines, run prepend and append, print | the width has room for what is put around the text |
| **Substitution text** (`match.c`, `expand_substitution`) | none | expands `$1`, `` $` ``, `$&`, `$'` | it is read from the text before the change, and its length is what every position moves by |
| **Included files** (`include_script` in `parser.y`, buffers in `lexer.l`) | a stack of `RemarkFile`s on the C stack; globals that nested parsers share: file, line number, lookahead, scanner buffer | open a file by name in three places, parse it, put the globals back | a file stands for what it says where it is included; messages name the right line; parsing ends |
| **cacheline** (`cacheline.c`) | one held newline | a filter behind `remark` | all but the last newline is on the screen at once |
| **Lexer** (`lexer.l`) | scanner state | tokens | a text is kept as long as something points at it |

How they interact: `main` has the parser build the script once, then for each line calls `execute_script`,
which clears the `MatchBuffer` of the line before, puts a root context over the line and calls
`execute_any_rule`; that calls itself for the rules below, `insert_style` for styles and, after a
substitution, `update_positions` for the whole chain of contexts and all style ranges. Then `wrap_line` takes
the text and the ranges and prints. The containers are called by all of them. At the end `free_script` gives the
script back. Nothing is persisted and nothing runs concurrently, so there is no crash recovery and there are no
messages; interleaving arises only as *re-entrance*: a rule's body changes the text while the loop that
called it holds positions, a walk calls a function that changes what is walked over.

The hazards, each at its line and with the properties that cover it, are in `PROJECT.json`.

## 2. The modules

| Module | Models | Uses |
|---|---|---|
| `StyleLayers` | abstract: what styling a line promises | |
| `StyleRanges` | `insert_style`, its cases, the three `insort_style` functions | implements `StyleLayers` |
| `Inductions` | lemmas: induction and recursion on numbers, said of sets and functions; what `FlattenSeq` is | |
| `StyleRanges_proofs` | theorems about `StyleRanges` | extends `StyleRanges`, `Inductions` |
| `StrBuf` | positions in a text and their widths, replace, insert, delete, the length of a substring | |
| `Text` | abstract: a text and calls that change or copy it, with the operators of `StrBuf` | extends `StrBuf` |
| `Buffer` | `strbuf.c`: the block, its capacity, growing, the NUL | extends `StrBuf`, implements `Text` |
| `Execute` | the rule engine | extends `StrBuf`, instantiates `StyleRanges` |
| `Execute_proofs` | theorems about `Execute` | extends `Execute`, `Inductions`, instantiates `StyleRanges_proofs` |
| `Options` | the option loop of `main`, `identify_wrapper`, the check of the width | extends `StrBuf` |
| `Wrap` | `wrap_line` and `apply_styles` | extends `Options` |
| `CacheLine` | the filter behind the program | |
| `Remark` | the whole program: options, lines, the rules of the line and of the two strings, wrapping, the pipe to `cacheline` | extends `Wrap` and `CacheLine`, instantiates `Execute` |
| `Remark_proofs` | theorems about `Wrap`, `CacheLine` and `Remark` | extends `Remark`, `Inductions`, instantiates `Execute_proofs` |
| `CursorList` | abstract: a sequence with a cursor | |
| `LList` | `llist.c` and its iterator, pointer by pointer | implements `CursorList` |
| `LList_proofs` | theorems about `LList` | extends `LList`, `Inductions` |
| `Table` | abstract: a function from keys to values and a walk over it | |
| `HMap` | `hmap.c`, buckets and chains | implements `Table` |
| `Containers_proofs` | theorems about `HMap` and `Buffer` | extends `MCContainers`, `Inductions` |
| `Script` | the objects the parser makes and `free_script` | |
| `Script_proofs` | theorems about `Script` | extends `Script` |
| `Include` | nested files: what `include_script` and the scanner set and put back | |
| `Include_proofs` | theorems about `Include` | extends `Include`, `Inductions` |
| `Scripts` | how the rule files of the instances are written down | |
| `MCStyleRanges`, `MCExecute`, `MCRemark`, `MCLList`, `MCContainers` (`HMap` and `Buffer`), `MCScript`, `MCInclude` | the instances TLC checks | extend the modules they are named after |

Operators named "mutant" in a comment are not part of a specification: each is a plausible bug, and replacing the
definition it stands before by it makes the property named in `PROJECT.json` ("mutants") fail. They show that the
properties can fail.

### Styles: StyleLayers, StyleRanges

A list node is an index into the sequence `styles`. `Call` is the call of `insert_style`; each further step is one
turn of its loop (`execute.c:268-329`): the `Case...` actions carry the numbers of the comments in the
code, `Past` is a range that lies wholly before, `AppendRest` the insertion after the loop, `Clear` what
`execute_script` does between lines. `s1`, `old_so` and `node` are the locals. `GroupEnds` and `Trim` are
the loops of `insort_style1` to `insort_style3`.

`StyleLayers` knows no ranges. It says which styles, in which order, are on each character, and how many empty
styles stand at each position. The refinement mapping is at the end of `StyleRanges`; the property `LaysStyles` is
`StyleLayers!Spec` under it. While a call is under way the mapping shows the list as it was, or as it will be,
so that a call is one abstract step.

### The rule engine: StrBuf, Execute

The C stack is explicit: `ctl` holds the frames of `execute_multi_rule`, `execute_match_rule` and
`execute_substitution_rule` with their locals, `mss` the chain of `MatchState`s, and `todo` what happens next (a rule
is called, a loop goes round, an action is returned). One action is a call, a turn of a loop, or a return.
`update_positions` (`execute.c:225-258`) is one operator over the whole chain and all ranges.

The text is a sequence of cells: `i` for the i-th character of the line as read, `0` for one a rule put in. So a
property can ask whether a style is still on *the character* it was laid over (`marks`, a history variable). A
regular expression is told only by whether it may find the empty text, whether it is global and how many
subexpressions it has; what it finds is any substring of what it is given (`xregexec_substring`). A replacement is a
sequence of parts (`expand_substitution`): variables have the length the code takes from the match and its context, literal text any of
`Reps`. So one rule file stands for all with the same shape.

### Printing: Options, Wrap

`args` is read one option at a time (`ReadOption`, `BadOption`) and then checked (`CheckOptions`), so that what `wrap_line` may rely on
is what `main` accepts, not an assumption.

`Start` is the entry of `wrap_line`, `CutLine` the choice of where the line ends (`FirstEnd`, `WordEnd`) with the
removal of blanks, `MarkRange` one turn of the loop over the ranges, `FinishLine` the rest of the line's turn. The buffer is a sequence of
cells that say what they are (a character of the text, of a style's strings, of retained text, a newline), so that
`MarkedUp` can read it the way a terminal does. Positions are `uint32_t` (`Modulus`).

### The program: Remark, CacheLine

A `job` is an invocation: arguments, a script, and what is read. `Remark` owns the three `MatchBuffer`s (`mbs`). `at` says where
`try_line` is: it sets the buffers (`ReadLine`), runs the rule of the line, then those of `append` and `prepend` (`RunRule`, `RuleStep`,
`RuleDone`; `NoRule` where the script has none), lets `Wrap` print (`StartWrap`, `WrapStep`) and writes (`PrintBuffer`). The
rules are steps of `Execute`, instantiated on the buffer at hand. `SkipsLine` and `SkipsString` are the two
early returns of `execute_script`: they leave different things behind. `cacheline` is a second process: it reads
the pipe at any time (`CopyLine`), also after the program has ended. Which characters are blanks is chosen when a line is
wrapped, since rules do not tell them apart in `Execute`.

### Containers: CursorList and LList, Table and HMap, Text and Buffer

`LList` keeps every pointer of every node, allocates and frees nodes (a freed node may be allocated again at
once, and reading one is the end of the program), and holds one iterator. Every call is one action.
`HMap` keeps the chain of every bucket; growing (`hmap_rehash`) is part of the `hmap_put` that triggers it.
`hmap_foreach_value` is a walk of several steps, between which the function it calls may remove the entry it is called for;
`hmap_foreach_key` is the same, and an iterator a walk that stands at the entry it will return next (`StandAt`).

`Buffer` holds the block as a function from `0 .. capacity-1`; what has not been written is `Garbage`, and a write behind the block makes
the domain larger, which `Bounded` forbids. `strbuf_replace_data_n` is one action with its call of `strbuf_ensure_capacity`, the move of
what lies behind (`MakeRoom`) and the copies. `Text` is what `Execute` and `Wrap` compute with; the refinement reads
the first `len` bytes. Positions are read as the code reads them (`normalize_strbuf_pos` compares them as unsigned numbers).
The two containers know nothing of each other, so `MCContainers` checks them in one run, a behaviour being one of either.

### The script: Script

An object's address is its place in `heap`. The grammar is a stack of what is being read (`open`): files, and the
bodies of matches and declarations. Each reduction that makes or moves an object is an action. `free_script` is a stack of calls,
one step each, because the order in which rules, styles and macros are given back is the hazard. `hmap_foreach_value` visits
tables in an order nobody chooses: any permutation.

### Files that include files: Include

`calls` is the C stack: each element is a call of `include_script` with its `RemarkFile` and the locals of the `yyparse` it has
called, `old_yychar` and `old_yylineno` among them. The globals are variables of their own: `file` of the parser, `lex_file` and
`buffer` of the scanner, `yychar`, `yylineno`. `include_script` is what it does up to its `yyparse`, `EndOfFile` what it does
after. `yylex` reads for whatever buffer the *scanner* has and keeps texts for whatever file *it* has, while statements go to the
file of the *parser*: the properties say that these never come apart. Files are sequences of tokens on lines of their own; a disk is
any function from paths to files out of a set, with files that are missing, locked, wrong, or include each other in a circle.
The generated parser asks for no lookahead before it reduces an include (a default reduction), so `yylex` reads no token while
an include is waiting to be carried out: the condition on `running.reading` in `yylex`. Without it the lookahead of a file would be read
twice, which is how TLC showed that an earlier form of the inductive invariant was none.

## 3. The runs

All runs are small on purpose; the bounds are chosen so that each hazard can happen.

| Run (cfg) | Instance | Checks |
|---|---|---|
| `StyleRanges` (`MCStyleRanges.cfg`) | text of 3 characters, 2 styles, any calls until the list has 4 ranges | `TypeOK`, `SortedDisjoint`, `NothingLeftBehind`, `LaysStyles` (implements `StyleLayers`), `CallReturns` |
| `Execute` | six scripts: substitutions in a subexpression in a match, under two styles and a macro; global substitutions of empty matches, with unset and missing subexpressions; `skip` and `break` from nested lists and an index out of range, over two lines; `set` below a match at the start of the line; a body run for an unset subexpression; substitutions of the empty text and global ones below a match | `TypeOK`, `MarksFollowCells`, `StylesPrintable`, `ContextsNested`, `SearchInBuffer`, `OnlyContextChanges`, `SubstMovesOn`, `ActionsAreFinal`, `LineEnds` |
| `ExecuteStaleSkip` | `/x/ A`, `/y/ skip`, two lines | *violated*: `MarksFollowCells` |
| `ExecuteSet` | `/x/ A`, `/y/ set ...` | *violated*: `MarksFollowCells` |
| `ExecuteForever` | `/x*/g` | *violated*: `LineEnds` |
| `Remark` | 47 invocations: margins that leave room or do not, options overridden, missing or bad; texts of up to 7, by character and by word; rules that style, edit and skip lines and strings, over two lines; with `cacheline` | `TypeOK`, `TextKept`, `WidthRespected`, `PrintedAsLaid`, `LinesAdvance`, `NewlineHeld`, `AllShown` |
| `RemarkPrepend` | a text of 7, width 3, a prepend string | *violated*: `PrintedAsLaid` |
| `LList` | 5 nodes, 2 values, one iterator, every sequence of calls | `TypeOK`, `WellLinked`, `ImplementsSequence` (implements `CursorList`), `CallsDoAsNamed` |
| `Containers` | 4 keys in 2, 5 and 11 buckets; a string buffer of up to 3 bytes in a block that starts with 1; every sequence of calls on either | `ContainersTypeOK`, `WellPlaced`, `ImplementsTable` (implements `Table`), `Bounded`, `ImplementsText` (implements `Text`) |
| `Script` | every script of up to 5 objects over 2 names, nested up to 3 deep, parsed and freed | `TypeOK`, `NothingLeadsToItself`, `RefsCounted`, `OneOwner`, `FreedOnce` |
| `ScriptMacro` | the same with one name | *violated*: `NoUseAfterFree` |
| `Include` | a main file of up to two statements and two files it may include, in all combinations and three places; up to 4 open files | `TypeOK`, `ReadInPlace`, `ErrorsLocated`, `NamesKept`, `ParseEnds` |

Why the bounds are enough. *StyleRanges*: a range can lie to another in thirteen ways and the code looks at one
range of the list at a time, and at the group of those equal to it; three characters have every relation, and four ranges groups of
equal ones with others before and behind; what happens for longer texts is proved. *Execute*: three
characters are the least for a match with something before and behind it, four leave room for one insertion;
positions are compared only with each other, so longer texts have no new cases. `Modulus` is small but larger than
any sum of positions the bounds allow, so that −1 is far from every length, as in the program. *Remark*: seven characters at
width 3 make four lines, one more than the first place where `style_mod` can be wrong for a second time; the rules lay up to three
ranges, which may be the same, adjacent or apart; margins of 0 and 1 at widths 3 and 4 meet the check from both sides, and 80 and the
unlimited width are beyond every text; with two lines what the first leaves behind meets the second. *LList*: the code treats the
first, the last and inner nodes differently; five nodes have two inner neighbours. *Containers*: the table grows twice, and keys collide
before and part after; the buffer grows from 1 byte by either rule of `strbuf_ensure_capacity`; what happens for longer ones is
proved. *Script*: five objects are a style, a rule that names it, a macro over it, a rule that names that, and one more use. *Include*: three
files nest two deep and can come back from one file into another that goes on; a fourth open file lets a circle go round before
the limit.

Deadlock is checked except where the program really stops: `LList` (a misuse, an index out of range, ends the
program) and `Script` (the script has been freed, or a syntax error). The others go on to the next line or stutter
explicitly.

**Fairness.** `StyleRanges`, `Execute` and `Include` have weak fairness of the program's own next step while it is working (on a call, a
line, a script). It is a single thread and nothing in it waits, so it runs on; reading the next line is not fair, the input may stay
silent for ever. In `Remark` only `cacheline` is fair: the kernel runs a filter that has something to read. A choice a regular
expression makes is *not* fair: `LineEnds` must hold however matches fall. A round of a loop that changed nothing at all would be a
stuttering step, which `LineEnds` cannot see; `SubstMovesOn`, an action property, sees that the rounds of a substitution do move on.

### The disagreements

Each violated run is a behaviour also seen in the built program.

* `ExecuteStaleSkip`: `execute_script` returns for a skipped line before `llist_clear` (`execute.c:53`), so the styles
  of a skipped line are printed on the next one.
* `ExecuteForever`: a global match that finds the empty text finds it again at the same place, for ever (`execute.c:167`). The
  substitution rule does step past it (`execute.c:123`); the match rule does not.
* `ExecuteSet`: `set` tells `update_positions` that the change was at the start of the line (`execute.c:139`), so that styles before its
  context are moved or lost. In a context that begins at the start of the line it is right (run `Execute`).
* `RemarkPrepend`: prepend and append strings are not in `style_mod` (`wrap.c:194`), so styles of later lines are beside their text.
* `ScriptMacro`: `free_script` frees the macros with `free_rule` whatever their count; a macro named outside of a match is then
  read (`parser.y:173`).

Other known behaviours, read in the code and, where a run of the program can show them, seen there. The passing runs keep them out of
their instances or say so in the property, and there is no run for each:

* `break` under a global match is remembered but the loop goes on to the next match (`execute.c:160`).
* A global substitution takes the end of its context once (`execute.c:98`); when replacements are shorter it goes on into
  the text behind its context. `OnlyContextChanges` leaves open what lies behind the context
  of a global substitution below a match, and `ContextsNested` where contexts end in such a script (`OpenEnded`).
* A subexpression that took no part in the second or a later match is not −1 any more (`regex-utils.c:69`): a body is run for it in an empty
  context before the match. `ContextsNested` says of such scripts (`UnsetContexts`) only that contexts lie in the text; the other
  properties hold with them.
* Text put in where an empty range and another one begin belongs to both, so that their markup overlaps when printed.
* Two equal ranges longer than their markup that go over a line's end are nested by a distance only right for the first (`wrap.c:176`).
* A range over more blanks than its markup and a newline are long, dropped at a line's end, comes to begin before the buffer, that is, near
  2^32, and the markup of the next line stands behind it: `xx      x` in a style `<`, `>` is printed as `<xx>` and `x<>` at width 2.
* Blanks dropped at a line's end take a range that begins or ends in them off by as many characters. `PrintedAsLaid` is conditioned
  on none of these three (`Markable`).
* When a prepend rule skips, its string counts as empty but is still printed; so is that of `append`.
* Rules of `append` and `prepend` run after the check of the width; when they make the strings longer than it, `wrap_line` does not end.
* By word, a line that begins with a blank is cut after it.
* `-f none` still wraps: `main` replaces the wrapper by the one by character.
* The sum of retain, prepend and append is taken modulo 2^32 before it is compared with the width (`remark.c:176`).
* A nested include is looked for in the directory of the *name* its file was included by, relative to where the program was started,
  not in that of the file that was found (`parser.y:230`).
* Files that include each other are only stopped by the limit of open files.
* The branch of `free_macro` for a macro nobody refers to (`refs <= 0`) is never taken: a macro in the table has at least the
  reference of its declaration (`MacrosKept`, proved).
* `free_rule` does not free the body of a match: a leak, not a fault.
* `llist_set` puts in the data that it found instead of the one it is given (`llist.c:310`), and `llist_clone` of the empty list leaves
  `first` unset; nobody calls either. `CallsDoAsNamed` says of `llist_set` only that it returns what is at its place.
* A negative position of a string buffer is its end, whatever its value: the lines that would count from the end are never reached
  (`strbuf.c:39`). Callers only use −1.
* `--help` has "(except last)" and "(except first)" the other way round than what `--prepend` and `--append` do.

## 4. What is proved

A theorem holds for every value of the constants; the bounds of the instances that TLC checks are used only where this section says so.
Nothing is assumed but the named assumptions of the modules, which TLC evaluates on every run.

### Styles (`StyleRanges_proofs`): every text length, every set of styles, every sequence of calls

* `TypeCorrect`, `Spec => []TypeOK`;
* `ListStaysSorted`, `Spec => []SortedDisjoint`: the list that `wrap_line` prints is always ordered: of two ranges the one before
  ends where or before the other begins, or they are the same;
* `WalkIsComplete`, `Spec => []NothingLeftBehind`: the loop passes no range that what is left of the new one still overlaps;
* `ImplementsLayers`, `Spec => LaysStyles`: the list implements `StyleLayers`: after a call every character shows the style on top of what it
  showed before, and so do empty ranges.

*Sorted.* Neither `SortedDisjoint` nor `NothingLeftBehind` is inductive alone: whether a range may be put in at a node depends on nothing
before the node reaching into it, and that depends on the list being sorted. The invariant `IInv` is their conjunction with the types. The
argument cuts the new list into *blocks*, sequences that are ordered and lie between two positions. Two blocks that
meet at a position make one block (`ConcatBlocks`), ranges all equal make a block; each `insort_style` function builds its result from such
blocks, so its lemma is a few concatenations, and each case of `insert_style` picks the lemma and shows what its guard says of the
positions.

*Laid.* What a list shows at a position is put together from what its parts show (`StylesConcat`, `PointsConcat`), so a list
that is cut elsewhere, with the new style on top in one of the pieces, shows the same and that style on top there (`Lays`). A step that goes on with
the loop moves a part of `s1` into the list and keeps the rest (`Moves`); the styles still to be laid are those of the rest. For the characters
that is enough. Empty ranges need more: one that the rest will wrap must not have been passed. They are those from the node on (`Stands`), because
once a part is laid nothing from there on starts before the rest does (`Ahead`, an invariant of its own). Only
`NAssumption` is used.

### The rule engine (`Execute_proofs`): every script, every line, whatever regular expressions find

* `TypeCorrect`, `Spec => []TypeOK`;
* `ContextsStayNested`, `Spec => []ContextsNested`: contexts lie in the text and in one another, however often it was changed under them;
* `SearchStaysInBuffer`, `Spec => []SearchInBuffer`: no search begins behind the text, or writes the NUL that ends it outside of the buffer;
* `SubstitutionMovesOn`, `Spec => SubstMovesOn`: every round of a global substitution has less text ahead of it than the one before;
* `OnlyTheContextChanges`, `Spec => OnlyContextChanges`: a rule changes no text outside of its context;
* `MarksStayWithCells`, `[]MarksFollowCells`, and `StylesStayPrintable`, `[]StylesPrintable`: the styles stay with their characters, in
  order, whatever the script does to the text, under the hypotheses below; `NothingIsStale` gives the first of these for scripts without `skip`;
* `VerdictsAreFinal`, `BreaksAreLast` implies `Spec => ActionsAreFinal`: after a break or a skip nothing is touched.

The first three are consequences of one invariant, the next two of that and of a single step. A context is nested because every
`update_positions` since it was made moved it as it moved the one around it: that needs to be said of the whole chain at once and of all
subexpressions (`Chain`), with the two exceptions of the code, subexpressions that took no part and substitutions at the end of their context.
`MoveKeepsChain` is the lemma that carries it: moving positions keeps their order, and does so modulo 2^32, because a change lies in the innermost
context. A position that a loop keeps on the C stack is not updated; that it is in the text again when the loop goes on
(`GoesOn`) rests on the frames and the contexts being in step (`Stack`): a frame of a match has a context above it exactly while its body
runs. `BoundsAssumption` says that the modulus is large against the length of the text, as 2^32 is.

*Styles and changes.* `MarksFollowCells` and `StylesPrintable` do not hold of every script: what the code does breaks them, and
the theorems name when. Each hypothesis is a property of the behaviour that the code's own flaw or limit calls for:

| Hypothesis | What it says | Without it |
| --- | --- | --- |
| `NoneStale` | between lines there are no ranges | the ranges of a skipped line lie on the next one (run `ExecuteStaleSkip`) |
| `SetsAtStart` | a `set` rule has a context that begins at 0 | it moves the positions as if it had (run `ExecuteSet`) |
| `TidyCalls` | the ranges are in order when a style rule adds one | `insert_style` walks a list it was not written for: text put in where an empty range and another one begin belongs to both, which then overlap |
| `EndsApart` | when text is put in at the end of the line, no range begins where one that is not empty ends | both grow by the new text and overlap |

`NoneStale` follows from the script (`NeverSkips`: no rule of it is `skip`); the others depend on what is found as well. The scripts of
the run `Execute` meet all four in every state and step.
The invariant behind both theorems is that the list is *laid* (`Laid`): each range lies in the text, is not turned round, and in the
middle of a call of `insert_style` the parts it still has to place are those of `StyleRanges_proofs`, whose lemmas on single steps are cited
through the instance `Insertion`. `MarksFollowCells` then says (`Follows`) that what the list shows at a character
that came with the line is its marks, also in the middle of a call, where it is that and the new style at the positions
still to come. A step of `insert_style` keeps that by `Lays`. A change of the text takes position `i` behind it to `i + diff` and every range with
it (`MoveRange`), and whether a range covers a character before or behind the change is what it was (`CoversBefore`, `CoversBehind`); the
characters in between are new and carry no marks. Two ranges that follow each other still do after a move (`InLineMoves`), unless both reach the
end of the line where text is added.

*Breaks and skips.* A break ends the bodies up to the innermost match rule, and goes on with the next match or the next
find there; that rule then returns the break in turn. So after a break rules do run, under a global match or one of a list of matches
(run `ExecuteForever` has one). `BreaksAreLast` says that a script has a set of rules that holds its breaks and, with a rule, all that lead to it, and
whose match rules have one match that is not global. The invariant (`Stops`) is that all frames are then of this set
(`AllIn`), and that the one at the top has had its find or is past its only match (`Ending`), so that it ends.

### The linked list (`LList_proofs`): every memory, all data, every sequence of calls

* `ListImplementsSequence`, `Spec => ImplementsSequence`: list and iterator implement `CursorList`;
* `AlwaysWellLinked`, `Spec => []WellLinked`; `TypeCorrect`, `Spec => []TypeOK`;
* `CallsAreNamedWell`, `Spec => CallsDoAsNamed`: each call does to the sequence what its name says,
  and returns what it should; of `llist_set`, which is wrong in the code, only the latter.

The invariant (`IInv`) is that there *is* a sequence of distinct nodes whose chain the memory is (`Linked`), with the iterator before, at or behind one
of them. No variable holds that sequence: it is the witness, and each call puts a node into it (`Put`) or takes one out (`Cut`) at an index.
That the walk along `next` pointers, which defines what the state stands for, finds this sequence is an induction (`Walks`).
`MemoryAssumption` asks for a finite memory with at least one node, since a size is a number.

### The hash table (`Containers_proofs`): all keys, values, hash functions and initial capacities

* `TableImplemented`, `Spec => ImplementsTable`: buckets and walk implement `Table`;
* `AlwaysWellPlaced`, `Spec => []WellPlaced`: an entry is in the bucket its key is looked for in, once, and `size` counts them;
* `TypeCorrect`, `Spec => []TypeOK`.

What a call does is said of the *set* of entries (`EntrySet`): in a sound table that set is the graph of a function, whatever buckets it is
spread over, so that growing (`hmap_rehash`), which puts one entry after another into new buckets, is a recursion that keeps the set. `IInv` adds
where a walk stands: `next` is what is left of bucket `c`, also after the function that is called has removed the entry before it
(`WalkIs`). `NullAssumption` keeps `NULL` apart from keys and values.

### The script (`Script_proofs`): every set of names, every number and nesting of objects

The bounds `MaxObjects` and `MaxOpen` are used by no proof.

* `TypeCorrect`, `Spec => []TypeOK`: whatever a name, a rule or a body holds is an object of the kind the code takes it for, and every
  call of `free_script` is given one;
* `ExecutionDescends`, `Spec => []NothingLeadsToItself`: a rule leads only to objects made before it, so that `execute_any_rule` cannot
  recurse for ever. It rests on a macro having no name while its body is read and on its not being declared twice;
* `AlwaysOneOwner`, `Spec => []OneOwner`: a rule is in one body, list, macro or root;
* `RefsAlwaysCounted`, `Spec => []RefsCounted`: while the script is read, `refs` of styles and macros is the number of what refers to them;
* `NothingFreedTwice`, `Spec => []FreedOnce`: `free_script` gives nothing back twice, in whatever order the tables are visited.

The first two are proved together (`IInv`): that an object leads to *older* ones is what keeps it leading to *some*. The heap only grows and an
object keeps its kind (`Grows`), so all the rest of the state says of it stays true (`GrowsState`), and each action is left with one
thing to show: that a new object leads to fitting ones that are there (`AppendSound`), or that a changed count changes nothing else
(`CountSound`). That a table may be visited in any order needs its range to be finite (`TableListed`).

The other three need the invariant `Whole == IInv /\ Parsed /\ Freed`. While the script is read (`Parsed`) every rule has one owner; within a
reduction, the rule it makes has none until it is placed (`Loose`, `OwnedOnce`); and a count is one, for the table, and one for
each rule that names the object (`Counted`). When it is freed (`Freed`), an object is freed or in a pending call at most once, both taken together
(`OnceEach`), and a rule only when its owner is done with (`FromOwner`). A style's count is at least the number of
pending calls for it and of rules that name it and are still to come, and is used up before the style is freed (`StylesKept`): this is where the counts are
needed. A macro's count stays above that by one, so that its uses never free it (`MacrosKept`).

### String buffers (`Containers_proofs`): all strings, positions, numbers of copies and lengths

* `BufferTypeCorrect`, `BufferSpec => []BufferTypeOK`;
* `BufferBounded`, `BufferSpec => []Bounded`: no call writes outside of the block, and there is always a NUL behind the text;
* `BufferImplementsText`, `BufferSpec => ImplementsText`: the block implements `Text`, a refinement.

The inductive invariant is that the buffer is freed or `Sound`: its block is as large as its capacity says, longer than the text, and
holds a NUL behind it. Each function that calls are made of has a lemma that it keeps this and that says of *each byte* of the new block
where it comes from (`EnsureCapacitySound`, `MakeRoomSound`, `ReplaceElements`); a step of the refinement then compares the new text with
that of `Text` byte by byte. The copies of a string overwrite one another's neighbours only in the order of the loop, which
`CopiesElements` settles by division with remainder. `SizesAssumption` only asks that the bound `MaxLen` is small against the modulus, as
32 bits are.

`ContainersTypeCorrect`, `ContainersSpec => []ContainersTypeOK`, joins both containers: calls on one leave the other alone.

### Included files (`Include_proofs`): every disk, every script, every limit of open files

* `FilesReadInPlace`, `[]ReadInPlace`: what has been read is what the files say, each in the place of its include, nothing left out or read
  twice;
* `MessagesNameTheirLine`, `[]ErrorsLocated`: an error message names the file and the line of the token that is wrong;
* `AlwaysNamesKept`, `[]NamesKept`: the file that keeps a name is the one it was read in; `TypeCorrect`, `[]TypeOK`.

The state is a stack of interrupted parsers. `IInv` says of each call that it has read its file up to a token, of each but the last that this
token is an include and that the call above it reads the file found for it (`Includes`), and of the last that the globals are
its own (`Reads`, `Globals`); what an interrupted call has saved is what makes this true of it when the call above returns
(`StackReturns`). `ReadInPlace` follows by induction along the stack (`InPlace`): what a call has read is what the tokens before its place say.
`Says`, what a file stands for with the files it includes, is a recursive function of the depth that is left; that it is
one, and what `FlattenSeq` does, are lemmas (`SaysIs`, `FlatIs`).

### Printing (`Remark_proofs`): every command line, width, script and line

The theorems are about the whole program (`Spec` of `Remark`): lines and ranges are what the rules, instantiated, have made of them.

* `TextIsKept`, `Spec /\ []Small => [](Room => TextKept)`: the text is printed in its order and each of its lines in one piece, and all that is
  missing are blanks between two lines;
* `WidthIsRespected`, `Spec /\ []Small => [](Room => WidthRespected)`: no line shows more than the width, whatever is put around it;
* `LinesDoAdvance`, `Spec /\ []Small /\ [](pc = "mark" => Room) => LinesAdvance`: every line finished leaves less text to come;
* `TextPrinted`, `Spec /\ []Small => [](pc = "printed" => TextComplete)`: no character but blanks is lost and none is moved, *wherever* ranges and
  strings are, also where lines come out wrong;
* `TypeCorrect`, `Spec /\ []Small => [](Fits => TypeOK)`: types, and that the line at hand lies in the buffer;
* `ScreenShowsOutput`, `Spec => []NewlineHeld`: `cacheline` shows what it has read but for the last newline.

Three conditions stand in them, each because of something the code does.

* `Small`: the buffer, doubled, is still less than what 32 bits count (2^31 characters with all markup and newlines).
  Nothing in the program bounds a line; and `wrap_line` compares differences of unsigned numbers.
* `Fits`: `append` and `prepend` are no longer than their options, which is what `main` has checked. Rules may make them longer, the program then does
  not look at the width again, and the room for the text underflows (section 3, other behaviours). It holds in every state of the run `Remark`.
* `Room`: `Fits`, and when there are ranges, that they are in order (`Apart`), can be placed (`Markable`, the condition of
  `PrintedAsLaid` too) and that there are no strings around the lines. Of such lines without ranges nothing more is asked. That strings shift the
  markup is the disagreement `RemarkPrepend`; a range that lies beside its text can end in a place where the line is made too wide.
  In the run `Remark` it holds of lines with strings and no ranges, and of lines with ranges, words and several lines.

The invariant (`Typing`, `Complete`, `Sized`, `Lined`) is built up in this order, each part under no more of the conditions than it needs. `Complete`
numbers the characters of the buffer: a part not reached yet holds every one that is to come. An insertion of cells that are no characters
keeps that (`InsertBehind`), a deletion of blanks loses only these. `Sized` bounds `sp`, `ep` and the room of the line (`FirstEndIs`, `WordEnd`).
`Lined` is what width and text need: the buffer up to `sp` is a row of finished lines, each made of retained text, a string, an unbroken
piece of text and a string again (`LineShows`), of at most the width, with markup anywhere in between (`Printed`); what follows is the rest of the
text from some index on, untouched. On a line that is being marked (`OpenLine`) the ranges before `node` are done, those that go on to the next line
are `back` many, and `ep` has grown by exactly what was put in (`Extra`). Whether the next range falls on this line, goes over its end or waits is
decided by comparing positions that `style_mod` has moved; that these are the places meant (`Coming`, `GoingOn`, `Nested`) is the heart of
it, and where `Markable` is used. Each of the ways a range can be placed has a lemma (`Places`, `Turns`).

How wide a line is, is a fold over the buffer: `Columns` says that a function with the steps of that fold exists, which is kept
by an insertion behind (`SameColumns`) and extended by one line at a time. `JobsAssumption` says what the arguments are (sums of lengths do not
overflow, section 5), `ExecuteAssumption` passes the engine's assumptions on. Of the engine only its invariant is used: that its own steps keep it is
proved in `Execute_proofs`, and that the program's steps between them do are two more lemmas there (`EnterInv`, `CallerInv`).

### How recursion is dealt with

The theorems of the library that define functions by recursion or prove by induction take an operator as parameter, which the
provers cannot instantiate. `Inductions` restates what is needed with sets and functions: every non-empty set of numbers
has a least one, a set that holds 0 and the successor of each of its numbers holds all, and a function given by its first value and a step
given as a *function* exists. Recursive functions of the models are then treated like any other definition.

### Only model-checked

* Liveness (`CallReturns`, `LineEnds`, `AllShown`, `ParseEnds`): it rests on fairness, which TLAPS does not reason about.
* `PrintedAsLaid`: a fold over the printed buffer (`MarkedUp`) on what the engine says of styles (`MarksFollowCells`, proved of the engine alone).
* Lines that have both ranges and strings around them, and rules that change these strings: `Room` leaves them out of the theorems on the width and
  on whole lines, and the run `Remark` checks them.

## 5. What is not modelled

* What regular expressions mean (`lib/regex.c`, third-party): any match is possible. The characters a substitution puts in: only
  their number.
* What the patterns of the lexer match, and the escapes in strings and regular expressions; numbers too large for 32 bits.
* What `--help` and `--version` print; margins whose lengths overflow 32 bits when added; strings of `append` and `prepend` that their
  rules make longer than the width.
* `strbuf_reverse_substring` and `strbuf_repeat_substring` (nobody calls them, and they do not do what they are named for), buffers of
  capacity 0 (nobody makes one); `llist_add_all` and `llist_clone`, which nobody calls, and the conversion of a list to an array and
  `llist_iterate`, which only read it from the first node on; a hash table that is changed while there is an iterator, and its key NULL.
* What a `Style` and a match hold besides what refers to other objects; memory that is leaked.
* Number, string and file helpers without state (`intutil.c`, `string-utils.c`, `io-utils.c`, `error.c`), except where a modelled
  component rests on one (`parse_uint32`, `cat_files`).
* Generated files, build system, translations, examples.

Of the C files in the repository more than four fifths are third-party (`lib/`, with the 8300 lines of `regex.c`) or generated
(`lexer.c`, `parser.c`): the map, which names only hand-written code, covers a small share of all lines, but most of the
functions of the program itself.

## 6. The plan

Done: style ranges, the engine, wrapping; the containers they stand on; the script; the whole program with `cacheline`; the memory of
string buffers; included files; proofs of the safety of all of them. Next, in this order:

1. `PrintedAsLaid` for every width and line: it rests on `MarksStayWithCells`, and needs the same of `apply_styles` and of the ranges that
   `wrap_line` cuts.
2. The rest of `llist.c` (`llist_add_all`, clone, arrays) against sequence operators.
3. Styles with their strings, from `style { ... }` in a rule file to `insert_style_pre`.
