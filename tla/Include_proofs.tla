--------------------------- MODULE Include_proofs ---------------------------
(***************************************************************************)
(* Proofs about Include, for every disk, every script and every limit of    *)
(* open files.                                                              *)
(***************************************************************************)
EXTENDS Include, Inductions

-----------------------------------------------------------------------------
Stmts == Names \X Nat
Said  == [Names \X Names -> Seq(Stmts)]

(* Where a file is found first.                                               *)
LEMMA NearestIs ==
    ASSUME NEW files, NEW dir \in Names, NEW name \in Names
    PROVE  /\ Nearest(files, dir, name) \in 0..Len(Beside(dir, name))
           /\ Beside(dir, name) \in Seq(Names)
           /\ Nearest(files, dir, name) # 0 =>
                /\ Nearest(files, dir, name) \in 1..Len(Beside(dir, name))
                /\ Beside(dir, name)[Nearest(files, dir, name)] \in DOMAIN files
                /\ Beside(dir, name)[Nearest(files, dir, name)] \in Names
                /\ files[Beside(dir, name)[Nearest(files, dir, name)]] # Locked
<1> DEFINE s == Beside(dir, name)
           I == {i \in 1..Len(s) : s[i] \in DOMAIN files /\ files[s[i]] # Locked}
<1>1. s \in Seq(Names)
  <2>1. dir \o name \in Names /\ HOME \o name \in Names /\ PKGDATADIR \o name \in Names
    BY DisksAssumption DEF Names
  <2> QED
    BY <2>1 DEF Beside
<1>2. Nearest(files, dir, name) = IF I # {} THEN Min(I) ELSE 0
  BY DEF Nearest, SelectInSeq
<1>3. Len(s) \in Nat
  BY <1>1
<1>4. ASSUME I # {} PROVE Min(I) \in I
  <2>1. I \in SUBSET Nat
    BY <1>3
  <2>2. \E m \in I : \A j \in I : m <= j
    <3> HIDE DEF I
    <3> QED
      BY <1>4, <2>1, LeastNumber
  <2> HIDE DEF I
  <2> QED
    BY <2>2 DEF Min
<1>5. ASSUME Nearest(files, dir, name) # 0 PROVE Nearest(files, dir, name) \in I
  <2> HIDE DEF I
  <2> QED
    BY <1>2, <1>4, <1>5
<1>6. ASSUME NEW i \in I PROVE i \in 1..Len(s) /\ s[i] \in DOMAIN files /\ s[i] \in Names /\ files[s[i]] # Locked
  BY <1>1, ElementOfSeq
<1> HIDE DEF I, s
<1>7. Nearest(files, dir, name) \in 0..Len(s)
  BY <1>3, <1>5, <1>6
<1> QED
  BY <1>1, <1>5, <1>6, <1>7 DEF s

(* The tokens of a file that can be read.                                     *)
LEMMA DiskHolds ==
    ASSUME NEW files \in Disks, NEW path \in DOMAIN files
    PROVE  files[path] # Locked => files[path] \in Seq(Tokens)
  BY DisksAssumption

LEMMA TokensSayIs ==
    ASSUME NEW files, NEW said \in Said, NEW path \in Names, files[path] \in Seq(Tokens), NEW name \in Names
    PROVE  /\ TokensSay(files, said, path, name) \in Seq(Seq(Stmts))
           /\ Len(TokensSay(files, said, path, name)) = Len(files[path])
<1> DEFINE lines == files[path]
           Word(i) == CASE lines[i].type = "SKIP"   -> <<<<path, i>>>>
                        [] lines[i].type = "STRING" -> said[<<dir_name(name), lines[i].text>>]
                        [] OTHER -> <<>>
<1>1. TokensSay(files, said, path, name) = [i \in DOMAIN lines |-> Word(i)]
  BY DEF TokensSay
<1>2. DOMAIN lines = 1..Len(lines) /\ Len(lines) \in Nat
  OBVIOUS
<1>3. ASSUME NEW i \in 1..Len(lines) PROVE Word(i) \in Seq(Stmts)
  <2>1. lines[i] \in Tokens /\ i \in Nat
    BY ElementOfSeq
  <2>2. lines[i].type \in {"SKIP", "INCLUDE", "STRING"} /\ lines[i].text \in Names
    BY <2>1 DEF Tokens
  <2>3. dir_name(name) \in Names
    BY DEF dir_name, Front, Names
  <2>4. said[<<dir_name(name), lines[i].text>>] \in Seq(Stmts)
    BY <2>2, <2>3 DEF Said
  <2>5. <<<<path, i>>>> \in Seq(Stmts) /\ <<>> \in Seq(Stmts)
    BY <2>1 DEF Stmts
  <2>6. CASE lines[i].type = "SKIP"
    BY <2>5, <2>6
  <2>7. CASE lines[i].type = "STRING"
    BY <2>4, <2>7
  <2>8. CASE lines[i].type = "INCLUDE"
    BY <2>5, <2>8
  <2> QED
    BY <2>2, <2>6, <2>7, <2>8
<1> HIDE DEF Word
<1>4. [i \in 1..Len(lines) |-> Word(i)] \in Seq(Seq(Stmts))
  BY <1>2, <1>3, IsASeq
<1>5. Len([i \in 1..Len(lines) |-> Word(i)]) = Len(lines)
  BY <1>2
<1> QED
  BY <1>1, <1>2, <1>4, <1>5

LEMMA TokenSays ==
    ASSUME NEW files, NEW said, NEW path, NEW name, files[path] \in Seq(Tokens), NEW i \in 1..Len(files[path])
    PROVE  /\ files[path][i].type = "SKIP" => TokensSay(files, said, path, name)[i] = <<<<path, i>>>>
           /\ files[path][i].type = "INCLUDE" => TokensSay(files, said, path, name)[i] = <<>>
           /\ files[path][i].type = "STRING" =>
                TokensSay(files, said, path, name)[i] = said[<<dir_name(name), files[path][i].text>>]
<1>1. i \in DOMAIN files[path]
  OBVIOUS
<1>2. CASE files[path][i].type = "SKIP"
  BY <1>1, <1>2 DEF TokensSay
<1>3. CASE files[path][i].type = "INCLUDE"
  BY <1>1, <1>3 DEF TokensSay
<1>4. CASE files[path][i].type = "STRING"
  BY <1>1, <1>4 DEF TokensSay
<1> QED
  BY <1>2, <1>3, <1>4

(* What a file says when the files it includes say `said'.                    *)
OneMore(files, said) ==
    [at \in Names \X Names |->
        LET i == Nearest(files, at[1], at[2])
        IN  IF i = 0 THEN <<>>
            ELSE FlattenSeq(TokensSay(files, said, Beside(at[1], at[2])[i], at[2]))]

Silence == [at \in Names \X Names |-> <<>>]

LEMMA OneMoreSaid ==
    ASSUME NEW files \in Disks, NEW said \in Said
    PROVE  OneMore(files, said) \in Said
<1> SUFFICES ASSUME NEW at \in Names \X Names
             PROVE  (LET i == Nearest(files, at[1], at[2])
                     IN  IF i = 0 THEN <<>>
                         ELSE FlattenSeq(TokensSay(files, said, Beside(at[1], at[2])[i], at[2])))
                    \in Seq(Stmts)
  BY DEF OneMore, Said
<1>1. PICK dir, name : dir = at[1] /\ name = at[2]
  OBVIOUS
<1>2. dir \in Names /\ name \in Names
  BY <1>1
<1>3. PICK i : i = Nearest(files, dir, name)
  OBVIOUS
<1>4. PICK path : path = Beside(dir, name)[i]
  OBVIOUS
<1>5. CASE i = 0
  BY <1>1, <1>3, <1>5
<1>6. CASE i # 0
  <2>1. path \in DOMAIN files /\ path \in Names /\ files[path] # Locked
    BY <1>2, <1>3, <1>4, <1>6, NearestIs
  <2>2. files[path] \in Seq(Tokens)
    BY <2>1, DiskHolds
  <2>3. TokensSay(files, said, path, name) \in Seq(Seq(Stmts))
    BY <1>2, <2>1, <2>2, TokensSayIs
  <2>4. FlattenSeq(TokensSay(files, said, path, name)) \in Seq(Stmts)
    BY <2>3, FlattenType
  <2> QED
    BY <1>1, <1>3, <1>4, <1>6, <2>4
<1> QED
  BY <1>5, <1>6

LEMMA SaysIs ==
    ASSUME NEW files \in Disks
    PROVE  /\ Says(files) \in [Nat -> Said]
           /\ \A depth \in Nat : Says(files)[depth + 1] = OneMore(files, Says(files)[depth])
<1> DEFINE Rec(g) == g = [depth \in Nat |->
                       [at \in Names \X Names |->
                          LET i == Nearest(files, at[1], at[2])
                          IN  IF depth = 0 \/ i = 0 THEN <<>>
                              ELSE FlattenSeq(TokensSay(files, g[depth - 1], Beside(at[1], at[2])[i], at[2]))]]
           step == [a \in Nat \X Said |-> OneMore(files, a[2])]
           says == CHOOSE g : Rec(g)
<1>1. Silence \in Said
  BY DEF Silence, Said
<1>2. step \in [Nat \X Said -> Said]
  BY OneMoreSaid
<1>3. \A n \in Nat : \A s \in Said : step[<<n, s>>] = OneMore(files, s)
  OBVIOUS
<1> HIDE DEF step
<1>4. PICK f \in [Nat -> Said] : Recurses(f, Silence, step)
  BY <1>1, <1>2, Recursion
<1>5. f[0] = Silence /\ \A n \in Nat : f[n + 1] = OneMore(files, f[n])
  BY <1>3, <1>4 DEF Recurses
<1>6. Rec(f)
  <2> DEFINE Body(depth) == [at \in Names \X Names |->
                          LET i == Nearest(files, at[1], at[2])
                          IN  IF depth = 0 \/ i = 0 THEN <<>>
                              ELSE FlattenSeq(TokensSay(files, f[depth - 1], Beside(at[1], at[2])[i], at[2]))]
  <2>1. ASSUME NEW depth \in Nat PROVE f[depth] = Body(depth)
    <3>1. CASE depth = 0
      BY <3>1, <1>5 DEF Silence
    <3>2. CASE depth # 0
      <4>1. depth - 1 \in Nat /\ (depth - 1) + 1 = depth
        BY <3>2
      <4>2. f[depth] = OneMore(files, f[depth - 1])
        BY <4>1, <1>5
      <4>3. OneMore(files, f[depth - 1]) = Body(depth)
        BY <3>2 DEF OneMore
      <4> QED
        BY <4>2, <4>3
    <3> QED
      BY <3>1, <3>2
  <2> HIDE DEF Body
  <2>2. f = [depth \in Nat |-> Body(depth)]
    BY <2>1, <1>4
  <2> QED
    BY <2>2 DEF Body
<1>7. Rec(says)
  <2> HIDE DEF Rec
  <2> QED
    BY <1>6
<1>8. Says(files) = says
  BY DEF Says
<1> HIDE DEF says
<1>9. \A depth \in Nat : Says(files)[depth + 1] = OneMore(files, Says(files)[depth])
  <2> SUFFICES ASSUME NEW depth \in Nat PROVE Says(files)[depth + 1] = OneMore(files, Says(files)[depth])
    OBVIOUS
  <2>1. depth + 1 \in Nat /\ depth + 1 # 0 /\ (depth + 1) - 1 = depth
    OBVIOUS
  <2>2. says[depth + 1] = [at \in Names \X Names |->
                          LET i == Nearest(files, at[1], at[2])
                          IN  IF depth + 1 = 0 \/ i = 0 THEN <<>>
                              ELSE FlattenSeq(TokensSay(files, says[(depth + 1) - 1], Beside(at[1], at[2])[i], at[2]))]
    BY <1>7, <2>1
  <2>3. says[depth + 1] = OneMore(files, says[depth])
    BY <2>1, <2>2 DEF OneMore
  <2> QED
    BY <2>3, <1>8
<1>10. says[0] = Silence
  <2>1. 0 \in Nat
    OBVIOUS
  <2>2. says[0] = [at \in Names \X Names |->
                          LET i == Nearest(files, at[1], at[2])
                          IN  IF 0 = 0 \/ i = 0 THEN <<>>
                              ELSE FlattenSeq(TokensSay(files, says[0 - 1], Beside(at[1], at[2])[i], at[2]))]
    BY <1>7, <2>1
  <2> QED
    BY <2>2 DEF Silence
<1> DEFINE T == {n \in Nat : says[n] \in Said}
<1>11. 0 \in T
  BY <1>10, <1>1
<1>12. ASSUME NEW n \in Nat, n \in T PROVE n + 1 \in T
  BY <1>12, <1>8, <1>9, OneMoreSaid
<1>13. T = Nat
  <2>1. T \in SUBSET Nat
    OBVIOUS
  <2> HIDE DEF T
  <2> QED
    BY <1>11, <1>12, <2>1, SetInduction
<1>14. says \in [Nat -> Said]
  <2>1. says = [n \in Nat |-> says[n]]
    BY <1>7
  <2>2. \A n \in Nat : says[n] \in Said
    BY <1>13
  <2> QED
    BY <2>1, <2>2
<1> QED
  BY <1>8, <1>9, <1>14

-----------------------------------------------------------------------------
(* The invariant.  A call of include_script, as a record.                     *)
Frame ==
    [path : Names, filename : Names, directory : Names, rules : Seq(Stmts),
     tokens : Seq(Names), previous : Nat, at : Nat,
     reading : {"statement", "name", "include"}, name : Names,
     old_yychar : Tokens \cup {YYEMPTY, YYEOF}, old_yylineno : Nat]

LineOf(c) == IF c.at = 0 THEN 1 ELSE c.at

(* What include_script sets for the i-th call, and its scanner keeps.         *)
Opened(files, c, i) ==
    /\ c.path \in DOMAIN files /\ files[c.path] # Locked
    /\ c.at <= Len(files[c.path])
    /\ c.directory = dir_name(c.filename)
    /\ c.previous = i - 1 /\ c.old_yychar = YYEMPTY
    /\ c.tokens = TextsOf(SubSeq(files[c.path], 1, c.at))

(* Its file was found at its place.                                           *)
At(files, dir, c) ==
    /\ Nearest(files, dir, c.filename) # 0
    /\ c.path = Beside(dir, c.filename)[Nearest(files, dir, c.filename)]

(* The statements it has are what the first k tokens of its file say.         *)
Told(files, c, i, k) ==
    c.rules = FlattenSeq(SubSeq(TokensSay(files, Says(files)[MaxFiles - i], c.path, c.filename), 1, k))

(* The token it has read last names the file that d reads.                    *)
Includes(files, c, d, i) ==
    /\ c.reading = "statement" /\ c.at >= 1
    /\ files[c.path][c.at].type = "STRING" /\ files[c.path][c.at].text = d.filename
    /\ Told(files, c, i, c.at - 1)
    /\ At(files, dir_name(c.filename), d)
    /\ d.old_yylineno = LineOf(c)

(* The parser's lookahead and line, for the call that reads.                  *)
Reads(files, c, i, char, line) ==
    /\ line = LineOf(c)
    /\ char = YYEMPTY /\ c.reading # "include" => Told(files, c, i, c.at)
    /\ c.reading = "include" =>
         /\ char = YYEMPTY /\ c.at >= 1 /\ Told(files, c, i, c.at - 1)
         /\ files[c.path][c.at].type = "STRING" /\ files[c.path][c.at].text = c.name
    /\ char = YYEOF => c.at = Len(files[c.path]) /\ Told(files, c, i, c.at)
    /\ char \notin {YYEMPTY, YYEOF} =>
         c.at >= 1 /\ char = files[c.path][c.at] /\ Told(files, c, i, c.at - 1)

(* A stack of calls, each of which includes the next one's file.              *)
Stack(files, s) ==
    /\ s \in Seq(Frame)
    /\ Len(s) <= MaxFiles
    /\ \A i \in 1..Len(s) : Opened(files, s[i], i)
    /\ \A i \in 1..Len(s) : i < Len(s) => Includes(files, s[i], s[i + 1], i)
    /\ Len(s) >= 1 => At(files, <<>>, s[1]) /\ s[1].filename = Main

Globals ==
    /\ file = Len(calls) /\ lex_file = Len(calls) /\ buffer = Len(calls)
    /\ yychar \in Tokens \cup {YYEMPTY, YYEOF}
    /\ yylineno \in Nat

Ends ==
    /\ status \in {"start", "parse", "done", "dead"}
    /\ status \in {"start", "done"} => calls = <<>>
    /\ status = "parse" => calls # <<>>
    /\ status = "start" => yychar = YYEMPTY
    /\ script = IF status = "done" THEN Whole ELSE <<>>

IInv ==
    /\ disk \in Disks
    /\ Stack(disk, calls)
    /\ calls # <<>> => Reads(disk, calls[Len(calls)], Len(calls), yychar, yylineno)
    /\ Globals /\ Ends /\ ErrorsLocated

-----------------------------------------------------------------------------
(* The names that the first k + 1 tokens of a file hold.                      *)
LEMMA TextsNext ==
    ASSUME NEW lines \in Seq(Tokens), NEW k \in Nat, k < Len(lines)
    PROVE  /\ TextsOf(SubSeq(lines, 1, k)) \in Seq(Names)
           /\ lines[k + 1].type = "STRING" =>
                TextsOf(SubSeq(lines, 1, k + 1)) = Append(TextsOf(SubSeq(lines, 1, k)), lines[k + 1].text)
           /\ lines[k + 1].type # "STRING" =>
                TextsOf(SubSeq(lines, 1, k + 1)) = TextsOf(SubSeq(lines, 1, k))
<1> DEFINE Word(token) == IF token.type = "STRING" THEN <<token.text>> ELSE <<>>
           Words(n) == [i \in 1..n |-> Word(lines[i])]
<1>1. ASSUME NEW token \in Tokens PROVE Word(token) \in Seq(Names)
  <2>1. token.text \in Names
    BY DEF Tokens
  <2> QED
    BY <2>1
<1>2. ASSUME NEW n \in 0..Len(lines)
      PROVE  TextsOf(SubSeq(lines, 1, n)) = FlattenSeq(Words(n)) /\ Words(n) \in Seq(Seq(Names))
  <2>0. n \in Nat
    OBVIOUS
  <2>1. \A i \in 1..n : lines[i] \in Tokens
    BY ElementOfSeq
  <2>2. PICK part : part = SubSeq(lines, 1, n)
    OBVIOUS
  <2>3. part \in Seq(Tokens) /\ Len(part) = n /\ \A i \in 1..n : part[i] = lines[i]
    BY <2>0, <2>1, <2>2
  <2>4. DOMAIN part = 1..n
    BY <2>3
  <2>5. TextsOf(part) = FlattenSeq([i \in DOMAIN part |-> Word(part[i])])
    BY DEF TextsOf
  <2> HIDE DEF Word
  <2>6. [i \in DOMAIN part |-> Word(part[i])] = Words(n)
    BY <2>3, <2>4
  <2>7. \A i \in 1..n : Word(lines[i]) \in Seq(Names)
    BY <2>1, <1>1
  <2>8. Words(n) \in Seq(Seq(Names))
    BY <2>0, <2>7, IsASeq
  <2> QED
    BY <2>2, <2>5, <2>6, <2>8
<1>3. k \in 0..Len(lines) /\ k + 1 \in 0..Len(lines) /\ k + 1 \in 1..Len(lines)
  OBVIOUS
<1>4. lines[k + 1] \in Tokens /\ Word(lines[k + 1]) \in Seq(Names)
  BY <1>1, <1>3, ElementOfSeq
<1>5. PICK w : w = Word(lines[k + 1])
  OBVIOUS
<1>6. Words(k + 1) = Append(Words(k), w)
  <2> HIDE DEF Word
  <2>1. Len(Words(k)) = k
    OBVIOUS
  <2> QED
    BY <1>5, <2>1
<1>7. PICK words : words = Words(k)
  OBVIOUS
<1>8. FlattenSeq(Append(words, w)) = FlattenSeq(words) \o w /\ FlattenSeq(words) \in Seq(Names)
  BY <1>2, <1>3, <1>4, <1>5, <1>7, FlattenAppend, FlattenType
<1>9. TextsOf(SubSeq(lines, 1, k)) = FlattenSeq(words)
  BY <1>2, <1>3, <1>7
<1>10. TextsOf(SubSeq(lines, 1, k + 1)) = FlattenSeq(words) \o w
  BY <1>2, <1>3, <1>6, <1>7, <1>8
<1>11. PICK t : t = FlattenSeq(words)
  OBVIOUS
<1>12. t \in Seq(Names)
  BY <1>8, <1>11
<1>13. ASSUME lines[k + 1].type = "STRING" PROVE t \o w = Append(t, lines[k + 1].text)
  <2>1. w = <<lines[k + 1].text>> /\ lines[k + 1].text \in Names
    BY <1>4, <1>5, <1>13 DEF Tokens
  <2> QED
    BY <2>1, <1>12, AppendIsConcat
<1>14. ASSUME lines[k + 1].type # "STRING" PROVE t \o w = t
  <2>1. w = <<>>
    BY <1>5, <1>14
  <2> QED
    BY <2>1, <1>12
<1> HIDE DEF Words, Word
<1> QED
  BY <1>8, <1>9, <1>10, <1>11, <1>13, <1>14

LEMMA TextsStart == TextsOf(SubSeq(<<>>, 1, 0)) = <<>> /\ \A s : TextsOf(SubSeq(s, 1, 0)) = <<>>
<1>1. \A s : SubSeq(s, 1, 0) = <<>>
  BY SubSeqEmpty
<1>2. TextsOf(<<>>) = FlattenSeq(<<>>)
  BY DEF TextsOf
<1> QED
  BY <1>1, <1>2, FlattenEmpty

-----------------------------------------------------------------------------
(* What the tokens of the i-th call's file say.                               *)
Tellings(files, c, i) == TokensSay(files, Says(files)[MaxFiles - i], c.path, c.filename)

LEMMA TellingsType ==
    ASSUME NEW files \in Disks, NEW c \in Frame, NEW i \in 1..MaxFiles, Opened(files, c, i)
    PROVE  /\ Tellings(files, c, i) \in Seq(Seq(Stmts))
           /\ Len(Tellings(files, c, i)) = Len(files[c.path])
           /\ files[c.path] \in Seq(Tokens)
           /\ Says(files)[MaxFiles - i] \in Said
           /\ c.path \in Names /\ c.filename \in Names
<1>1. MaxFiles - i \in Nat
  BY LimitAssumption
<1>2. Says(files)[MaxFiles - i] \in Said
  BY <1>1, SaysIs
<1>3. files[c.path] \in Seq(Tokens)
  BY DiskHolds DEF Opened
<1>4. c.path \in Names /\ c.filename \in Names
  BY DEF Frame
<1> QED
  BY <1>2, <1>3, <1>4, TokensSayIs DEF Tellings

LEMMA TellingIs ==
    ASSUME NEW files \in Disks, NEW c \in Frame, NEW i \in 1..MaxFiles, Opened(files, c, i),
           NEW k \in 1..Len(files[c.path])
    PROVE  /\ files[c.path][k].type = "SKIP" => Tellings(files, c, i)[k] = <<<<c.path, k>>>>
           /\ files[c.path][k].type = "INCLUDE" => Tellings(files, c, i)[k] = <<>>
           /\ files[c.path][k].type = "STRING" =>
                Tellings(files, c, i)[k]
                  = Says(files)[MaxFiles - i][<<dir_name(c.filename), files[c.path][k].text>>]
<1>1. files[c.path] \in Seq(Tokens)
  BY TellingsType
<1>2. PICK said, path, name : said = Says(files)[MaxFiles - i] /\ path = c.path /\ name = c.filename
  OBVIOUS
<1>3. /\ files[path][k].type = "SKIP" => TokensSay(files, said, path, name)[k] = <<<<path, k>>>>
      /\ files[path][k].type = "INCLUDE" => TokensSay(files, said, path, name)[k] = <<>>
      /\ files[path][k].type = "STRING" =>
           TokensSay(files, said, path, name)[k] = said[<<dir_name(name), files[path][k].text>>]
  BY <1>1, <1>2, TokenSays
<1>4. Tellings(files, c, i) = TokensSay(files, said, path, name)
  BY <1>2 DEF Tellings
<1> QED
  BY <1>2, <1>3, <1>4

(* Before anything of a file has been read.                                   *)
LEMMA ToldStart ==
    ASSUME NEW files, NEW c, NEW i, c.rules = <<>>
    PROVE  Told(files, c, i, 0)
<1>1. \A s : SubSeq(s, 1, 0) = <<>>
  BY SubSeqEmpty
<1> QED
  BY <1>1, FlattenEmpty DEF Told

LEMMA ToldStays ==
    ASSUME NEW files, NEW c, NEW c2, NEW i, NEW k, Told(files, c, i, k),
           c2.rules = c.rules, c2.path = c.path, c2.filename = c.filename
    PROVE  Told(files, c2, i, k)
  BY DEF Told

(* One token more.                                                            *)
LEMMA ToldNext ==
    ASSUME NEW files \in Disks, NEW c \in Frame, NEW i \in 1..MaxFiles, Opened(files, c, i),
           NEW k \in Nat, k < Len(files[c.path]), Told(files, c, i, k),
           NEW c2, c2.path = c.path, c2.filename = c.filename,
           c2.rules = c.rules \o Tellings(files, c, i)[k + 1]
    PROVE  Told(files, c2, i, k + 1)
<1>1. PICK seqs : seqs = Tellings(files, c, i)
  OBVIOUS
<1>2. seqs \in Seq(Seq(Stmts)) /\ Len(seqs) = Len(files[c.path])
  BY <1>1, TellingsType
<1>3. FlattenSeq(SubSeq(seqs, 1, k + 1)) = FlattenSeq(SubSeq(seqs, 1, k)) \o seqs[k + 1]
  BY <1>2, FlattenPart
<1>4. c.rules = FlattenSeq(SubSeq(seqs, 1, k))
  BY <1>1 DEF Told, Tellings
<1>5. c2.rules = FlattenSeq(SubSeq(seqs, 1, k + 1))
  BY <1>1, <1>3, <1>4
<1> QED
  BY <1>1, <1>5 DEF Told, Tellings

LEMMA ToldSkip ==
    ASSUME NEW files \in Disks, NEW c \in Frame, NEW i \in 1..MaxFiles, Opened(files, c, i),
           NEW k \in Nat, k < Len(files[c.path]), Told(files, c, i, k),
           files[c.path][k + 1].type = "SKIP",
           NEW c2, c2.path = c.path, c2.filename = c.filename,
           c2.rules = Append(c.rules, <<c.path, k + 1>>)
    PROVE  Told(files, c2, i, k + 1)
<1>1. files[c.path] \in Seq(Tokens) /\ k + 1 \in 1..Len(files[c.path]) /\ c.path \in Names
  BY TellingsType
<1>2. Tellings(files, c, i)[k + 1] = <<<<c.path, k + 1>>>>
  BY <1>1, TellingIs
<1>3. c.rules \in Seq(Stmts) /\ <<c.path, k + 1>> \in Stmts
  BY <1>1 DEF Frame, Stmts
<1>4. c2.rules = c.rules \o Tellings(files, c, i)[k + 1]
  BY <1>2, <1>3, AppendIsConcat
<1> QED
  BY <1>4, ToldNext

LEMMA ToldInclude ==
    ASSUME NEW files \in Disks, NEW c \in Frame, NEW i \in 1..MaxFiles, Opened(files, c, i),
           NEW k \in Nat, k < Len(files[c.path]), Told(files, c, i, k),
           files[c.path][k + 1].type = "INCLUDE",
           NEW c2, c2.path = c.path, c2.filename = c.filename, c2.rules = c.rules
    PROVE  Told(files, c2, i, k + 1)
<1>1. files[c.path] \in Seq(Tokens) /\ k + 1 \in 1..Len(files[c.path])
  BY TellingsType
<1>2. Tellings(files, c, i)[k + 1] = <<>>
  BY <1>1, TellingIs
<1>3. c.rules \in Seq(Stmts)
  BY DEF Frame
<1>4. c2.rules = c.rules \o Tellings(files, c, i)[k + 1]
  BY <1>2, <1>3
<1> QED
  BY <1>4, ToldNext

LEMMA ToldString ==
    ASSUME NEW files \in Disks, NEW c \in Frame, NEW i \in 1..MaxFiles, Opened(files, c, i),
           NEW k \in Nat, k < Len(files[c.path]), Told(files, c, i, k),
           files[c.path][k + 1].type = "STRING",
           NEW c2, c2.path = c.path, c2.filename = c.filename,
           c2.rules = c.rules \o Says(files)[MaxFiles - i][<<dir_name(c.filename), files[c.path][k + 1].text>>]
    PROVE  Told(files, c2, i, k + 1)
<1>1. files[c.path] \in Seq(Tokens) /\ k + 1 \in 1..Len(files[c.path])
  BY TellingsType
<1>2. Tellings(files, c, i)[k + 1]
        = Says(files)[MaxFiles - i][<<dir_name(c.filename), files[c.path][k + 1].text>>]
  BY <1>1, TellingIs
<1> QED
  BY <1>2, ToldNext

(* At the end of a file.                                                      *)
LEMMA ToldAll ==
    ASSUME NEW files \in Disks, NEW c \in Frame, NEW i \in 1..MaxFiles, Opened(files, c, i),
           NEW dir \in Names, At(files, dir, c)
    PROVE  /\ FlattenSeq(Tellings(files, c, i)) = Says(files)[(MaxFiles - i) + 1][<<dir, c.filename>>]
           /\ Told(files, c, i, Len(files[c.path])) =>
                c.rules = Says(files)[(MaxFiles - i) + 1][<<dir, c.filename>>]
<1>1. PICK seqs : seqs = Tellings(files, c, i)
  OBVIOUS
<1>2. seqs \in Seq(Seq(Stmts)) /\ Len(seqs) = Len(files[c.path]) /\ c.filename \in Names
  BY <1>1, TellingsType
<1>3. SubSeq(seqs, 1, Len(files[c.path])) = seqs
  BY <1>2, SubSeqFull
<1>4. MaxFiles - i \in Nat
  BY LimitAssumption
<1>5. Says(files)[(MaxFiles - i) + 1] = OneMore(files, Says(files)[MaxFiles - i])
  BY <1>4, SaysIs
<1>6. <<dir, c.filename>> \in Names \X Names
  BY <1>2
<1>7. OneMore(files, Says(files)[MaxFiles - i])[<<dir, c.filename>>] = FlattenSeq(seqs)
  BY <1>1, <1>6 DEF OneMore, At, Tellings
<1>8. Told(files, c, i, Len(files[c.path])) => c.rules = FlattenSeq(seqs)
  BY <1>1, <1>3 DEF Told, Tellings
<1> QED
  BY <1>1, <1>5, <1>7, <1>8

-----------------------------------------------------------------------------
(* The stack of calls when the last one goes on, ends, or calls another.      *)
OnlyLast(s, s2) ==
    /\ s2 \in Seq(Frame) /\ Len(s2) = Len(s)
    /\ \A i \in 1..Len(s) : i < Len(s) => s2[i] = s[i]

SameFile(c, c2) ==
    c2.path = c.path /\ c2.filename = c.filename /\ c2.old_yylineno = c.old_yylineno

LEMMA IncludesSame ==
    ASSUME NEW files, NEW c, NEW d, NEW d2, NEW i, Includes(files, c, d, i), SameFile(d, d2)
    PROVE  Includes(files, c, d2, i)
  BY DEF Includes, SameFile, At

LEMMA StackGoesOn ==
    ASSUME NEW files, NEW s, Stack(files, s), s # <<>>, NEW s2, OnlyLast(s, s2),
           SameFile(s[Len(s)], s2[Len(s)]), Opened(files, s2[Len(s)], Len(s))
    PROVE  Stack(files, s2)
<1>1. s \in Seq(Frame) /\ Len(s) \in Nat /\ Len(s) >= 1 /\ Len(s) <= MaxFiles
  BY DEF Stack
<1>2. s2 \in Seq(Frame) /\ Len(s2) = Len(s)
  BY DEF OnlyLast
<1>3. ASSUME NEW i \in 1..Len(s) PROVE Opened(files, s2[i], i)
  <2>1. CASE i = Len(s)
    BY <2>1
  <2>2. CASE i < Len(s)
    <3>1. s2[i] = s[i] /\ Opened(files, s[i], i)
      BY <2>2 DEF OnlyLast, Stack
    <3> QED
      BY <3>1
  <2> QED
    BY <1>1, <2>1, <2>2
<1>4. ASSUME NEW i \in 1..Len(s), i < Len(s) PROVE Includes(files, s2[i], s2[i + 1], i)
  <2>1. s2[i] = s[i] /\ Includes(files, s[i], s[i + 1], i)
    BY <1>4 DEF OnlyLast, Stack
  <2>2. i + 1 \in 1..Len(s)
    BY <1>1, <1>4
  <2>3. CASE i + 1 < Len(s)
    <3>1. s2[i + 1] = s[i + 1]
      BY <2>2, <2>3 DEF OnlyLast
    <3> QED
      BY <2>1, <3>1
  <2>4. CASE i + 1 = Len(s)
    <3>1. SameFile(s[i + 1], s2[i + 1])
      BY <2>4
    <3> QED
      BY <2>1, <3>1, IncludesSame
  <2> QED
    BY <1>1, <2>2, <2>3, <2>4
<1>5. At(files, <<>>, s2[1]) /\ s2[1].filename = Main
  <2>1. At(files, <<>>, s[1]) /\ s[1].filename = Main
    BY <1>1 DEF Stack
  <2>2. CASE 1 < Len(s)
    <3>1. s2[1] = s[1]
      BY <1>1, <2>2 DEF OnlyLast
    <3> QED
      BY <2>1, <3>1
  <2>3. CASE 1 = Len(s)
    <3>1. SameFile(s[1], s2[1])
      BY <2>3
    <3> QED
      BY <2>1, <3>1 DEF At, SameFile
  <2> QED
    <3>1. PICK n : n = Len(s)
      OBVIOUS
    <3>2. n \in Nat /\ n >= 1
      BY <1>1, <3>1
    <3>3. 1 < n \/ 1 = n
      BY <3>2
    <3> QED
      BY <3>1, <3>3, <2>2, <2>3
<1> QED
  BY <1>1, <1>2, <1>3, <1>4, <1>5 DEF Stack

Push(s, c) == Append(s, c)

LEMMA StackCalls ==
    ASSUME NEW files, NEW s, Stack(files, s), NEW c \in Frame, Len(s) < MaxFiles,
           Opened(files, c, Len(s) + 1),
           s # <<>> => Includes(files, s[Len(s)], c, Len(s)),
           s = <<>> => At(files, <<>>, c) /\ c.filename = Main
    PROVE  Stack(files, Push(s, c))
<1>1. s \in Seq(Frame) /\ Len(s) \in Nat
  BY DEF Stack
<1>2. PICK n : n = Len(s)
  OBVIOUS
<1>3. PICK s2 : s2 = Push(s, c)
  OBVIOUS
<1>4. /\ s2 \in Seq(Frame) /\ Len(s2) = n + 1 /\ s2[n + 1] = c
      /\ \A i \in 1..n : s2[i] = s[i]
  BY <1>1, <1>2, <1>3 DEF Push
<1>5. n + 1 <= MaxFiles /\ n \in Nat
  BY <1>1, <1>2, LimitAssumption
<1>6. ASSUME NEW i \in 1..(n + 1) PROVE Opened(files, s2[i], i)
  <2>1. CASE i = n + 1
    BY <2>1, <1>2, <1>4
  <2>2. CASE i \in 1..n
    <3>1. s2[i] = s[i] /\ Opened(files, s[i], i)
      BY <2>2, <1>2, <1>4 DEF Stack
    <3> QED
      BY <3>1
  <2> QED
    BY <1>5, <2>1, <2>2
<1>7. ASSUME NEW i \in 1..(n + 1), i < n + 1 PROVE Includes(files, s2[i], s2[i + 1], i)
  <2>1. i \in 1..n /\ s2[i] = s[i]
    BY <1>4, <1>5, <1>7
  <2>2. CASE i = n
    <3>1. s # <<>>
      BY <1>2, <2>1
    <3> QED
      BY <3>1, <2>1, <2>2, <1>2, <1>4
  <2>3. CASE i < n
    <3>1. i + 1 \in 1..n
      BY <1>5, <2>1, <2>3
    <3>2. Includes(files, s[i], s[i + 1], i)
      BY <2>1, <2>3, <1>2 DEF Stack
    <3>3. s2[i + 1] = s[i + 1]
      BY <3>1, <1>4
    <3> QED
      BY <3>2, <3>3, <2>1
  <2> QED
    BY <1>5, <2>1, <2>2, <2>3
<1>8. At(files, <<>>, s2[1]) /\ s2[1].filename = Main
  <2>1. CASE n = 0
    <3>1. s = <<>>
      <4>1. Len(s) = 0
        BY <1>2, <2>1
      <4> QED
        BY <4>1, <1>1, EmptySeq
    <3> QED
      BY <3>1, <2>1, <1>4
  <2>2. CASE n # 0
    <3>1. 1 \in 1..n
      BY <1>5, <2>2
    <3>2. s2[1] = s[1] /\ Len(s) >= 1
      BY <3>1, <1>2, <1>4
    <3> QED
      BY <3>2 DEF Stack
  <2> QED
    BY <2>1, <2>2
<1> QED
  BY <1>3, <1>4, <1>5, <1>6, <1>7, <1>8 DEF Stack

LEMMA StackReturns ==
    ASSUME NEW files, NEW s, Stack(files, s), Len(s) >= 1
    PROVE  Stack(files, Front(s)) /\ Len(Front(s)) = Len(s) - 1
           /\ \A i \in 1..(Len(s) - 1) : Front(s)[i] = s[i]
<1>1. s \in Seq(Frame) /\ Len(s) \in Nat
  BY DEF Stack
<1>2. PICK n : n = Len(s) - 1
  OBVIOUS
<1>3. PICK s2 : s2 = Front(s)
  OBVIOUS
<1>4. n \in Nat /\ Len(s) = n + 1 /\ n <= MaxFiles
  BY <1>1, <1>2, LimitAssumption DEF Stack
<1>5. s2 \in Seq(Frame) /\ Len(s2) = n /\ \A i \in 1..n : s2[i] = s[i]
  <2>1. \A i \in 1..n : s[i] \in Frame
    BY <1>1, <1>4, ElementOfSeq
  <2>2. s2 = SubSeq(s, 1, n)
    BY <1>2, <1>3 DEF Front
  <2> QED
    BY <2>1, <2>2, <1>4
<1>6. ASSUME NEW i \in 1..n PROVE Opened(files, s2[i], i)
  <2>1. s2[i] = s[i] /\ i \in 1..Len(s)
    BY <1>4, <1>5
  <2> QED
    BY <2>1 DEF Stack
<1>7. ASSUME NEW i \in 1..n, i < n PROVE Includes(files, s2[i], s2[i + 1], i)
  <2>1. i + 1 \in 1..n /\ i \in 1..Len(s) /\ i < Len(s)
    BY <1>4, <1>7
  <2>2. s2[i] = s[i] /\ s2[i + 1] = s[i + 1]
    BY <2>1, <1>5
  <2>3. Includes(files, s[i], s[i + 1], i)
    BY <2>1 DEF Stack
  <2> QED
    BY <2>2, <2>3
<1>8. n >= 1 => At(files, <<>>, s2[1]) /\ s2[1].filename = Main
  <2> SUFFICES ASSUME n >= 1 PROVE At(files, <<>>, s2[1]) /\ s2[1].filename = Main
    OBVIOUS
  <2>1. s2[1] = s[1]
    BY <1>4, <1>5
  <2> QED
    BY <2>1 DEF Stack
<1>9. Stack(files, s2)
  BY <1>4, <1>5, <1>6, <1>7, <1>8 DEF Stack
<1> QED
  BY <1>2, <1>3, <1>5, <1>9

-----------------------------------------------------------------------------
(* What is known while a file is read.                                        *)
LEMMA Top ==
    ASSUME IInv, Parsing
    PROVE  /\ disk \in Disks
           /\ calls \in Seq(Frame) /\ Len(calls) \in 1..MaxFiles
           /\ running = calls[Len(calls)] /\ running \in Frame
           /\ Opened(disk, running, Len(calls))
           /\ Reads(disk, running, Len(calls), yychar, yylineno)
           /\ disk[running.path] \in Seq(Tokens)
           /\ running.at \in 0..Len(disk[running.path])
           /\ file = Len(calls) /\ lex_file = Len(calls) /\ buffer = Len(calls)
<1>1. calls \in Seq(Frame) /\ calls # <<>> /\ Len(calls) <= MaxFiles
  BY DEF IInv, Stack, Ends, Parsing
<1>2. Len(calls) \in 1..MaxFiles /\ Len(calls) \in 1..Len(calls)
  BY <1>1, EmptySeq, LimitAssumption
<1>3. running = calls[Len(calls)]
  BY DEF running, Last
<1>4. running \in Frame /\ Opened(disk, running, Len(calls))
  BY <1>1, <1>2, <1>3, ElementOfSeq DEF IInv, Stack
<1>5. Reads(disk, running, Len(calls), yychar, yylineno)
  BY <1>1, <1>3 DEF IInv
<1>6. disk[running.path] \in Seq(Tokens)
  BY <1>4, DiskHolds DEF IInv, Opened
<1>7. running.at \in Nat
  BY <1>4 DEF Frame
<1>8. running.at <= Len(disk[running.path]) /\ Len(disk[running.path]) \in Nat
  BY <1>4, <1>6 DEF Opened
<1> QED
  BY <1>1, <1>2, <1>3, <1>4, <1>5, <1>6, <1>7, <1>8 DEF IInv, Globals

(* The call that reads goes on.                                               *)
LEMMA GoesOn ==
    ASSUME IInv, Parsing, status' = status,
           UNCHANGED <<disk, file, lex_file, buffer, script>>,
           OnlyLast(calls, calls'),
           SameFile(running, calls'[Len(calls)]),
           Opened(disk, calls'[Len(calls)], Len(calls)),
           Reads(disk, calls'[Len(calls)], Len(calls), yychar', yylineno'),
           yychar' \in Tokens \cup {YYEMPTY, YYEOF}, yylineno' \in Nat
    PROVE  IInv'
<1>1. Len(calls') = Len(calls) /\ calls' \in Seq(Frame) /\ Len(calls) \in 1..MaxFiles
  BY Top DEF OnlyLast
<1>2. Stack(disk, calls')
  <2>1. Stack(disk, calls) /\ calls # <<>>
    BY DEF IInv, Ends, Parsing
  <2>2. SameFile(calls[Len(calls)], calls'[Len(calls)])
    BY Top
  <2> QED
    BY <2>1, <2>2, StackGoesOn
<1>3. Stack(disk, calls)'
  BY <1>2
<1>4. calls' # <<>>
  BY <1>1, EmptySeq
<1>5. Reads(disk, calls[Len(calls)], Len(calls), yychar, yylineno)'
  BY <1>1
<1>6. Globals'
  BY <1>1, Top DEF Globals
<1>7. status' = "parse" /\ script' = <<>>
  BY DEF Parsing, IInv, Ends
<1>8. Ends'
  BY <1>4, <1>7 DEF Ends
<1>9. ErrorsLocated'
  BY <1>7 DEF ErrorsLocated
<1>10. (disk \in Disks)'
  BY DEF IInv
<1> QED
  BY <1>3, <1>5, <1>6, <1>8, <1>9, <1>10 DEF IInv

(* The program dies.                                                          *)
LEMMA Dies ==
    ASSUME IInv, status \in {"start", "parse"}, script_die
    PROVE  IInv'
<1>0. UNCHANGED <<disk, calls, file, lex_file, buffer, yychar, yylineno, script>> /\ status' = "dead"
  BY DEF script_die, globals
<1>1. Stack(disk, calls)' /\ (disk \in Disks)'
  BY <1>0 DEF IInv
<1>2. (calls # <<>> => Reads(disk, calls[Len(calls)], Len(calls), yychar, yylineno))'
  BY <1>0 DEF IInv
<1>3. Globals'
  BY <1>0 DEF IInv, Globals
<1>4. Ends'
  <2>1. script = <<>>
    BY DEF IInv, Ends
  <2> QED
    BY <1>0, <2>1 DEF Ends
<1>5. where' = IF calls = <<>> THEN <<>> ELSE <<running.filename, IF running.at = 0 THEN 1 ELSE running.at>>
  <2>1. CASE calls = <<>>
    <3>1. file = NULL
      BY <2>1 DEF IInv, Globals, NULL
    <3> QED
      BY <2>1, <3>1 DEF script_die
  <2>2. CASE calls # <<>>
    <3>1. Parsing
      BY <2>2 DEF Parsing, IInv, Ends
    <3>2. file = Len(calls) /\ file # NULL /\ running = calls[file]
      BY <3>1, Top DEF NULL
    <3>3. yylineno = LineOf(running)
      BY <3>1, Top DEF Reads
    <3> QED
      BY <2>2, <3>2, <3>3 DEF script_die, LineOf
  <2> QED
    BY <2>1, <2>2
<1>6. running' = running
  BY <1>0 DEF running, Last
<1>7. ErrorsLocated'
  BY <1>0, <1>5, <1>6 DEF ErrorsLocated
<1> QED
  BY <1>1, <1>2, <1>3, <1>4, <1>7 DEF IInv

(* The last call alone is changed.                                            *)
LEMMA ChangesLast ==
    ASSUME NEW s \in Seq(Frame), s # <<>>, NEW c \in Frame
    PROVE  /\ OnlyLast(s, [s EXCEPT ![Len(s)] = c])
           /\ [s EXCEPT ![Len(s)] = c][Len(s)] = c
<1>1. Len(s) \in 1..Len(s)
  BY EmptySeq
<1>2. PICK s2 : s2 = [s EXCEPT ![Len(s)] = c]
  OBVIOUS
<1>3. s2 \in Seq(Frame) /\ Len(s2) = Len(s) /\ s2[Len(s)] = c
  BY <1>1, <1>2
<1>4. \A i \in 1..Len(s) : i < Len(s) => s2[i] = s[i]
  BY <1>2
<1> QED
  BY <1>2, <1>3, <1>4 DEF OnlyLast

-----------------------------------------------------------------------------
(* Statement, ReadInclude and ReadName take the token that was looked at.      *)
LEMMA LooksAt ==
    ASSUME IInv, Parsing, yychar \notin {YYEMPTY, YYEOF}
    PROVE  /\ running.reading # "include"
           /\ running.at >= 1 /\ yychar = disk[running.path][running.at]
           /\ running.at - 1 \in Nat /\ running.at - 1 < Len(disk[running.path])
           /\ (running.at - 1) + 1 = running.at
           /\ Told(disk, running, Len(calls), running.at - 1)
           /\ yylineno = LineOf(running) /\ yylineno \in Nat
<1>1. Reads(disk, running, Len(calls), yychar, yylineno) /\ running.at \in 0..Len(disk[running.path])
  BY Top
<1>2. /\ running.reading # "include" /\ running.at >= 1 /\ yychar = disk[running.path][running.at]
      /\ Told(disk, running, Len(calls), running.at - 1) /\ yylineno = LineOf(running)
  BY <1>1 DEF Reads
<1>3. Len(disk[running.path]) \in Nat
  BY Top
<1>4. /\ running.at - 1 \in Nat /\ running.at - 1 < Len(disk[running.path])
      /\ (running.at - 1) + 1 = running.at
  BY <1>1, <1>2, <1>3
<1>5. yylineno \in Nat
  BY DEF IInv, Globals
<1> QED
  BY <1>2, <1>4, <1>5

(* A token that was looked at has gone to a call that is otherwise the same.   *)
LEMMA TakesToken ==
    ASSUME IInv, Parsing, yychar \notin {YYEMPTY, YYEOF}, status' = status,
           UNCHANGED <<disk, file, lex_file, buffer, yylineno, script>>,
           yychar' = YYEMPTY,
           OnlyLast(calls, calls'),
           SameFile(running, calls'[Len(calls)]),
           calls'[Len(calls)].at = running.at,
           calls'[Len(calls)].tokens = running.tokens,
           calls'[Len(calls)].directory = running.directory,
           calls'[Len(calls)].previous = running.previous,
           calls'[Len(calls)].old_yychar = running.old_yychar,
           IF calls'[Len(calls)].reading = "include"
             THEN /\ calls'[Len(calls)].rules = running.rules
                  /\ yychar.type = "STRING" /\ calls'[Len(calls)].name = yychar.text
             ELSE Told(disk, calls'[Len(calls)], Len(calls), running.at)
    PROVE  IInv'
<1>1. PICK c2, n : c2 = calls'[Len(calls)] /\ n = Len(calls)
  OBVIOUS
<1>2. Opened(disk, running, n) /\ Reads(disk, running, n, yychar, yylineno)
  BY <1>1, Top
<1>3. Opened(disk, c2, n)
  BY <1>1, <1>2 DEF Opened, SameFile
<1>4. /\ running.at >= 1 /\ yychar = disk[running.path][running.at]
      /\ Told(disk, running, n, running.at - 1) /\ yylineno = LineOf(running)
  BY <1>1, LooksAt
<1>5. c2.at = running.at /\ c2.path = running.path /\ c2.filename = running.filename
  BY <1>1 DEF SameFile
<1>6. yylineno = LineOf(c2)
  BY <1>4, <1>5 DEF LineOf
<1>7. YYEMPTY # YYEOF
  BY DEF YYEMPTY, YYEOF, Token
<1>8. CASE c2.reading = "include"
  <2>1. c2.rules = running.rules /\ yychar.type = "STRING" /\ c2.name = yychar.text
    BY <1>1, <1>8
  <2>2. Told(disk, c2, n, c2.at - 1)
    BY <1>4, <1>5, <2>1, ToldStays
  <2>3. Reads(disk, c2, n, yychar', yylineno')
    BY <1>4, <1>5, <1>6, <1>7, <1>8, <2>1, <2>2 DEF Reads
  <2> QED
    BY <1>1, <1>3, <2>3, GoesOn, LooksAt
<1>9. CASE c2.reading # "include"
  <2>1. Told(disk, c2, n, c2.at)
    BY <1>1, <1>5, <1>9
  <2>2. Reads(disk, c2, n, yychar', yylineno')
    BY <1>6, <1>7, <1>9, <2>1 DEF Reads
  <2> QED
    BY <1>1, <1>3, <2>2, GoesOn, LooksAt
<1> QED
  BY <1>8, <1>9

LEMMA StatementStep == ASSUME IInv, Statement PROVE IInv'
<1>0. Parsing /\ yychar # YYEMPTY /\ yychar.type = "SKIP" /\ running.reading = "statement"
  BY DEF Statement, Expects
<1>1. yychar \notin {YYEMPTY, YYEOF}
  BY <1>0 DEF YYEMPTY, YYEOF, Token
<1>2. UNCHANGED <<disk, file, lex_file, buffer, yylineno, script>> /\ yychar' = YYEMPTY /\ status' = status
  BY DEF Statement
<1>3. PICK n, c : n = Len(calls) /\ c = running
  OBVIOUS
<1>4. /\ calls \in Seq(Frame) /\ n \in 1..Len(calls) /\ n \in 1..MaxFiles /\ file = n
      /\ c = calls[n] /\ c \in Frame /\ Opened(disk, c, n) /\ disk \in Disks
  BY <1>0, <1>3, Top
<1>5. PICK rules : rules = Append(c.rules, <<c.path, c.at>>)
  OBVIOUS
<1>6. rules \in Seq(Stmts)
  <2>1. c.rules \in Seq(Stmts) /\ <<c.path, c.at>> \in Stmts
    BY <1>4 DEF Frame, Stmts
  <2> QED
    BY <1>5, <2>1
<1>7. PICK c2 : c2 = [c EXCEPT !.rules = rules]
  OBVIOUS
<1>8. c2 \in Frame
  BY <1>4, <1>6, <1>7 DEF Frame
<1>9. calls' = [calls EXCEPT ![Len(calls)] = c2]
  BY <1>3, <1>4, <1>5, <1>7 DEF Statement
<1>10. OnlyLast(calls, calls') /\ calls'[Len(calls)] = c2
  <2>1. calls # <<>>
    BY <1>4
  <2> QED
    BY <1>4, <1>8, <1>9, <2>1, ChangesLast
<1>11. /\ c2.path = c.path /\ c2.filename = c.filename /\ c2.old_yylineno = c.old_yylineno
       /\ c2.at = c.at /\ c2.tokens = c.tokens /\ c2.directory = c.directory
       /\ c2.previous = c.previous /\ c2.old_yychar = c.old_yychar /\ c2.reading = "statement"
       /\ c2.rules = rules
  BY <1>0, <1>3, <1>4, <1>7 DEF Frame
<1>12. Told(disk, c2, n, c.at)
  <2>1. PICK k : k = c.at - 1
    OBVIOUS
  <2>2. /\ k \in Nat /\ k < Len(disk[c.path]) /\ k + 1 = c.at /\ Told(disk, c, n, k)
        /\ yychar = disk[c.path][k + 1]
    BY <1>0, <1>1, <1>3, <2>1, LooksAt
  <2>3. Told(disk, c2, n, k + 1)
    BY <2>2, <1>0, <1>4, <1>5, <1>11, ToldSkip
  <2> QED
    BY <2>2, <2>3
<1>13. SameFile(running, c2)
  BY <1>3, <1>11 DEF SameFile
<1> QED
  BY <1>0, <1>1, <1>2, <1>3, <1>10, <1>11, <1>12, <1>13, TakesToken

LEMMA ReadIncludeStep == ASSUME IInv, ReadInclude PROVE IInv'
<1>0. Parsing /\ yychar # YYEMPTY /\ yychar.type = "INCLUDE" /\ running.reading = "statement"
  BY DEF ReadInclude, Expects
<1>1. yychar \notin {YYEMPTY, YYEOF}
  BY <1>0 DEF YYEMPTY, YYEOF, Token
<1>2. UNCHANGED <<disk, file, lex_file, buffer, yylineno, script>> /\ yychar' = YYEMPTY /\ status' = status
  BY DEF ReadInclude
<1>3. PICK n, c : n = Len(calls) /\ c = running
  OBVIOUS
<1>4. /\ calls \in Seq(Frame) /\ n \in 1..Len(calls) /\ n \in 1..MaxFiles
      /\ c = calls[n] /\ c \in Frame /\ Opened(disk, c, n) /\ disk \in Disks
  BY <1>0, <1>3, Top
<1>7. PICK c2 : c2 = [c EXCEPT !.reading = "name"]
  OBVIOUS
<1>8. c2 \in Frame
  BY <1>4, <1>7 DEF Frame
<1>9. calls' = [calls EXCEPT ![Len(calls)] = c2]
  BY <1>3, <1>4, <1>7 DEF ReadInclude
<1>10. OnlyLast(calls, calls') /\ calls'[Len(calls)] = c2
  <2>1. calls # <<>>
    BY <1>4
  <2> QED
    BY <1>4, <1>8, <1>9, <2>1, ChangesLast
<1>11. /\ c2.path = c.path /\ c2.filename = c.filename /\ c2.old_yylineno = c.old_yylineno
       /\ c2.at = c.at /\ c2.tokens = c.tokens /\ c2.directory = c.directory
       /\ c2.previous = c.previous /\ c2.old_yychar = c.old_yychar /\ c2.reading = "name"
       /\ c2.rules = c.rules
  BY <1>4, <1>7 DEF Frame
<1>12. Told(disk, c2, n, c.at)
  <2>1. PICK k : k = c.at - 1
    OBVIOUS
  <2>2. /\ k \in Nat /\ k < Len(disk[c.path]) /\ k + 1 = c.at /\ Told(disk, c, n, k)
        /\ yychar = disk[c.path][k + 1]
    BY <1>0, <1>1, <1>3, <2>1, LooksAt
  <2>3. Told(disk, c2, n, k + 1)
    BY <2>2, <1>0, <1>4, <1>11, ToldInclude
  <2> QED
    BY <2>2, <2>3
<1>13. SameFile(running, c2)
  BY <1>3, <1>11 DEF SameFile
<1> QED
  BY <1>0, <1>1, <1>2, <1>3, <1>10, <1>11, <1>12, <1>13, TakesToken

LEMMA ReadNameStep == ASSUME IInv, ReadName PROVE IInv'
<1>0. Parsing /\ yychar # YYEMPTY /\ yychar.type = "STRING"
  BY DEF ReadName, Expects
<1>1. yychar \notin {YYEMPTY, YYEOF}
  BY <1>0 DEF YYEMPTY, YYEOF, Token
<1>2. UNCHANGED <<disk, file, lex_file, buffer, yylineno, script>> /\ yychar' = YYEMPTY /\ status' = status
  BY DEF ReadName
<1>3. PICK n, c : n = Len(calls) /\ c = running
  OBVIOUS
<1>4. /\ calls \in Seq(Frame) /\ n \in 1..Len(calls) /\ c = calls[n] /\ c \in Frame
  BY <1>0, <1>3, Top
<1>5. yychar.text \in Names
  <2>1. yychar \in Tokens
    BY <1>1 DEF IInv, Globals
  <2> QED
    BY <2>1 DEF Tokens
<1>7. PICK c2 : c2 = [c EXCEPT !.reading = "include", !.name = yychar.text]
  OBVIOUS
<1>8. c2 \in Frame
  BY <1>4, <1>5, <1>7 DEF Frame
<1>9. calls' = [calls EXCEPT ![Len(calls)] = c2]
  BY <1>3, <1>4, <1>7 DEF ReadName
<1>10. OnlyLast(calls, calls') /\ calls'[Len(calls)] = c2
  <2>1. calls # <<>>
    BY <1>4
  <2> QED
    BY <1>4, <1>8, <1>9, <2>1, ChangesLast
<1>11. /\ c2.path = c.path /\ c2.filename = c.filename /\ c2.old_yylineno = c.old_yylineno
       /\ c2.at = c.at /\ c2.tokens = c.tokens /\ c2.directory = c.directory
       /\ c2.previous = c.previous /\ c2.old_yychar = c.old_yychar /\ c2.reading = "include"
       /\ c2.rules = c.rules /\ c2.name = yychar.text
  BY <1>4, <1>7 DEF Frame
<1>13. SameFile(running, c2)
  BY <1>3, <1>11 DEF SameFile
<1> QED
  BY <1>0, <1>1, <1>2, <1>3, <1>10, <1>11, <1>13, TakesToken

-----------------------------------------------------------------------------
LEMMA LexStep == ASSUME IInv, yylex PROVE IInv'
<1>0. /\ Parsing /\ yychar = YYEMPTY /\ running.reading # "include" /\ status' = status
      /\ UNCHANGED <<disk, file, lex_file, buffer, script>>
  BY DEF yylex
<1>3. PICK n, c : n = Len(calls) /\ c = running
  OBVIOUS
<1>4. /\ calls \in Seq(Frame) /\ n \in 1..Len(calls) /\ n \in 1..MaxFiles
      /\ c = calls[n] /\ c \in Frame /\ Opened(disk, c, n) /\ disk \in Disks
      /\ Reads(disk, c, n, yychar, yylineno) /\ buffer = n /\ lex_file = n /\ n = Len(calls)
  BY <1>0, <1>3, Top
<1>5. PICK lines, at : lines = disk[c.path] /\ at = c.at
  OBVIOUS
<1>6. lines \in Seq(Tokens) /\ at \in 0..Len(lines) /\ Len(lines) \in Nat /\ at \in Nat
  BY <1>0, <1>3, <1>5, Top
<1>7. Told(disk, c, n, at) /\ yylineno = LineOf(c) /\ yylineno \in Nat
  BY <1>0, <1>3, <1>4, <1>5 DEF Reads, IInv, Globals
<1>8. YYEMPTY # YYEOF /\ YYEMPTY \notin Tokens /\ YYEOF \notin Tokens
  BY DEF YYEMPTY, YYEOF, Token, Tokens
<1>9. CASE at = Len(lines)
  <2>1. yychar' = YYEOF /\ UNCHANGED <<calls, yylineno>>
    BY <1>4, <1>5, <1>9 DEF yylex
  <2>2. OnlyLast(calls, calls') /\ SameFile(running, calls'[Len(calls)])
    BY <1>3, <1>4, <2>1 DEF OnlyLast, SameFile
  <2>3. Reads(disk, c, n, yychar', yylineno')
    BY <1>0, <1>3, <1>5, <1>7, <1>8, <1>9, <2>1 DEF Reads
  <2>4. calls'[Len(calls)] = c
    BY <1>4, <2>1
  <2> QED
    BY <1>0, <1>3, <1>4, <1>7, <2>1, <2>2, <2>3, <2>4, GoesOn
<1>10. CASE at # Len(lines)
  <2>1. PICK token : token = lines[at + 1]
    OBVIOUS
  <2>2. at < Len(lines) /\ at + 1 \in 1..Len(lines) /\ token \in Tokens
    BY <1>6, <1>10, <2>1, ElementOfSeq
  <2>3. PICK tokens : tokens = IF token.type = "STRING" THEN Append(c.tokens, token.text) ELSE c.tokens
    OBVIOUS
  <2>4. tokens \in Seq(Names)
    <3>1. token.text \in Names /\ c.tokens \in Seq(Names)
      BY <1>4, <2>2 DEF Tokens, Frame
    <3> QED
      BY <2>3, <3>1
  <2>5. PICK c2 : c2 = [c EXCEPT !.at = at + 1, !.tokens = tokens]
    OBVIOUS
  <2>6. c2 \in Frame
    <3>1. PICK more : more = at + 1
      OBVIOUS
    <3>2. more \in Nat /\ c \in Frame
      BY <1>4, <1>6, <3>1
    <3>3. c2 = [c EXCEPT !.at = more, !.tokens = tokens]
      BY <2>5, <3>1
    <3> QED
      BY <2>4, <3>2, <3>3 DEF Frame
  <2>7. /\ yychar' = token
        /\ yylineno' = IF at = 0 THEN yylineno ELSE yylineno + 1
        /\ calls' = [i \in DOMAIN calls |->
                      [calls[i] EXCEPT
                         !.at = IF i = n THEN at + 1 ELSE @,
                         !.tokens = IF i = n /\ yychar'.type = "STRING"
                                      THEN Append(@, yychar'.text) ELSE @]]
    BY <1>4, <1>5, <1>10, <2>1 DEF yylex
  <2>15. yychar' = token /\ yylineno' = IF at = 0 THEN yylineno ELSE yylineno + 1
    BY <2>7
  <2>16. yylineno' = at + 1 /\ at + 1 \in Nat /\ at + 1 # 0
    <3>1. yylineno = IF at = 0 THEN 1 ELSE at
      BY <1>5, <1>7 DEF LineOf
    <3>2. CASE at = 0
      BY <2>15, <3>1, <3>2
    <3>3. CASE at # 0
      BY <1>6, <2>15, <3>1, <3>3
    <3> QED
      BY <1>6, <3>2, <3>3
  <2>8. calls' \in Seq(Frame) /\ Len(calls') = Len(calls) /\ calls'[n] = c2
        /\ \A i \in 1..Len(calls) : i < n => calls'[i] = calls[i]
    <3>1. DOMAIN calls = 1..Len(calls) /\ Len(calls) \in Nat
      BY <1>4
    <3>2. calls'[n] = c2
      BY <1>4, <2>3, <2>5, <2>7, <3>1
    <3>3. ASSUME NEW i \in 1..Len(calls), i # n PROVE calls'[i] = calls[i]
      <4>1. calls'[i] = [calls[i] EXCEPT !.at = @, !.tokens = @]
        BY <2>7, <3>1, <3>3
      <4>2. calls[i] \in Frame
        BY <1>4, <3>3, ElementOfSeq
      <4> QED
        BY <4>1, <4>2 DEF Frame
    <3>4. ASSUME NEW i \in 1..Len(calls) PROVE calls'[i] \in Frame
      <4>1. calls[i] \in Frame
        BY <1>4, ElementOfSeq
      <4> QED
        BY <2>6, <3>2, <3>3, <4>1
    <3>5. DOMAIN calls' = 1..Len(calls)
      BY <2>7, <3>1
    <3>6. calls' = [i \in 1..Len(calls) |-> calls'[i]]
      BY <2>7, <3>1, <3>5
    <3>7. calls' \in Seq(Frame) /\ Len(calls') = Len(calls)
      BY <3>1, <3>4, <3>6, IsASeq
    <3>8. \A i \in 1..Len(calls) : i < n => calls'[i] = calls[i]
      BY <1>4, <3>1, <3>3
    <3> QED
      BY <3>2, <3>7, <3>8
  <2>9. OnlyLast(calls, calls')
    BY <1>4, <2>8 DEF OnlyLast
  <2>10. /\ c2.path = c.path /\ c2.filename = c.filename /\ c2.old_yylineno = c.old_yylineno
         /\ c2.at = at + 1 /\ c2.tokens = tokens /\ c2.directory = c.directory
         /\ c2.previous = c.previous /\ c2.old_yychar = c.old_yychar /\ c2.reading = c.reading
         /\ c2.rules = c.rules
    BY <1>4, <2>5 DEF Frame
  <2>11. SameFile(running, c2)
    BY <1>3, <2>10 DEF SameFile
  <2>12. Opened(disk, c2, n)
    <3>1. c.tokens = TextsOf(SubSeq(lines, 1, at))
      BY <1>4, <1>5 DEF Opened
    <3>2. tokens = TextsOf(SubSeq(lines, 1, at + 1))
      BY <1>6, <2>1, <2>2, <2>3, <3>1, TextsNext
    <3>3. c2.at <= Len(disk[c2.path])
      BY <1>5, <2>2, <2>10
    <3> QED
      BY <1>4, <1>5, <2>10, <3>2, <3>3 DEF Opened
  <2>13. Reads(disk, c2, n, yychar', yylineno')
    <3>1. yylineno' = LineOf(c2)
      BY <2>10, <2>16 DEF LineOf
    <3>2. Told(disk, c2, n, at)
      BY <1>7, <2>10, ToldStays
    <3>3. c2.at - 1 = at /\ c2.at >= 1
      BY <1>6, <2>10
    <3>4. yychar' # YYEMPTY /\ yychar' # YYEOF
      BY <1>8, <2>2, <2>7
    <3>5. c2.reading # "include"
      BY <1>0, <1>3, <2>10
    <3>6. yychar' = disk[c2.path][c2.at]
      BY <1>5, <2>1, <2>7, <2>10
    <3> QED
      BY <3>1, <3>2, <3>3, <3>4, <3>5, <3>6 DEF Reads
  <2>14. yylineno' \in Nat /\ yychar' \in Tokens
    BY <2>2, <2>15, <2>16
  <2> QED
    BY <1>0, <1>3, <2>8, <2>9, <2>11, <2>12, <2>13, <2>14, GoesOn
<1> QED
  BY <1>9, <1>10

LEMMA WrongStep == ASSUME IInv, Wrong PROVE IInv'
<1>1. status = "parse" /\ script_die
  BY DEF Wrong, Expects, Parsing
<1> QED
  BY <1>1, Dies

-----------------------------------------------------------------------------
(* A file that is opened is the one that is found first beside the file that   *)
(* includes it.                                                               *)
LEMMA Finds ==
    ASSUME NEW name \in Names, NEW dir \in Names, Found(name),
           dir = IF file = NULL THEN <<>> ELSE calls[file].directory
    PROVE  /\ Len(calls) # MaxFiles
           /\ Nearest(disk, dir, name) # 0
           /\ Path(name) = Beside(dir, name)[Nearest(disk, dir, name)]
           /\ Path(name) \in DOMAIN disk /\ disk[Path(name)] # Locked
           /\ Path(name) \in Names
<1>1. Places(name) = Beside(dir, name)
  <2>1. <<>> \o name = name
    BY DEF Names
  <2> QED
    BY <2>1 DEF Places, Beside, cat_files
<1>2. fopen(Path(name)) = "open" /\ Tried(name) # 0
  BY DEF Found
<1>3. Len(calls) # MaxFiles /\ Path(name) \in DOMAIN disk /\ disk[Path(name)] # Locked
  BY <1>2 DEF fopen
<1>4. PICK s : s = Beside(dir, name)
  OBVIOUS
<1>5. s \in Seq(Names)
  BY <1>4, NearestIs
<1> DEFINE I == {i \in 1..Len(s) : fopen(s[i]) # "ENOENT"}
           J == {i \in 1..Len(s) : s[i] \in DOMAIN disk /\ disk[s[i]] # Locked}
<1>6. Tried(name) = IF I # {} THEN Min(I) ELSE 0
  BY <1>1, <1>4 DEF Tried, SelectInSeq
<1>7. Nearest(disk, dir, name) = IF J # {} THEN Min(J) ELSE 0
  BY <1>4 DEF Nearest, SelectInSeq
<1>8. PICK m : m = Tried(name)
  OBVIOUS
<1>9. I \in SUBSET Nat /\ J \in SUBSET Nat
  BY <1>5
<1>10. J \subseteq I
  BY DEF fopen
<1>11. \A i \in I : s[i] \in DOMAIN disk
  BY <1>3 DEF fopen
<1>12. m \in I /\ \A i \in I : m <= i
  <2>1. I # {} /\ m = Min(I)
    BY <1>2, <1>6, <1>8
  <2>2. \E k \in I : \A i \in I : k <= i
    <3> HIDE DEF I
    <3> QED
      BY <1>9, <2>1, LeastNumber
  <2> HIDE DEF I
  <2> QED
    BY <2>1, <2>2 DEF Min
<1>13. Path(name) = s[m]
  BY <1>1, <1>4, <1>8 DEF Path
<1>14. m \in J
  BY <1>3, <1>12, <1>13
<1>15. Min(J) = m
  <2>1. \A i \in J : m <= i
    BY <1>10, <1>12
  <2>2. ASSUME NEW k \in J, \A i \in J : k <= i PROVE k = m
    <3>1. k <= m /\ m <= k /\ k \in Nat /\ m \in Nat
      BY <1>9, <1>14, <2>1, <2>2
    <3> QED
      BY <3>1
  <2> HIDE DEF J
  <2> QED
    BY <1>14, <2>1, <2>2 DEF Min
<1>16. Nearest(disk, dir, name) = m /\ m # 0
  BY <1>2, <1>7, <1>8, <1>14, <1>15
<1>17. s[m] \in Names
  BY <1>5, <1>12, ElementOfSeq
<1> QED
  BY <1>3, <1>4, <1>13, <1>16, <1>17

(* Another file is read.                                                      *)
LEMMA OpenStep ==
    ASSUME IInv, status \in {"start", "parse"}, NEW s, Stack(disk, s), Len(s) = Len(calls),
           NEW name \in Names, Found(name), Open(s, Path(name), name), yychar = YYEMPTY,
           Len(calls) = 0 => name = Main,
           Len(calls) > 0 =>
             /\ s[Len(calls)].reading = "statement" /\ s[Len(calls)].at >= 1
             /\ s[Len(calls)].directory = calls[Len(calls)].directory
             /\ disk[s[Len(calls)].path][s[Len(calls)].at].type = "STRING"
             /\ disk[s[Len(calls)].path][s[Len(calls)].at].text = name
             /\ Told(disk, s[Len(calls)], Len(calls), s[Len(calls)].at - 1)
             /\ yylineno = LineOf(s[Len(calls)])
    PROVE  IInv'
<1>1. PICK n : n = Len(calls)
  OBVIOUS
<1>2. /\ calls \in Seq(Frame) /\ n \in Nat /\ n <= MaxFiles /\ file = n /\ disk \in Disks
      /\ yylineno \in Nat /\ script = <<>>
  BY <1>1 DEF IInv, Stack, Globals, Ends
<1>3. PICK c : c = RemarkFile(Path(name), name)
  OBVIOUS
<1>4. PICK dir : dir = IF file = NULL THEN <<>> ELSE calls[file].directory
  OBVIOUS
<1>5. dir \in Names
  <2>1. CASE n = 0
    BY <1>2, <1>4, <2>1 DEF NULL, Names
  <2>2. CASE n # 0
    <3>1. calls[n] \in Frame
      BY <1>1, <1>2, <2>2, ElementOfSeq
    <3> QED
      BY <1>2, <1>4, <2>2, <3>1 DEF NULL, Frame
  <2> QED
    BY <2>1, <2>2
<1>6. /\ n # MaxFiles /\ Nearest(disk, dir, name) # 0
      /\ Path(name) = Beside(dir, name)[Nearest(disk, dir, name)]
      /\ Path(name) \in DOMAIN disk /\ disk[Path(name)] # Locked /\ Path(name) \in Names
  BY <1>1, <1>4, <1>5, Finds
<1>7. /\ c.path = Path(name) /\ c.filename = name /\ c.directory = dir_name(name)
      /\ c.rules = <<>> /\ c.tokens = <<>> /\ c.previous = n /\ c.at = 0
      /\ c.reading = "statement" /\ c.old_yychar = YYEMPTY /\ c.old_yylineno = yylineno
  BY <1>2, <1>3 DEF RemarkFile
<1>8. c \in Frame
  <2>1. dir_name(name) \in Names /\ <<>> \in Names
    BY DEF dir_name, Front, Names
  <2>2. c = [path |-> Path(name), filename |-> name, directory |-> dir_name(name),
             rules |-> <<>>, tokens |-> <<>>, previous |-> n,
             at |-> 0, reading |-> "statement", name |-> <<>>,
             old_yychar |-> YYEMPTY, old_yylineno |-> yylineno]
    BY <1>2, <1>3 DEF RemarkFile
  <2>3. <<>> \in Seq(Stmts) /\ <<>> \in Seq(Names)
    OBVIOUS
  <2> QED
    BY <1>2, <1>6, <2>1, <2>2, <2>3 DEF Frame
<1>9. disk[c.path] \in Seq(Tokens)
  BY <1>2, <1>6, <1>7, DiskHolds
<1>10. Opened(disk, c, n + 1)
  <2>1. c.tokens = TextsOf(SubSeq(disk[c.path], 1, c.at))
    BY <1>7, TextsStart
  <2>2. c.at <= Len(disk[c.path])
    BY <1>7, <1>9
  <2>3. c.previous = (n + 1) - 1
    BY <1>2, <1>7
  <2> QED
    BY <1>6, <1>7, <2>1, <2>2, <2>3 DEF Opened
<1>11. At(disk, dir, c)
  BY <1>6, <1>7 DEF At
<1>12. Len(s) = n /\ s \in Seq(Frame)
  BY <1>1 DEF Stack
<1>13. ASSUME s # <<>> PROVE Includes(disk, s[Len(s)], c, Len(s))
  <2>1. n # 0 /\ n > 0
    BY <1>2, <1>12, <1>13, EmptySeq
  <2>2. n \in 1..Len(s)
    BY <1>2, <1>12, <2>1
  <2>3. Opened(disk, s[n], n)
    BY <2>2 DEF Stack
  <2>4. dir = dir_name(s[n].filename)
    <3>1. dir = calls[n].directory
      BY <1>2, <1>4, <2>1 DEF NULL
    <3>2. s[n].directory = calls[n].directory
      BY <1>1, <2>1
    <3>3. s[n].directory = dir_name(s[n].filename)
      BY <2>3 DEF Opened
    <3> QED
      BY <3>1, <3>2, <3>3
  <2> QED
    BY <1>1, <1>7, <1>11, <1>12, <2>1, <2>4 DEF Includes
<1>14. ASSUME s = <<>> PROVE At(disk, <<>>, c) /\ c.filename = Main
  <2>1. n = 0
    BY <1>12, <1>14, EmptySeq
  <2>2. dir = <<>>
    BY <1>2, <1>4, <2>1 DEF NULL
  <2> QED
    BY <1>1, <1>7, <1>11, <2>1, <2>2
<1>15. Len(s) < MaxFiles
  BY <1>2, <1>6, <1>12, LimitAssumption
<1>16. PICK new : new = Push(s, c)
  OBVIOUS
<1>17. Stack(disk, new)
  BY <1>8, <1>10, <1>12, <1>13, <1>14, <1>15, <1>16, StackCalls
<1>18. new \in Seq(Frame) /\ Len(new) = n + 1 /\ new[n + 1] = c
  BY <1>8, <1>12, <1>16 DEF Push
<1>19. /\ calls' = new /\ file' = n + 1 /\ lex_file' = n + 1 /\ buffer' = n + 1
       /\ yychar' = YYEMPTY /\ yylineno' = 1 /\ status' = "parse"
       /\ disk' = disk /\ script' = script
  BY <1>3, <1>16, <1>18 DEF Open, Push
<1>20. Reads(disk, c, n + 1, YYEMPTY, 1)
  <2>1. Told(disk, c, n + 1, c.at)
    BY <1>7, ToldStart
  <2>2. YYEMPTY # YYEOF
    BY DEF YYEMPTY, YYEOF, Token
  <2> QED
    BY <1>7, <2>1, <2>2 DEF Reads, LineOf
<1>21. Stack(disk, calls)' /\ (disk \in Disks)'
  BY <1>2, <1>17, <1>19
<1>22. Reads(disk, calls[Len(calls)], Len(calls), yychar, yylineno)'
  BY <1>18, <1>19, <1>20
<1>23. Globals'
  BY <1>18, <1>19 DEF Globals
<1>24. calls' # <<>>
  BY <1>2, <1>18, <1>19, EmptySeq
<1>25. Ends'
  BY <1>2, <1>19, <1>24 DEF Ends
<1>26. ErrorsLocated'
  BY <1>19 DEF ErrorsLocated
<1> QED
  BY <1>21, <1>22, <1>23, <1>25, <1>26 DEF IInv

LEMMA ParseStep == ASSUME IInv, parse_script PROVE IInv'
<1>1. status = "start" /\ include_script(<<>>, Main)
  BY DEF parse_script
<1>2. calls = <<>> /\ yychar = YYEMPTY
  BY <1>1 DEF IInv, Ends
<1>3. CASE Found(Main)
  <2>1. Open(<<>>, Path(Main), Main)
    BY <1>1, <1>3 DEF include_script
  <2>2. PICK s : s = calls
    OBVIOUS
  <2>3. Stack(disk, s) /\ Len(s) = 0 /\ s = <<>> /\ Len(calls) = 0
    BY <1>2, <2>2 DEF IInv
  <2>4. Main \in Names
    BY DisksAssumption
  <2>5. Open(s, Path(Main), Main)
    BY <2>1, <2>3
  <2> QED
    BY <1>1, <1>2, <1>3, <2>3, <2>4, <2>5, OpenStep
<1>4. CASE ~ Found(Main)
  <2>1. script_die
    BY <1>1, <1>4 DEF include_script
  <2> QED
    BY <1>1, <2>1, Dies
<1> QED
  BY <1>3, <1>4

LEMMA IncludeStep == ASSUME IInv, IncludeFile PROVE IInv'
<1>1. /\ Parsing /\ running.reading = "include"
      /\ include_script([calls EXCEPT ![Len(calls)].reading = "statement"], running.name)
  BY DEF IncludeFile
<1>2. PICK n, c, s : n = Len(calls) /\ c = running /\ s = [calls EXCEPT ![Len(calls)].reading = "statement"]
  OBVIOUS
<1>3. /\ calls \in Seq(Frame) /\ n \in 1..Len(calls) /\ n \in 1..MaxFiles /\ n = Len(calls)
      /\ c = calls[n] /\ c \in Frame /\ Opened(disk, c, n) /\ Reads(disk, c, n, yychar, yylineno)
  BY <1>1, <1>2, Top
<1>4. /\ yychar = YYEMPTY /\ c.at >= 1 /\ Told(disk, c, n, c.at - 1)
      /\ disk[c.path][c.at].type = "STRING" /\ disk[c.path][c.at].text = c.name
      /\ yylineno = LineOf(c)
  BY <1>1, <1>2, <1>3 DEF Reads
<1>5. status \in {"start", "parse"} /\ Parsing
  BY <1>1 DEF Parsing
<1>6. CASE Found(c.name)
  <2>1. PICK c2 : c2 = [c EXCEPT !.reading = "statement"]
    OBVIOUS
  <2>2. c2 \in Frame
    BY <1>3, <2>1 DEF Frame
  <2>3. s = [calls EXCEPT ![Len(calls)] = c2]
    BY <1>2, <1>3, <2>1
  <2>4. calls # <<>>
    BY <1>3
  <2>5. OnlyLast(calls, s) /\ s[Len(calls)] = c2
    BY <1>3, <2>2, <2>3, <2>4, ChangesLast
  <2>6. /\ c2.path = c.path /\ c2.filename = c.filename /\ c2.old_yylineno = c.old_yylineno
        /\ c2.at = c.at /\ c2.tokens = c.tokens /\ c2.directory = c.directory
        /\ c2.previous = c.previous /\ c2.old_yychar = c.old_yychar /\ c2.reading = "statement"
        /\ c2.rules = c.rules
    BY <1>3, <2>1 DEF Frame
  <2>7. SameFile(calls[Len(calls)], s[Len(calls)])
    BY <1>3, <2>5, <2>6 DEF SameFile
  <2>8. Opened(disk, s[Len(calls)], Len(calls))
    BY <1>3, <2>5, <2>6 DEF Opened
  <2>9. Stack(disk, s)
    <3>1. Stack(disk, calls)
      BY DEF IInv
    <3> QED
      BY <2>4, <2>5, <2>7, <2>8, <3>1, StackGoesOn
  <2>10. Len(s) = Len(calls) /\ Len(calls) # 0
    BY <1>3, <2>5 DEF OnlyLast
  <2>11. Told(disk, c2, n, c2.at - 1)
    BY <1>4, <2>6, ToldStays
  <2>12. yylineno = LineOf(c2)
    BY <1>4, <2>6 DEF LineOf
  <2>13. c.name \in Names
    BY <1>3 DEF Frame
  <2>14. PICK name : name = c.name
    OBVIOUS
  <2>15. Open(s, Path(name), name) /\ Found(name) /\ name \in Names
    BY <1>1, <1>2, <1>6, <2>13, <2>14 DEF include_script
  <2>16. /\ s[Len(calls)].reading = "statement" /\ s[Len(calls)].at >= 1
         /\ s[Len(calls)].directory = calls[Len(calls)].directory
         /\ disk[s[Len(calls)].path][s[Len(calls)].at].type = "STRING"
         /\ disk[s[Len(calls)].path][s[Len(calls)].at].text = name
         /\ Told(disk, s[Len(calls)], Len(calls), s[Len(calls)].at - 1)
         /\ yylineno = LineOf(s[Len(calls)])
    BY <1>3, <1>4, <2>5, <2>6, <2>11, <2>12, <2>14
  <2> QED
    BY <1>4, <1>5, <2>9, <2>10, <2>15, <2>16, OpenStep
<1>7. CASE ~ Found(c.name)
  <2>1. script_die
    BY <1>1, <1>2, <1>7 DEF include_script
  <2> QED
    BY <1>5, <2>1, Dies
<1> QED
  BY <1>6, <1>7

(* What the file that has ended says goes into the one that includes it.       *)
LEMMA EndStep == ASSUME IInv, EndOfFile PROVE IInv'
<1>1. /\ Parsing /\ running.reading = "statement" /\ yychar = YYEOF
      /\ lex_file' = running.previous /\ buffer' = running.previous /\ file' = running.previous
      /\ yychar' = running.old_yychar /\ yylineno' = running.old_yylineno /\ disk' = disk
  BY DEF EndOfFile, Expects, lexer_restore_buffer, PutBack
<1>2. PICK n, c : n = Len(calls) /\ c = running
  OBVIOUS
<1>3. /\ calls \in Seq(Frame) /\ n \in 1..Len(calls) /\ n \in 1..MaxFiles /\ n = Len(calls)
      /\ c = calls[n] /\ c \in Frame /\ Opened(disk, c, n) /\ Reads(disk, c, n, yychar, yylineno)
      /\ disk \in Disks
  BY <1>1, <1>2, Top
<1>4. /\ c.previous = n - 1 /\ c.old_yychar = YYEMPTY
      /\ Told(disk, c, n, Len(disk[c.path]))
  BY <1>1, <1>3 DEF Opened, Reads
<1>5. Stack(disk, calls) /\ Globals /\ Ends
  BY DEF IInv
<1>6. script = <<>>
  BY <1>1, <1>5 DEF Ends, Parsing
<1>7. c.old_yylineno \in Nat /\ c.rules \in Seq(Stmts) /\ c.filename \in Names
  BY <1>3 DEF Frame
<1>8. CASE n = 1
  <2>1. file' = NULL
    BY <1>1, <1>2, <1>4, <1>8 DEF NULL
  <2>2. calls' = <<>> /\ script' = c.rules /\ status' = "done"
    BY <1>2, <2>1 DEF EndOfFile
  <2>3. At(disk, <<>>, c) /\ c.filename = Main
    BY <1>3, <1>5, <1>8 DEF Stack
  <2>4. c.rules = Whole
    <3>1. <<>> \in Names
      BY DEF Names
    <3>2. c.rules = Says(disk)[(MaxFiles - n) + 1][<<<<>>, c.filename>>]
      BY <1>3, <1>4, <2>3, <3>1, ToldAll
    <3>3. (MaxFiles - n) + 1 = MaxFiles
      BY <1>8, LimitAssumption
    <3> QED
      BY <2>3, <3>2, <3>3 DEF Whole
  <2>5. Stack(disk, calls)'
    <3>1. Stack(disk, <<>>)
      <4>1. <<>> \in Seq(Frame) /\ Len(<<>>) = 0
        OBVIOUS
      <4> QED
        BY <4>1, LimitAssumption DEF Stack
    <3> QED
      BY <1>1, <2>2, <3>1
  <2>6. Whole' = Whole
    BY <1>1 DEF Whole
  <2>7. Ends'
    BY <2>2, <2>4, <2>6 DEF Ends
  <2>8. Globals'
    BY <1>1, <1>2, <1>4, <1>7, <1>8, <2>2 DEF Globals
  <2>9. ErrorsLocated'
    BY <2>2 DEF ErrorsLocated
  <2>10. (calls # <<>> => Reads(disk, calls[Len(calls)], Len(calls), yychar, yylineno))'
    BY <2>2
  <2>11. (disk \in Disks)'
    BY <1>1, <1>3
  <2> QED
    BY <2>5, <2>7, <2>8, <2>9, <2>10, <2>11 DEF IInv
<1>9. CASE n # 1
  <2>1. PICK m : m = n - 1
    OBVIOUS
  <2>2. m \in 1..Len(calls) /\ m \in 1..MaxFiles /\ m < n /\ m + 1 = n /\ m # 0 /\ m \in Nat
    BY <1>3, <1>9, <2>1, LimitAssumption
  <2>3. file' = m /\ file' # NULL
    BY <1>1, <1>2, <1>4, <2>1, <2>2 DEF NULL
  <2>4. PICK p, front : p = calls[m] /\ front = Front(calls)
    OBVIOUS
  <2>5. /\ calls' = [front EXCEPT ![m].rules = @ \o c.rules]
        /\ script' = script /\ status' = status
    BY <1>2, <2>3, <2>4 DEF EndOfFile
  <2>6. p \in Frame /\ Opened(disk, p, m) /\ Includes(disk, p, c, m)
    BY <1>3, <1>5, <2>2, <2>4, ElementOfSeq DEF Stack
  <2>7. /\ Stack(disk, front) /\ Len(front) = m /\ front[m] = p /\ front # <<>>
        /\ front \in Seq(Frame)
    <3>1. Len(calls) >= 1 /\ Len(calls) - 1 = m /\ m \in 1..(Len(calls) - 1)
      BY <1>3, <2>1, <2>2
    <3>2. /\ Stack(disk, Front(calls)) /\ Len(Front(calls)) = Len(calls) - 1
          /\ \A i \in 1..(Len(calls) - 1) : Front(calls)[i] = calls[i]
      BY <1>5, <3>1, StackReturns
    <3>3. Stack(disk, front) /\ Len(front) = m /\ front[m] = p
      BY <2>4, <3>1, <3>2
    <3>4. front # <<>>
      BY <2>2, <3>3
    <3> QED
      BY <3>3, <3>4 DEF Stack
  <2>8. PICK rules : rules = p.rules \o c.rules
    OBVIOUS
  <2>9. rules \in Seq(Stmts)
    BY <1>7, <2>6, <2>8 DEF Frame
  <2>10. PICK p2 : p2 = [p EXCEPT !.rules = rules]
    OBVIOUS
  <2>11. p2 \in Frame
    BY <2>6, <2>9, <2>10 DEF Frame
  <2>12. calls' = [front EXCEPT ![Len(front)] = p2]
    BY <2>2, <2>5, <2>7, <2>8, <2>10
  <2>13. OnlyLast(front, calls') /\ calls'[Len(front)] = p2
    BY <2>7, <2>11, <2>12, ChangesLast
  <2>14. /\ p2.path = p.path /\ p2.filename = p.filename /\ p2.old_yylineno = p.old_yylineno
         /\ p2.at = p.at /\ p2.tokens = p.tokens /\ p2.directory = p.directory
         /\ p2.previous = p.previous /\ p2.old_yychar = p.old_yychar /\ p2.reading = p.reading
         /\ p2.rules = rules
    BY <2>6, <2>10 DEF Frame
  <2>15. Stack(disk, calls')
    <3>1. SameFile(front[Len(front)], calls'[Len(front)])
      BY <2>7, <2>13, <2>14 DEF SameFile
    <3>2. Opened(disk, calls'[Len(front)], Len(front))
      BY <2>6, <2>7, <2>13, <2>14 DEF Opened
    <3> QED
      BY <2>7, <2>13, <3>1, <3>2, StackGoesOn
  <2>16. /\ p.reading = "statement" /\ p.at >= 1
         /\ disk[p.path][p.at].type = "STRING" /\ disk[p.path][p.at].text = c.filename
         /\ Told(disk, p, m, p.at - 1) /\ At(disk, dir_name(p.filename), c)
         /\ c.old_yylineno = LineOf(p)
    BY <2>6 DEF Includes
  <2>17. Told(disk, p2, m, p.at)
    <3>1. PICK k : k = p.at - 1
      OBVIOUS
    <3>2. disk[p.path] \in Seq(Tokens) /\ Len(disk[p.path]) \in Nat
      BY <1>3, <2>2, <2>6, TellingsType
    <3>3. p.at <= Len(disk[p.path]) /\ p.at \in Nat
      BY <2>6 DEF Opened, Frame
    <3>4. k \in Nat /\ k < Len(disk[p.path]) /\ k + 1 = p.at
      BY <2>16, <3>1, <3>2, <3>3
    <3>5. dir_name(p.filename) \in Names
      <4>1. p.filename \in Names
        BY <2>6 DEF Frame
      <4> QED
        BY <4>1 DEF dir_name, Front, Names
    <3>6. c.rules = Says(disk)[(MaxFiles - n) + 1][<<dir_name(p.filename), c.filename>>]
      BY <1>3, <1>4, <2>16, <3>5, ToldAll
    <3>7. (MaxFiles - n) + 1 = MaxFiles - m
      BY <1>3, <2>1, LimitAssumption
    <3>8. p2.rules = p.rules \o Says(disk)[MaxFiles - m][<<dir_name(p.filename), disk[p.path][k + 1].text>>]
      BY <2>8, <2>14, <2>16, <3>4, <3>6, <3>7
    <3>9. disk[p.path][k + 1].type = "STRING" /\ Told(disk, p, m, k)
      BY <2>16, <3>1, <3>4
    <3>10. Told(disk, p2, m, k + 1)
      BY <1>3, <2>2, <2>6, <2>14, <3>4, <3>8, <3>9, ToldString
    <3> QED
      BY <3>4, <3>10
  <2>18. Reads(disk, p2, m, YYEMPTY, c.old_yylineno)
    <3>1. LineOf(p2) = LineOf(p)
      BY <2>14 DEF LineOf
    <3>2. YYEMPTY # YYEOF
      BY DEF YYEMPTY, YYEOF, Token
    <3> QED
      BY <2>14, <2>16, <2>17, <3>1, <3>2 DEF Reads
  <2>19. Len(calls') = m /\ calls'[m] = p2
    BY <2>7, <2>13 DEF OnlyLast
  <2>20. Reads(disk, calls[Len(calls)], Len(calls), yychar, yylineno)'
    BY <1>1, <1>2, <1>4, <2>18, <2>19
  <2>21. Stack(disk, calls)' /\ (disk \in Disks)'
    BY <1>1, <1>3, <2>15
  <2>22. Globals'
    BY <1>1, <1>2, <1>4, <1>7, <2>1, <2>19 DEF Globals
  <2>23. calls' # <<>>
    BY <2>2, <2>19
  <2>24. status' = "parse"
    BY <1>1, <2>5 DEF Parsing
  <2>25. Ends'
    BY <1>6, <2>5, <2>23, <2>24 DEF Ends
  <2>26. ErrorsLocated'
    BY <2>24 DEF ErrorsLocated
  <2> QED
    BY <2>20, <2>21, <2>22, <2>25, <2>26 DEF IInv
<1> QED
  BY <1>8, <1>9

LEMMA InitInv == Init => IInv
<1> SUFFICES ASSUME Init PROVE IInv
  OBVIOUS
<1>1. calls = <<>> /\ Len(calls) = 0 /\ status = "start"
  BY DEF Init
<1>2. Stack(disk, calls)
  <2>1. <<>> \in Seq(Frame)
    OBVIOUS
  <2> QED
    BY <1>1, <2>1, LimitAssumption DEF Stack
<1>3. Globals
  BY <1>1 DEF Init, Globals, NULL
<1>4. Ends
  BY <1>1 DEF Init, Ends
<1>5. ErrorsLocated
  BY <1>1 DEF ErrorsLocated
<1> QED
  BY <1>1, <1>2, <1>3, <1>4, <1>5 DEF Init, IInv

LEMMA StepInv == IInv /\ [Next]_vars => IInv'
<1> SUFFICES ASSUME IInv, [Next]_vars PROVE IInv'
  OBVIOUS
<1>1. CASE Step
  BY <1>1, ParseStep, LexStep, StatementStep, ReadIncludeStep, ReadNameStep, IncludeStep, WrongStep, EndStep
     DEF Step
<1>2. CASE UNCHANGED vars
  <2>1. UNCHANGED <<disk, calls, file, lex_file, buffer, yychar, yylineno, script, status, where>>
    BY <1>2 DEF vars, globals
  <2> QED
    BY <2>1 DEF IInv, Globals, Ends, ErrorsLocated, running, Last, Whole
<1> QED
  BY <1>1, <1>2 DEF Next, Stopped

-----------------------------------------------------------------------------
(* The stack of what has been read is how the whole script begins.            *)
Regroups(a, b, c, d) == (a \o (b \o c)) \o d = (a \o b) \o (c \o d)

LEMMA Regroup ==
    ASSUME NEW a \in Seq(Stmts), NEW b \in Seq(Stmts), NEW c \in Seq(Stmts), NEW d \in Seq(Stmts)
    PROVE  Regroups(a, b, c, d)
<1>1. PICK ab : ab = a \o b
  OBVIOUS
<1>2. ab \in Seq(Stmts)
  BY <1>1
<1>3. a \o (b \o c) = ab \o c
  BY <1>1
<1>4. (ab \o c) \o d = ab \o (c \o d)
  BY <1>2
<1> QED
  BY <1>1, <1>3, <1>4 DEF Regroups

LEMMA PrefixOf ==
    ASSUME NEW S, NEW s \in Seq(S), NEW u \in Seq(S)
    PROVE  IsPrefix(s, s \o u)
<1>1. PICK t : t = s \o u
  OBVIOUS
<1>2. t \in Seq(S) /\ Len(t) = Len(s) + Len(u) /\ \A i \in 1..Len(s) : t[i] = s[i]
  BY <1>1
<1>3. SubSeq(s, 1, Len(s)) = s
  BY SubSeqFull
<1>4. SubSeq(t, 1, Len(s)) = s
  BY <1>2
<1> QED
  BY <1>1, <1>2, <1>3, <1>4 DEF IsPrefix

(* Of a call whose first j tokens have been told, and that finds its file in   *)
(* dir, more is to come.                                                      *)
LEMMA ToldBegins ==
    ASSUME NEW files \in Disks, NEW c \in Frame, NEW i \in 1..MaxFiles, Opened(files, c, i),
           NEW j \in 0..Len(files[c.path]), Told(files, c, i, j)
    PROVE  \E rest \in Seq(Stmts) : FlattenSeq(Tellings(files, c, i)) = c.rules \o rest
<1>1. PICK seqs : seqs = Tellings(files, c, i)
  OBVIOUS
<1>2. seqs \in Seq(Seq(Stmts)) /\ Len(seqs) = Len(files[c.path])
  BY <1>1, TellingsType
<1>3. c.rules = FlattenSeq(SubSeq(seqs, 1, j))
  BY <1>1 DEF Told, Tellings
<1>4. j \in 0..Len(seqs)
  BY <1>2
<1>5. \E rest \in Seq(Stmts) : FlattenSeq(seqs) = FlattenSeq(SubSeq(seqs, 1, j)) \o rest
  BY <1>2, <1>4, FlattenBegins
<1> QED
  BY <1>1, <1>3, <1>5

(* The call that a file makes says what its next token says.                  *)
LEMMA IncludedBegins ==
    ASSUME NEW files \in Disks, NEW c \in Frame, NEW d \in Frame, NEW i \in 1..MaxFiles,
           i + 1 \in 1..MaxFiles, Opened(files, c, i), Opened(files, d, i + 1),
           Includes(files, c, d, i)
    PROVE  \E rest \in Seq(Stmts) :
              FlattenSeq(Tellings(files, c, i))
                = (c.rules \o FlattenSeq(Tellings(files, d, i + 1))) \o rest
<1>1. PICK seqs, k : seqs = Tellings(files, c, i) /\ k = c.at - 1
  OBVIOUS
<1>2. /\ seqs \in Seq(Seq(Stmts)) /\ Len(seqs) = Len(files[c.path])
      /\ c.filename \in Names /\ files[c.path] \in Seq(Tokens)
  BY <1>1, TellingsType
<1>3. c.at \in Nat /\ c.at >= 1 /\ c.at <= Len(files[c.path]) /\ Len(files[c.path]) \in Nat
  BY <1>2 DEF Includes, Opened, Frame
<1>4. k \in Nat /\ k < Len(seqs) /\ k + 1 = c.at /\ c.at \in 1..Len(files[c.path]) /\ c.at \in 0..Len(seqs)
  BY <1>1, <1>2, <1>3
<1>5. FlattenSeq(SubSeq(seqs, 1, k + 1)) = FlattenSeq(SubSeq(seqs, 1, k)) \o seqs[k + 1]
  BY <1>2, <1>4, FlattenPart
<1>6. c.rules = FlattenSeq(SubSeq(seqs, 1, k))
  BY <1>1 DEF Includes, Told, Tellings
<1>7. PICK n : n = i + 1
  OBVIOUS
<1>8. n \in 1..MaxFiles /\ Opened(files, d, n)
  BY <1>7
<1>9. dir_name(c.filename) \in Names
  BY <1>2 DEF dir_name, Front, Names
<1>10. FlattenSeq(Tellings(files, d, n)) = Says(files)[(MaxFiles - n) + 1][<<dir_name(c.filename), d.filename>>]
  <2>1. At(files, dir_name(c.filename), d)
    BY DEF Includes
  <2> QED
    BY <1>8, <1>9, <2>1, ToldAll
<1>11. (MaxFiles - n) + 1 = MaxFiles - i
  BY <1>7, LimitAssumption
<1>12. seqs[k + 1] = Says(files)[MaxFiles - i][<<dir_name(c.filename), d.filename>>]
  <2>1. /\ files[c.path][c.at].type = "STRING" /\ files[c.path][c.at].text = d.filename
    BY DEF Includes
  <2>2. Tellings(files, c, i)[c.at]
          = Says(files)[MaxFiles - i][<<dir_name(c.filename), files[c.path][c.at].text>>]
    BY <1>4, <2>1, TellingIs
  <2> QED
    BY <1>1, <1>4, <2>1, <2>2
<1>13. FlattenSeq(SubSeq(seqs, 1, c.at)) = c.rules \o FlattenSeq(Tellings(files, d, i + 1))
  BY <1>4, <1>5, <1>6, <1>7, <1>10, <1>11, <1>12
<1>14. \E rest \in Seq(Stmts) : FlattenSeq(seqs) = FlattenSeq(SubSeq(seqs, 1, c.at)) \o rest
  BY <1>2, <1>4, FlattenBegins
<1> QED
  BY <1>1, <1>13, <1>14

(* How far the file that is read has been told.                               *)
LEMMA ToldSoFar ==
    ASSUME IInv, calls # <<>>
    PROVE  /\ Len(calls) \in 1..MaxFiles /\ Len(calls) \in 1..Len(calls)
           /\ \E j \in 0..Len(disk[calls[Len(calls)].path]) :
                 Told(disk, calls[Len(calls)], Len(calls), j)
<1>1. calls \in Seq(Frame) /\ Len(calls) <= MaxFiles /\ disk \in Disks
  BY DEF IInv, Stack
<1>2. Len(calls) \in 1..MaxFiles /\ Len(calls) \in 1..Len(calls)
  BY <1>1, EmptySeq, LimitAssumption
<1>3. PICK c, n : c = calls[Len(calls)] /\ n = Len(calls)
  OBVIOUS
<1>4. c \in Frame /\ Opened(disk, c, n) /\ Reads(disk, c, n, yychar, yylineno)
  BY <1>1, <1>2, <1>3, ElementOfSeq DEF IInv, Stack
<1>5. c.at \in Nat /\ c.at <= Len(disk[c.path]) /\ Len(disk[c.path]) \in Nat
  <2>1. disk[c.path] \in Seq(Tokens)
    BY <1>1, <1>4, DiskHolds DEF Opened
  <2> QED
    BY <1>4, <2>1 DEF Frame, Opened
<1>6. \/ Told(disk, c, n, c.at)
      \/ c.at >= 1 /\ Told(disk, c, n, c.at - 1)
  <2>1. CASE c.reading = "include"
    BY <1>4, <2>1 DEF Reads
  <2>2. CASE c.reading # "include" /\ yychar = YYEMPTY
    BY <1>4, <2>2 DEF Reads
  <2>3. CASE yychar = YYEOF
    BY <1>4, <2>3 DEF Reads
  <2>4. CASE yychar \notin {YYEMPTY, YYEOF}
    BY <1>4, <2>4 DEF Reads
  <2> QED
    BY <2>1, <2>2, <2>3, <2>4
<1>7. \E j \in 0..Len(disk[c.path]) : Told(disk, c, n, j)
  <2>1. CASE Told(disk, c, n, c.at)
    <3>1. c.at \in 0..Len(disk[c.path])
      BY <1>5
    <3> QED
      BY <2>1, <3>1
  <2>2. CASE c.at >= 1 /\ Told(disk, c, n, c.at - 1)
    <3>1. c.at - 1 \in 0..Len(disk[c.path])
      BY <1>5, <2>2
    <3> QED
      BY <2>2, <3>1
  <2> QED
    BY <1>6, <2>1, <2>2
<1> QED
  BY <1>2, <1>3, <1>7

LEMMA WholeIsSaid ==
    ASSUME disk \in Disks
    PROVE  Whole \in Seq(Stmts)
<1>1. Says(disk)[MaxFiles] \in Said
  BY SaysIs, LimitAssumption
<1>2. <<<<>>, Main>> \in Names \X Names
  <2>1. <<>> \in Names
    BY DEF Names
  <2> QED
    BY <2>1, DisksAssumption
<1> QED
  BY <1>1, <1>2 DEF Whole, Said

LEMMA InPlace ==
    ASSUME IInv, calls # <<>>
    PROVE  IsPrefix(FlattenSeq([i \in DOMAIN calls |-> calls[i].rules]), Whole)
<1> DEFINE R == [i \in 1..Len(calls) |-> calls[i].rules]
           L(i) == FlattenSeq(SubSeq(R, 1, i))
           W(i) == FlattenSeq(Tellings(disk, calls[i], i))
           Comes(k) == \E rest \in Seq(Stmts) : Whole = (L(k) \o W(k + 1)) \o rest
           T == {k \in Nat : k + 1 <= Len(calls) => Comes(k)}
<1>1. /\ calls \in Seq(Frame) /\ disk \in Disks /\ Len(calls) <= MaxFiles
      /\ Len(calls) \in 1..MaxFiles /\ Len(calls) \in Nat
  <2>1. calls \in Seq(Frame) /\ disk \in Disks /\ Len(calls) <= MaxFiles
    BY DEF IInv, Stack
  <2> QED
    BY <2>1, ToldSoFar
<1>2. ASSUME NEW i \in 1..Len(calls)
      PROVE  /\ calls[i] \in Frame /\ i \in 1..MaxFiles /\ Opened(disk, calls[i], i)
             /\ calls[i].rules \in Seq(Stmts) /\ W(i) \in Seq(Stmts)
  <2>1. calls[i] \in Frame /\ i \in 1..MaxFiles /\ Opened(disk, calls[i], i)
    <3>1. i \in 1..MaxFiles
      BY <1>1, LimitAssumption
    <3> QED
      BY <1>1, <3>1, ElementOfSeq DEF IInv, Stack
  <2>2. Tellings(disk, calls[i], i) \in Seq(Seq(Stmts))
    BY <1>1, <2>1, TellingsType
  <2> QED
    BY <2>1, <2>2, FlattenType DEF Frame
<1>3. R \in Seq(Seq(Stmts)) /\ Len(R) = Len(calls) /\ \A i \in 1..Len(calls) : R[i] = calls[i].rules
  BY <1>1, <1>2, IsASeq
<1>4. ASSUME NEW k \in Nat, k < Len(calls)
      PROVE  L(k) \in Seq(Stmts) /\ L(k + 1) = L(k) \o calls[k + 1].rules
  <2>1. PICK seqs : seqs = R
    OBVIOUS
  <2>2. seqs \in Seq(Seq(Stmts)) /\ Len(seqs) = Len(calls)
    BY <1>3, <2>1
  <2>3. \A i \in 1..k : seqs[i] \in Seq(Stmts)
    <3>1. \A i \in 1..k : i \in 1..Len(seqs)
      BY <1>1, <1>4, <2>2
    <3> QED
      BY <2>2, <3>1, ElementOfSeq
  <2>4. SubSeq(seqs, 1, k) \in Seq(Seq(Stmts))
    BY <2>3, SubSeqProperties
  <2>5. FlattenSeq(SubSeq(seqs, 1, k)) \in Seq(Stmts)
    BY <2>4, FlattenType
  <2>6. FlattenSeq(SubSeq(seqs, 1, k + 1)) = FlattenSeq(SubSeq(seqs, 1, k)) \o seqs[k + 1]
    BY <1>4, <2>2, FlattenPart
  <2>7. k + 1 \in 1..Len(calls)
    BY <1>1, <1>4
  <2> QED
    BY <1>3, <2>1, <2>5, <2>6, <2>7
<1>5. L(0) = <<>>
  <2>1. SubSeq(R, 1, 0) = <<>>
    BY SubSeqEmpty
  <2> QED
    BY <2>1, FlattenEmpty
<1>6. FlattenSeq(R) = L(Len(calls))
  BY <1>3, SubSeqFull
<1> HIDE DEF L
<1>7. Comes(0)
  <2>1. 1 \in 1..Len(calls)
    BY <1>1
  <2>2. At(disk, <<>>, calls[1]) /\ calls[1].filename = Main
    BY <1>1 DEF IInv, Stack
  <2>3. <<>> \in Names
    BY DEF Names
  <2>4. W(1) = Says(disk)[(MaxFiles - 1) + 1][<<<<>>, calls[1].filename>>]
    BY <1>1, <1>2, <2>1, <2>2, <2>3, ToldAll
  <2>5. (MaxFiles - 1) + 1 = MaxFiles
    BY LimitAssumption
  <2>6. W(1) = Whole /\ W(1) \in Seq(Stmts)
    BY <1>2, <2>1, <2>2, <2>4, <2>5 DEF Whole
  <2> HIDE DEF W
  <2>7. Whole = (L(0) \o W(1)) \o <<>> /\ <<>> \in Seq(Stmts) /\ 0 + 1 = 1
    BY <1>5, <2>6
  <2> QED
    BY <2>7
<1>8. ASSUME NEW k \in Nat, k \in T PROVE k + 1 \in T
  <2>1. ASSUME (k + 1) + 1 <= Len(calls) PROVE Comes(k + 1)
    <3>1. /\ k + 1 \in 1..Len(calls) /\ k + 2 \in 1..Len(calls) /\ k < Len(calls)
          /\ k + 1 < Len(calls) /\ (k + 1) + 1 = k + 2 /\ k + 1 <= Len(calls)
      BY <1>1, <2>1
    <3>2. PICK rest \in Seq(Stmts) : Whole = (L(k) \o W(k + 1)) \o rest
      BY <1>8, <3>1
    <3>3. PICK c, d, i : c = calls[k + 1] /\ d = calls[k + 2] /\ i = k + 1
      OBVIOUS
    <3>4. /\ c \in Frame /\ d \in Frame /\ i \in 1..MaxFiles /\ i + 1 \in 1..MaxFiles
          /\ Opened(disk, c, i) /\ Opened(disk, d, i + 1)
          /\ c.rules \in Seq(Stmts) /\ W(k + 2) \in Seq(Stmts)
      BY <1>2, <3>1, <3>3
    <3>5. Includes(disk, c, d, i)
      BY <3>1, <3>3 DEF IInv, Stack
    <3>6. PICK more \in Seq(Stmts) :
             FlattenSeq(Tellings(disk, c, i)) = (c.rules \o FlattenSeq(Tellings(disk, d, i + 1))) \o more
      BY <1>1, <3>4, <3>5, IncludedBegins
    <3>7. W(k + 1) = (c.rules \o W(k + 2)) \o more
      BY <3>1, <3>3, <3>6
    <3>8. L(k) \in Seq(Stmts) /\ L(k + 1) = L(k) \o c.rules
      BY <1>4, <3>1, <3>3
    <3>9. PICK l, r, w : l = L(k) /\ r = c.rules /\ w = W(k + 2)
      OBVIOUS
    <3>10. l \in Seq(Stmts) /\ r \in Seq(Stmts) /\ w \in Seq(Stmts)
      BY <3>4, <3>8, <3>9
    <3>11. (l \o ((r \o w) \o more)) \o rest = ((l \o r) \o w) \o (more \o rest)
      <4>1. PICK rw : rw = r \o w
        OBVIOUS
      <4>2. rw \in Seq(Stmts)
        BY <3>10, <4>1
      <4>3. (l \o (rw \o more)) \o rest = (l \o rw) \o (more \o rest)
        <5>1. Regroups(l, rw, more, rest)
          BY <3>10, <4>2, Regroup
        <5> QED
          BY <5>1 DEF Regroups
      <4>4. l \o rw = (l \o r) \o w
        BY <3>10, <4>1
      <4> QED
        BY <4>1, <4>3, <4>4
    <3>12. more \o rest \in Seq(Stmts)
      OBVIOUS
    <3>13. Whole = (L(k + 1) \o W((k + 1) + 1)) \o (more \o rest)
      <4> HIDE DEF W
      <4>1. Whole = (l \o ((r \o w) \o more)) \o rest
        BY <3>2, <3>7, <3>9
      <4>2. L(k + 1) = l \o r /\ W((k + 1) + 1) = w
        BY <3>1, <3>8, <3>9
      <4> QED
        BY <3>11, <4>1, <4>2
    <3> HIDE DEF W
    <3> QED
      BY <3>12, <3>13
  <2> HIDE DEF Comes
  <2> QED
    BY <2>1
<1>9. T = Nat
  <2>1. T \in SUBSET Nat
    OBVIOUS
  <2>2. 0 \in T
    <3> HIDE DEF Comes
    <3> QED
      BY <1>7
  <2> HIDE DEF T
  <2> QED
    BY <1>8, <2>1, <2>2, SetInduction
<1>10. PICK n, k : n = Len(calls) /\ k = Len(calls) - 1
  OBVIOUS
<1>11. n \in 1..Len(calls) /\ n \in 1..MaxFiles /\ k \in Nat /\ k + 1 = n /\ k < Len(calls) /\ k + 1 <= Len(calls)
  BY <1>1, <1>10
<1>12. Comes(k)
  <2> HIDE DEF Comes
  <2> QED
    BY <1>9, <1>11
<1>13. PICK rest \in Seq(Stmts) : Whole = (L(k) \o W(n)) \o rest
  BY <1>11, <1>12
<1>14. PICK more \in Seq(Stmts) : W(n) = calls[n].rules \o more
  <2>1. PICK c : c = calls[n]
    OBVIOUS
  <2>2. c \in Frame /\ Opened(disk, c, n)
    BY <1>2, <1>11, <2>1
  <2>3. PICK j \in 0..Len(disk[c.path]) : Told(disk, c, n, j)
    BY <1>10, <2>1, ToldSoFar
  <2>4. \E more \in Seq(Stmts) : FlattenSeq(Tellings(disk, c, n)) = c.rules \o more
    BY <1>1, <1>11, <2>2, <2>3, ToldBegins
  <2> QED
    BY <2>1, <2>4
<1>15. L(k) \in Seq(Stmts) /\ L(n) = L(k) \o calls[n].rules /\ calls[n].rules \in Seq(Stmts)
  BY <1>2, <1>4, <1>11
<1>16. PICK l, r : l = L(k) /\ r = calls[n].rules
  OBVIOUS
<1>17. Whole = (l \o r) \o (more \o rest)
  <2>1. l \in Seq(Stmts) /\ r \in Seq(Stmts)
    BY <1>15, <1>16
  <2>2. Whole = (l \o (r \o more)) \o rest
    BY <1>13, <1>14, <1>16
  <2> QED
    <3>1. Regroups(l, r, more, rest)
      BY <2>1, Regroup
    <3> QED
      BY <2>2, <3>1 DEF Regroups
<1>18. IsPrefix(l \o r, Whole)
  <2>1. PICK s, u : s = l \o r /\ u = more \o rest
    OBVIOUS
  <2>2. s \in Seq(Stmts) /\ u \in Seq(Stmts)
    BY <1>15, <1>16, <2>1
  <2>3. IsPrefix(s, s \o u)
    BY <2>2, PrefixOf
  <2> QED
    BY <1>17, <2>1, <2>3
<1>19. FlattenSeq(R) = l \o r
  BY <1>6, <1>10, <1>15, <1>16
<1>20. [i \in DOMAIN calls |-> calls[i].rules] = R
  BY <1>1
<1> HIDE DEF R
<1> QED
  BY <1>18, <1>19, <1>20

-----------------------------------------------------------------------------
LEMMA ReadInPlaceNow == ASSUME IInv PROVE ReadInPlace
<1>1. PICK said : said = FlattenSeq([i \in DOMAIN calls |-> calls[i].rules])
  OBVIOUS
<1>2. disk \in Disks /\ Whole \in Seq(Stmts)
  BY WholeIsSaid DEF IInv
<1>3. script = IF status = "done" THEN Whole ELSE <<>>
  BY DEF IInv, Ends
<1>4. CASE calls = <<>>
  <2>1. said = <<>>
    <3>1. [i \in DOMAIN calls |-> calls[i].rules] = <<>>
      BY <1>4
    <3> QED
      BY <1>1, <3>1, FlattenEmpty
  <2>2. said \o script = script
    BY <1>2, <1>3, <2>1
  <2>3. IsPrefix(script, Whole)
    <3>1. CASE status = "done"
      <4>1. Whole \o <<>> = Whole /\ <<>> \in Seq(Stmts)
        BY <1>2
      <4>2. IsPrefix(Whole, Whole \o <<>>)
        BY <1>2, <4>1, PrefixOf
      <4> QED
        BY <1>3, <3>1, <4>1, <4>2
    <3>2. CASE status # "done"
      <4>1. <<>> \o Whole = Whole /\ <<>> \in Seq(Stmts)
        BY <1>2
      <4>2. IsPrefix(<<>>, <<>> \o Whole)
        BY <1>2, <4>1, PrefixOf
      <4> QED
        BY <1>3, <3>2, <4>1, <4>2
    <3> QED
      BY <3>1, <3>2
  <2> QED
    BY <1>1, <1>3, <2>2, <2>3 DEF ReadInPlace
<1>5. CASE calls # <<>>
  <2>1. status # "done" /\ script = <<>>
    BY <1>3, <1>5 DEF IInv, Ends
  <2>2. IsPrefix(said, Whole)
    BY <1>1, <1>5, InPlace
  <2>3. said \in Seq(Stmts)
    <3>1. calls \in Seq(Frame)
      BY DEF IInv, Stack
    <3>2. [i \in DOMAIN calls |-> calls[i].rules] \in Seq(Seq(Stmts))
      <4>1. \A i \in 1..Len(calls) : calls[i].rules \in Seq(Stmts)
        <5>1. \A i \in 1..Len(calls) : calls[i] \in Frame
          BY <3>1, ElementOfSeq
        <5> QED
          BY <5>1 DEF Frame
      <4>2. DOMAIN calls = 1..Len(calls) /\ Len(calls) \in Nat
        BY <3>1
      <4>3. [i \in 1..Len(calls) |-> calls[i].rules] \in Seq(Seq(Stmts))
        BY <4>1, <4>2, IsASeq
      <4> QED
        BY <4>2, <4>3
    <3> QED
      BY <1>1, <3>2, FlattenType
  <2>4. said \o script = said
    BY <2>1, <2>3
  <2> QED
    BY <1>1, <2>1, <2>2, <2>4 DEF ReadInPlace
<1> QED
  BY <1>4, <1>5

LEMMA NamesKeptNow == ASSUME IInv PROVE NamesKept
<1>1. calls \in Seq(Frame) /\ DOMAIN calls = 1..Len(calls) /\ Len(calls) \in Nat /\ disk \in Disks
  BY DEF IInv, Stack
<1>2. ASSUME NEW i \in 1..Len(calls)
      PROVE  /\ calls[i].tokens = TextsOf(SubSeq(disk[calls[i].path], 1, calls[i].at))
             /\ Opened(disk, calls[i], i) /\ calls[i] \in Frame
  BY <1>1, ElementOfSeq DEF IInv, Stack, Opened
<1>3. ASSUME NEW i \in 1..Len(calls), i > 1 PROVE calls[i].filename \in Range(calls[i - 1].tokens)
  <2>1. PICK m, c, d : m = i - 1 /\ c = calls[i - 1] /\ d = calls[i]
    OBVIOUS
  <2>2. m \in 1..Len(calls) /\ m < Len(calls) /\ m + 1 = i
    BY <1>1, <1>3, <2>1
  <2>3. Includes(disk, c, d, m)
    BY <2>1, <2>2 DEF IInv, Stack
  <2>4. c \in Frame /\ Opened(disk, c, m) /\ c.tokens = TextsOf(SubSeq(disk[c.path], 1, c.at))
    BY <1>2, <2>1, <2>2
  <2>5. PICK lines, k : lines = disk[c.path] /\ k = c.at - 1
    OBVIOUS
  <2>6. lines \in Seq(Tokens)
    BY <1>1, <2>4, <2>5, DiskHolds DEF Opened
  <2>7. c.at \in Nat /\ c.at >= 1 /\ c.at <= Len(lines)
    BY <2>3, <2>4, <2>5 DEF Frame, Includes, Opened
  <2>8. k \in Nat /\ k < Len(lines) /\ k + 1 = c.at
    BY <2>5, <2>6, <2>7
  <2>9. lines[k + 1].type = "STRING" /\ lines[k + 1].text = d.filename
    BY <2>3, <2>5, <2>8 DEF Includes
  <2>10. PICK texts : texts = TextsOf(SubSeq(lines, 1, k))
    OBVIOUS
  <2>11. /\ texts \in Seq(Names)
         /\ TextsOf(SubSeq(lines, 1, k + 1)) = Append(texts, lines[k + 1].text)
    BY <2>6, <2>8, <2>9, <2>10, TextsNext
  <2>12. c.tokens = Append(texts, d.filename)
    BY <2>4, <2>5, <2>8, <2>9, <2>11
  <2>13. Len(texts) + 1 \in DOMAIN c.tokens /\ c.tokens[Len(texts) + 1] = d.filename
    BY <2>11, <2>12
  <2>14. d.filename \in Range(c.tokens)
    BY <2>13 DEF Range
  <2> QED
    BY <2>1, <2>14
<1> QED
  BY <1>1, <1>2, <1>3 DEF NamesKept

LEMMA TypeNow == ASSUME IInv PROVE TypeOK
<1>1. /\ calls \in Seq(Frame) /\ DOMAIN calls = 1..Len(calls) /\ Len(calls) \in Nat
      /\ disk \in Disks /\ Len(calls) <= MaxFiles /\ Globals /\ Ends
  BY DEF IInv, Stack
<1>2. {file, lex_file, buffer} \subseteq 0..Len(calls)
  BY <1>1 DEF Globals
<1>3. ASSUME NEW i \in 1..Len(calls)
      PROVE  /\ calls[i].path \in Paths /\ calls[i].at \in 0..Len(disk[calls[i].path])
             /\ calls[i].previous \in 0..(i - 1)
             /\ calls[i].reading \in {"statement", "name", "include"}
  <2>1. PICK c : c = calls[i]
    OBVIOUS
  <2>2. c \in Frame /\ Opened(disk, c, i)
    BY <1>1, <2>1, ElementOfSeq DEF IInv, Stack
  <2>3. disk[c.path] \in Seq(Tokens)
    BY <1>1, <2>2, DiskHolds DEF Opened
  <2>4. c.at \in 0..Len(disk[c.path])
    <3>1. c.at \in Nat /\ c.at <= Len(disk[c.path]) /\ Len(disk[c.path]) \in Nat
      BY <2>2, <2>3 DEF Frame, Opened
    <3> QED
      BY <3>1
  <2>5. c.path \in Paths /\ c.previous \in 0..(i - 1)
    BY <2>2 DEF Opened, Paths
  <2>6. c.reading \in {"statement", "name", "include"}
    BY <2>2 DEF Frame
  <2> QED
    BY <2>1, <2>4, <2>5, <2>6
<1>4. yychar.type \in {"SKIP", "INCLUDE", "STRING", "empty", "eof"} /\ yylineno \in Nat
  <2>1. yychar \in Tokens \cup {YYEMPTY, YYEOF} /\ yylineno \in Nat
    BY <1>1 DEF Globals
  <2> QED
    BY <2>1 DEF Tokens, YYEMPTY, YYEOF, Token
<1>5. status \in {"start", "parse", "done", "dead"}
  BY <1>1 DEF Ends
<1> QED
  BY <1>1, <1>2, <1>3, <1>4, <1>5 DEF TypeOK

LEMMA Always == FairSpec => []IInv
<1>1. Init => IInv
  BY InitInv
<1>2. IInv /\ [Next]_vars => IInv'
  BY StepInv
<1> QED
  BY <1>1, <1>2, PTL DEF FairSpec

(* Whatever files there are and however they include each other: what the     *)
(* parser and the scanner point at are calls that are there, and every call   *)
(* reads within a file that may be read.                                      *)
THEOREM TypeCorrect == FairSpec => []TypeOK
<1>1. IInv => TypeOK
  BY TypeNow
<1> QED
  BY <1>1, Always, PTL

(* include_script: the statements of all the files are read in the order in   *)
(* which the files say them, each file at the place where it is included,     *)
(* none left out and none read again, and at the end the script is the whole. *)
THEOREM FilesReadInPlace == FairSpec => []ReadInPlace
<1>1. IInv => ReadInPlace
  BY ReadInPlaceNow
<1> QED
  BY <1>1, Always, PTL

(* script_die: the file and the line it names are those of the token that is  *)
(* wrong, also behind included files, whose lines are counted from 1.         *)
THEOREM MessagesNameTheirLine == FairSpec => []ErrorsLocated
<1>1. IInv => ErrorsLocated
  BY DEF IInv
<1> QED
  BY <1>1, Always, PTL

(* set_string and lexer_set_buffer: the names read in a file are kept by that *)
(* file, in their order, and so is the name of every file that is being read. *)
THEOREM AlwaysNamesKept == FairSpec => []NamesKept
<1>1. IInv => NamesKept
  BY NamesKeptNow
<1> QED
  BY <1>1, Always, PTL
=============================================================================
