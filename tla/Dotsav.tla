------------------------------- MODULE Dotsav --------------------------------
(***************************************************************************)
(* Reading the configurations: platfree/dotsav.c, called by                *)
(* prepare_dotsav() in entry/savesave.c, with the conversions it uses from *)
(* platfree/string.c.                                                      *)
(*                                                                         *)
(* The parser goes through a file line by line.  A "config" line opens a   *)
(* configuration, every other key sets a field of the last one opened.     *)
(* Any error ends the process.  At the end of the file each configuration  *)
(* must be complete, and its backup directory becomes the prefix of its    *)
(* backups' names.                                                         *)
(***************************************************************************)
EXTENDS Integers, SequencesExt

CONSTANTS
  Files,        \* the dotsavs that may be read, sequences of lines
  Piece,        \* pieces of text
  WordSize,     \* sizeof(ullong), 8
  PeriodRange,  \* a period is stored modulo this, 2^32
  LongRange     \* a number is read modulo this, 2^64

\* A text is a sequence of pieces.  A line: the words its key is put together from (one, as a
\* rule; none in a blank line or a comment), its value (no piece if it is missing), the number
\* at the start of the value (-1, which is refused like a missing one: none) and what follows
\* the number.
Wording == Seq(Piece)
Line == [words : Seq(STRING), text : Wording, num : Int, unit : STRING]

ASSUME DotsavAssumption ==
  /\ Files \subseteq Seq(Line)
  /\ {"/", ".", ".ss"} \subseteq Piece
  /\ WordSize \in Nat \ {0}
  /\ PeriodRange \in Nat \ {0}
  /\ LongRange \in Nat /\ LongRange > 255 /\ LongRange >= PeriodRange

VARIABLES
  file,    \* what is read
  lineno,      \* the line the parser is at
  savarr,  \* the configurations so far
  state    \* "reading", "done" (handed to the command), "dead" (refused) or "crashed"

dotsavVars == <<file, lineno, savarr, state>>

DotsavInit ==
  /\ file \in Files
  /\ lineno = 1
  /\ savarr = <<>>
  /\ state = "reading"

-----------------------------------------------------------------------------
(* Keys and values. *)

\* ent[] of dotsav_parse().
Keys == <<"config", "save", "backup", "compress", "period", "stack">>
Place(w) == CHOOSE i \in DOMAIN Keys : Keys[i] = w

\* The loop of parse_line() over the table.  strskip() moves on behind a key that no
\* blank follows, and the search goes on with what is left: "savebackup" is read as "backup",
\* "backupsave" is unknown.
Recognized(words) ==
  /\ \A i \in DOMAIN words : words[i] \in Range(Keys)
  /\ \A i, j \in DOMAIN words : i < j => Place(words[i]) < Place(words[j])

\* char2mult().
Multiplier(u) == CASE u \in {"h", "H"} -> 3600 [] u \in {"m", "M"} -> 60 [] OTHER -> 1
Units == {"", "s", "S", "m", "M", "h", "H"}

\* strtoull(), which takes a sign: a negative number comes back from the other end of the range.
\* str2ullong() refuses what is beyond either end.
InLong(n) == -LongRange < n /\ n < LongRange
Unsigned(n) == n % LongRange

\* Mutant of Span: the width of a period is forgotten.
SpanWithoutWidth(l) == Unsigned(l.num) * Multiplier(l.unit)

\* str2timespan().
Span(l) == (Unsigned(l.num) * Multiplier(l.unit)) % PeriodRange

\* Values apply_savent() and the callbacks let pass (a save also has to exist).
Accepts(k, l) ==
  CASE k = "save"     -> l.text[1] = "/"
    [] k = "backup"   -> TRUE
    [] k = "compress" -> l.text \in {<<"y">>, <<"n">>}
    [] k = "period"   -> /\ l.unit \in Units /\ InLong(l.num)
                         /\ Unsigned(l.num) < PeriodRange /\ Span(l) # 0
    [] k = "stack"    -> l.unit = "" /\ InLong(l.num) /\ Unsigned(l.num) \in 1..255

\* What they store.
Stored(k, l) ==
  CASE k = "compress" -> IF l.text = <<"y">> THEN 1 ELSE 0
    [] k = "period"   -> Span(l)
    [] k = "stack"    -> Unsigned(l.num)
    [] OTHER          -> l.text

\* apply_savent() for a key that sets a field; stat() in interpret_save() says whether a save
\* is a directory.
Applied(s, k, l, dir) ==
  [s EXCEPT ![k] = Stored(k, l), !.isDir = IF k = "save" THEN dir ELSE @]

-----------------------------------------------------------------------------
(* Configurations. *)

Entry == [name : Wording, save : Wording, isDir : BOOLEAN, backup : Wording,
          compress : {0, 1}, period : 0..(PeriodRange - 1), stack : 0..255,
          idx : Nat, pos : Nat]

\* Mutant of Fresh: words are counted in bits, positions in bytes.
FreshByBits(name, n) ==
  [name |-> name, save |-> <<>>, isDir |-> FALSE, backup |-> <<>>, compress |-> 0,
   period |-> 0, stack |-> 0, idx |-> n \div (8 * WordSize), pos |-> n % WordSize]

\* append_savesave(): all zero, and a bit for the scheduler: bit pos (task_pos is
\* 1 << pos) of word idx.
Fresh(name, n) ==
  [name |-> name, save |-> <<>>, isDir |-> FALSE, backup |-> <<>>, compress |-> 0,
   period |-> 0, stack |-> 0, idx |-> n \div WordSize, pos |-> n % WordSize]

\* check_valid_savent().
Complete(s) == s.save # <<>> /\ s.backup # <<>> /\ s.period # 0 /\ s.stack # 0

\* Mutant of Prefix: the archive's extension stands where the name should.
PrefixWithoutName(s) ==
  s.backup \o <<"/">> \o (IF s.compress = 1 THEN <<".ss">> ELSE s.name) \o <<".">>

\* update_backup_prefix().
Prefix(s) == s.backup \o <<"/">> \o s.name \o (IF s.compress = 1 THEN <<".ss">> ELSE <<>>) \o <<".">>

\* The words of the table baksched_init() allocates for n configurations.
TaskWords(n) == IF n \div (WordSize * 8) = 0 THEN 1 ELSE n \div (WordSize * 8)

-----------------------------------------------------------------------------
(* The parser. *)

Words == file[lineno].words
Key == Last(Words)
HasKey == Words # <<>> /\ Recognized(Words) /\ file[lineno].text # <<>>

\* Mutant of Collides: only the configuration before is compared.
CollidesWithLast(name) == savarr # <<>> /\ Last(savarr).name = name

\* find_savent_collision().
Collides(name) == \E i \in DOMAIN savarr : savarr[i].name = name

\* A blank line, a comment.
SkipLine ==
  /\ Words = <<>>
  /\ UNCHANGED <<savarr, state>>

\* A name without blanks opens a configuration.
OpenConfig ==
  /\ HasKey /\ Key = "config"
  /\ ~Collides(file[lineno].text)
  /\ " " \notin Range(file[lineno].text)
  /\ savarr' = Append(savarr, Fresh(file[lineno].text, Len(savarr)))
  /\ UNCHANGED state

\* Mutant of SetField: it is the first configuration's field.
SetFieldOfFirst ==
  /\ HasKey /\ Key # "config"
  /\ savarr # <<>>
  /\ Accepts(Key, file[lineno])
  /\ \E dir \in BOOLEAN :
       savarr' = [savarr EXCEPT ![1] = Applied(@, Key, file[lineno], dir)]
  /\ UNCHANGED state

\* Any other key sets a field of the last configuration.
SetField ==
  /\ HasKey /\ Key # "config"
  /\ savarr # <<>>
  /\ Accepts(Key, file[lineno])
  /\ \E dir \in BOOLEAN :
       savarr' = [savarr EXCEPT ![Len(savarr)] = Applied(@, Key, file[lineno], dir)]
  /\ UNCHANGED state

\* The line is refused, which ends the process: an unknown key (the table has no end, and the
\* search may run into anything), no value, a bad value, or a save that stat() cannot
\* find or that is neither file nor directory.
BadLine ==
  /\ \/ Words # <<>> /\ ~HasKey
     \/ HasKey /\ Key = "config" /\ (Collides(file[lineno].text) \/ " " \in Range(file[lineno].text))
     \/ HasKey /\ Key # "config" /\ ~Accepts(Key, file[lineno])
     \/ HasKey /\ Key = "save"
  /\ state' = "dead"
  /\ UNCHANGED savarr

\* A good field before the first configuration is written to savarr[-1], where savarr is
\* still NULL: nothing is mapped at the end of the address space, and the process crashes.
StrayField ==
  /\ HasKey /\ Key # "config"
  /\ savarr = <<>>
  /\ Accepts(Key, file[lineno])
  /\ state' = "crashed"
  /\ UNCHANGED savarr

ParseLine ==
  /\ state = "reading" /\ lineno <= Len(file)
  /\ SkipLine \/ OpenConfig \/ SetField \/ BadLine \/ StrayField
  /\ lineno' = lineno + 1
  /\ UNCHANGED file

\* The end of the file: finalize_parsing(), and no configuration is an error, too.  (A compress
\* of -1, which would mean yes for a directory, is never there.)
Finish ==
  /\ state = "reading" /\ lineno > Len(file)
  /\ IF savarr # <<>> /\ \A i \in DOMAIN savarr : Complete(savarr[i])
       THEN /\ savarr' = [i \in DOMAIN savarr |-> [savarr[i] EXCEPT !.backup = Prefix(savarr[i])]]
            /\ state' = "done"
       ELSE state' = "dead" /\ UNCHANGED savarr
  /\ UNCHANGED <<file, lineno>>

DotsavNext == ParseLine \/ Finish

DotsavSpec == DotsavInit /\ [][DotsavNext]_dotsavVars

-----------------------------------------------------------------------------
(* Properties. *)

TypeOK ==
  /\ file \in Seq(Line)
  /\ lineno \in 1..(Len(file) + 1)
  /\ savarr \in Seq(Entry)
  /\ state \in {"reading", "done", "dead", "crashed"}

\* What the commands get can be used: at least one configuration, each with a save, a
\* period, a stack and a name of its own (check_valid_savent() and the collision check, which
\* look at different moments of the parse).
ConfigsUsable ==
  state = "done" =>
    /\ savarr # <<>>
    /\ \A i \in DOMAIN savarr : savarr[i].save # <<>> /\ savarr[i].period > 0 /\ savarr[i].stack > 0
    /\ \A i, j \in DOMAIN savarr : savarr[i].name = savarr[j].name => i = j

\* What a line means to a reader, with numbers as large as they are written, and whether the
\* field is wide enough for it.
AsRead(k, l) ==
  CASE k = "compress" -> IF l.text = <<"y">> THEN 1 ELSE 0
    [] k = "period"   -> l.num * Multiplier(l.unit)
    [] k = "stack"    -> l.num
    [] OTHER          -> l.text
Fits(k, l) ==
  /\ k = "period" => AsRead(k, l) \in 0..(PeriodRange - 1)
  /\ k = "stack" => l.num \in 0..255

\* The configurations opened in the first n lines, and the last of the lines read so far that
\* give key k of the c-th.
LastWord(l) == IF l.words = <<>> THEN "" ELSE Last(l.words)
Opened(n) == Cardinality({i \in 1..n : LastWord(file[i]) = "config"})
Given(c, k) == {i \in 1..(lineno - 1) : Opened(i) = c /\ LastWord(file[i]) = k}

\* A file means what a reader thinks: every "config" line names a configuration, and the lines
\* after it, up to the next, are about that one, in any order; of two lines with a key the
\* later one counts.  Of a number too large for its field nothing is said: a period that is cut
\* to its field's width (string.c:162) is not what the reader thinks.
ReadsAsWritten ==
  state = "reading" =>
    /\ Len(savarr) = Opened(lineno - 1)
    /\ \A i \in 1..(lineno - 1) :
         LastWord(file[i]) = "config" => savarr[Opened(i)].name = file[i].text
    /\ \A c \in DOMAIN savarr : \A k \in Range(Keys) \ {"config"} :
         LET line == file[Max(Given(c, k))]
         IN IF Given(c, k) = {} THEN savarr[c][k] = Fresh(<<>>, 0)[k]
                                ELSE Fits(k, line) => savarr[c][k] = AsRead(k, line)

\* The scheduler tells configurations apart by their bits, however many there are
\* (BakSched takes that for granted).
BitsApart ==
  \A i, j \in DOMAIN savarr :
    savarr[i].idx = savarr[j].idx /\ savarr[i].pos = savarr[j].pos => i = j

\* .savesave.example:12-13: "there is no limit to the number of configurations as long as each
\* name is unique", so the scheduler's table has a word for each one's bit.
BitsInTable ==
  state = "done" => \A i \in DOMAIN savarr : savarr[i].idx < TaskWords(Len(savarr))

\* Two configurations with plain names never rotate each other's files: their backups' names
\* differ, even in one directory.  (Of names that look like an archive's or have a directory
\* in them, which nothing forbids, this is not true.)
PlainName(name) == Last(name) # ".ss" /\ "/" \notin Range(name)
PrefixesApart ==
  state = "done" =>
    \A i, j \in DOMAIN savarr :
      i # j /\ PlainName(savarr[i].name) /\ PlainName(savarr[j].name)
      => savarr[i].backup # savarr[j].backup

=============================================================================
