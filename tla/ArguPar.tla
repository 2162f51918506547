------------------------------ MODULE ArguPar ------------------------------
(***************************************************************************)
(* The command line: the option parser (platfree/argupar.c) as the         *)
(* commands use it one after the other on the same array of words, and     *)
(* what the commands do with the result before their own work starts       *)
(* (entry/savesave.c, commands/).                                          *)
(*                                                                         *)
(* A text is a sequence of pieces, which keeps what the parser looks at:   *)
(* one name is the beginning of another, or a number.  A word is a text,   *)
(* -text or --[no-]text[=text].  No table of the program sets              *)
(* ARGUOPT_OPTARG or ARGUOPT_HASNEG: what they do is left out.             *)
(***************************************************************************)
EXTENDS Integers, SequencesExt

CONSTANTS
  CommandLines,   \* the argument vectors, without the program's name
  Digit,          \* the pieces numbers are made of, each with its value
  UINT32_MAX,     \* the largest number an option takes,
  ULLONG_MAX,     \* and the largest that strtoull() can return
  Savs            \* the names of configurations, as words

\* The words are C strings: no piece of one is empty.
IsText(t) == t \in Seq(Range(t)) /\ "" \notin Range(t)
IsWord(w) ==
  \/ w.k \in {"text", "short"} /\ w = [k |-> w.k, text |-> w.text] /\ IsText(w.text)
  \/ /\ w.k = "long" /\ w = [k |-> "long", no |-> w.no, text |-> w.text, val |-> w.val]
     /\ w.no \in BOOLEAN /\ IsText(w.text)
     /\ w.val = {} \/ \E v \in w.val : IsText(v) /\ w.val = {v}

ASSUME ArguParAssumption ==
  \A line \in CommandLines : line \in Seq(Range(line)) /\ \A w \in Range(line) : IsWord(w)

ASSUME NumberAssumption ==
  /\ \A d \in DOMAIN Digit : d \notin {"+", "-"} /\ Digit[d] \in 0..9
  /\ UINT32_MAX \in Nat /\ ULLONG_MAX \in Nat

VARIABLES
  cmd,      \* the command that reads the words
  given,    \* the words it was given
  mem,      \* the array of words: operands are moved to its beginning
  argc,     \* the number of words not yet read
  at,       \* the first of them
  outc,     \* the number of operands moved
  next,     \* {}, or {what is left of a word of short options}
  set,      \* what the options have been set to
  subcmd,   \* the subcommand that was named
  result    \* how the program goes on

vars == <<cmd, given, mem, argc, at, outc, next, set, subcmd, result>>

Text(t) == [k |-> "text", text |-> t]
Short(t) == [k |-> "short", text |-> t]
\* v: {}, or {the text behind =}
Long(no, t, v) == [k |-> "long", no |-> no, text |-> t, val |-> v]
EndOfOptions == Long(FALSE, <<>>, {})
Help == {Short(<<"h">>), Long(FALSE, <<"help">>, {})}

\* The word as it stands in memory.
Bytes(w) ==
  CASE w.k = "text"  -> w.text
    [] w.k = "short" -> <<"-">> \o w.text
    [] w.k = "long"  -> <<"-", "-">> \o (IF w.no THEN <<"no-">> ELSE <<>>) \o w.text
                          \o (IF w.val = {} THEN <<>> ELSE <<"=">> \o CHOOSE v \in w.val : TRUE)

-----------------------------------------------------------------------------
(* The option tables. *)

\* neg: the option's own name begins with "no-".
Option(type, short, neg, name) == [type |-> type, short |-> short, neg |-> neg, name |-> name]
Group == Option("group", "", FALSE, <<"t", "i">>)
Sub(name) == Option("subcmd", "", FALSE, <<name>>)
APOPT_FILENAME(name) == Option("string", "", FALSE, name)

NoArg(o) == o.type \in {"switch", "countup"}

main_option ==
  <<APOPT_FILENAME(<<"d", "o">>), APOPT_FILENAME(<<"l", "o">>), Group,
    Sub("backup"), Sub("copy"), Sub("help"), Sub("query"), Sub("sizeof"), Sub("version")>>
copy_option == <<Option("uint", "n", FALSE, <<"t", "h">>), Option("countup", "f", FALSE, <<"f", "o">>)>>
sizeof_option ==
  <<Option("switch", "", TRUE, <<"d", "i">>), Option("switch", "", TRUE, <<"f", "i">>),
    Option("countup", "s", FALSE, <<"f", "r">>)>>
query_option == <<Sub("path"), Sub("limit")>>
\* Eight APOPT_MEMBINFO, which have no short names and are no long options, follow.
path_option == <<Group>>

option_table(c) ==
  CASE c = "main"   -> main_option
    [] c = "copy"   -> copy_option
    [] c = "sizeof" -> sizeof_option
    [] c = "query"  -> query_option
    [] OTHER        -> path_option
option == option_table(cmd)
AP_STOPAT_NONOPT(c) == c = "sizeof"
AP_COMMAND_MODE(c) == c \in {"main", "query"}
AP_NEED_ARGUMENT(c) == c \in {"copy", "query", "path"}
Parses(c) == c \in {"main", "copy", "sizeof", "query", "path"}

\* The first option of those at the places.
FirstOption(is) == {option[i] : i \in {i \in is : \A j \in is : i <= j}}

-----------------------------------------------------------------------------
(* dispatch_optarg() *)

\* strtoull(): a sign and digits.  A negative number wraps around.
Signed(w) == Bytes(w) # <<>> /\ Head(Bytes(w)) \in {"+", "-"}
Digits(w) == IF Signed(w) THEN Tail(Bytes(w)) ELSE Bytes(w)
Magnitude(w) == FoldLeft(LAMBDA n, d : 10 * n + Digit[d], 0, Digits(w))
strtoull(w) ==
  IF Signed(w) /\ Head(Bytes(w)) = "-" THEN (ULLONG_MAX + 1 - Magnitude(w)) % (ULLONG_MAX + 1) ELSE Magnitude(w)

\* What str2uint() takes: digits to the word's end, in range before and after the sign.
Number(w) ==
  /\ Digits(w) # <<>> /\ Range(Digits(w)) \subseteq DOMAIN Digit
  /\ Magnitude(w) <= ULLONG_MAX /\ strtoull(w) <= UINT32_MAX

ExitWith(r) == result' = r /\ UNCHANGED <<set, next, mem, argc, at, outc>>

\* v: {}, or {the argument}; rest: what is left of the word; n words are read.
dispatch_optarg(o, v, unset, rest, n) ==
  LET became ==
        CASE o.type = "switch"  -> IF unset THEN 0 ELSE 1
          [] o.type = "countup" -> IF unset THEN 0 ELSE set[o.name] + 1
          [] o.type = "uint"    -> IF unset THEN {Text(<<"0">>)} ELSE v
          [] o.type = "string"  -> v
  IN
  \* str2ullong() does not take an empty text
  CASE o.type = "group" -> ExitWith("wild")
    [] o.type = "subcmd" -> ExitWith("bug")
    [] o.type = "uint" /\ v = {Text(<<>>)} -> ExitWith("bug")
    [] o.type = "uint" /\ \E w \in v : ~Number(w) /\ w # Text(<<>>) -> ExitWith("error")
    [] OTHER -> /\ set' = [set EXCEPT ![o.name] = became]
                /\ next' = rest
                /\ argc' = argc - n /\ at' = at + n
                /\ UNCHANGED <<mem, outc, result>>

-----------------------------------------------------------------------------
(* parse_shrtopt() *)

Reading == result = "parsing" /\ Parses(cmd)
Word == mem[at]

\* What stands behind the end of a word: nothing, or the next word.
Behind == {<<>>} \cup IF argc > 1 THEN {Bytes(mem[at + 1])} ELSE {}

\* One option of the word.  In the word "-" the parser meets the end of the text, which is
\* the short name of the options that have none, and reads what stands behind it.
ShortOption ==
  /\ Reading
  /\ \E str \in next :
       \E tail \in IF str = <<>> THEN Behind ELSE {Tail(str)} :
         LET found == FirstOption({i \in DOMAIN option : option[i].short = IF str = <<>> THEN "" ELSE Head(str)})
             rest == IF tail = <<>> THEN {} ELSE {tail}
             last == IF tail = <<>> THEN 1 ELSE 0
         IN
         CASE found = {} -> ExitWith("error")
           [] OTHER ->
                \E o \in found :
                  IF NoArg(o) THEN dispatch_optarg(o, {}, FALSE, rest, last)
                  ELSE IF tail # <<>> THEN dispatch_optarg(o, {Text(tail)}, FALSE, {}, 1)
                  ELSE IF argc > 1 THEN dispatch_optarg(o, {mem[at + 1]}, FALSE, {}, 2)
                  ELSE ExitWith("error")
  /\ UNCHANGED <<cmd, given, subcmd>>

-----------------------------------------------------------------------------
(* parse_longopt() *)

\* Titles of groups are not passed over.
IsNamed(o, w) == o.type \notin {"subcmd", "membinfo"} /\ o.neg = w.no
Abbreviated(w) == {i \in DOMAIN option : IsNamed(option[i], w) /\ IsPrefix(w.text, option[i].name)}

\* Mutant of Meant: the first abbreviation that fits is taken.
MeantFirst(w) ==
  LET exact == FirstOption({i \in DOMAIN option : IsNamed(option[i], w) /\ option[i].name = w.text})
  IN  IF exact # {} THEN exact
      ELSE FirstOption(Abbreviated(w))

\* The option a word names: the first of that name, or the only one that begins so.
Meant(w) ==
  LET exact == FirstOption({i \in DOMAIN option : IsNamed(option[i], w) /\ option[i].name = w.text})
      abbrev == Abbreviated(w)
  IN  IF exact # {} THEN exact
      ELSE IF Cardinality(abbrev) = 1 THEN {option[i] : i \in abbrev}
      ELSE {}

LongOption ==
  /\ Reading /\ next = {} /\ argc > 0
  /\ Word.k = "long" /\ Word # EndOfOptions /\ Word \notin Help
  /\ IF Meant(Word) = {} THEN ExitWith("error")
     ELSE \E o \in Meant(Word) :
            IF Word.val # {}
              THEN IF NoArg(o) \/ Word.no THEN ExitWith("error")
                   ELSE \E v \in Word.val : dispatch_optarg(o, {Text(v)}, FALSE, {}, 1)
            ELSE IF NoArg(o) \/ Word.no THEN dispatch_optarg(o, {}, Word.no, {}, 1)
            ELSE IF argc > 1 THEN dispatch_optarg(o, {mem[at + 1]}, FALSE, {}, 2)
            ELSE ExitWith("error")
  /\ UNCHANGED <<cmd, given, subcmd>>

-----------------------------------------------------------------------------
(* argupar_parse() *)

\* -h, --help, or no word at all where one is needed.
PromptHelp ==
  /\ Reading /\ next = {}
  /\ \/ argc > 0 /\ Word \in Help
     \/ given = <<>> /\ AP_NEED_ARGUMENT(cmd)
  /\ ExitWith("usage")
  /\ UNCHANGED <<cmd, given, subcmd>>

ShortWord ==
  /\ Reading /\ next = {} /\ argc > 0
  /\ Word.k = "short" /\ Word \notin Help
  /\ next' = {Word.text}
  /\ UNCHANGED <<cmd, given, mem, argc, at, outc, set, subcmd, result>>

\* Mutant of Operand: the word before the operands is counted.
OperandShifted ==
  /\ Reading /\ next = {} /\ argc > 0 /\ Word.k = "text"
  /\ ~AP_STOPAT_NONOPT(cmd) /\ ~AP_COMMAND_MODE(cmd)
  /\ mem' = IF outc + 2 \in DOMAIN mem THEN [mem EXCEPT ![outc + 2] = Word] ELSE mem
  /\ outc' = outc + 1
  /\ argc' = argc - 1 /\ at' = at + 1
  /\ UNCHANGED <<cmd, given, next, set, subcmd, result>>

Operand ==
  /\ Reading /\ next = {} /\ argc > 0 /\ Word.k = "text"
  /\ ~AP_STOPAT_NONOPT(cmd) /\ ~AP_COMMAND_MODE(cmd)
  /\ mem' = [mem EXCEPT ![outc + 1] = Word]
  /\ outc' = outc + 1
  /\ argc' = argc - 1 /\ at' = at + 1
  /\ UNCHANGED <<cmd, given, next, set, subcmd, result>>

\* The words from the n-th unread one on are moved behind the operands.
ParseDone(n) ==
  LET left == argc - n
      nl == outc + left
  IN
  /\ mem' = [i \in DOMAIN mem |-> IF i \in outc + 1..nl THEN mem[at + n + i - outc - 1] ELSE mem[i]]
  /\ argc' = nl
  /\ at' = 1 /\ outc' = 0
  /\ result' = IF AP_NEED_ARGUMENT(cmd) /\ nl = 0 THEN "usage" ELSE "parsed"

StopParse ==
  /\ Reading /\ next = {}
  /\ \/ argc = 0 /\ ~(given = <<>> /\ AP_NEED_ARGUMENT(cmd)) /\ ParseDone(0)
     \/ argc > 0 /\ Word = EndOfOptions /\ ParseDone(1)
     \/ argc > 0 /\ Word.k = "text" /\ AP_STOPAT_NONOPT(cmd) /\ ParseDone(0)
  /\ UNCHANGED <<cmd, given, next, set, subcmd>>

\* parse_subcommand(): a file name option has a name, too, and no subcommand behind it.
Subcommand ==
  /\ Reading /\ next = {} /\ argc > 0 /\ Word.k = "text" /\ AP_COMMAND_MODE(cmd)
  /\ LET found == FirstOption({i \in DOMAIN option : option[i].type # "group" /\ option[i].name = Word.text}) IN
       IF found = {} THEN result' = "error" /\ UNCHANGED <<mem, argc, at, outc, set, subcmd>>
       ELSE \E o \in found :
              /\ subcmd' = IF o.type = "subcmd" THEN o.name[1] ELSE ""
              /\ set' = IF o.type = "subcmd" THEN set ELSE [set EXCEPT ![o.name] = {}]
              /\ ParseDone(1)
  /\ UNCHANGED <<cmd, given, next>>

-----------------------------------------------------------------------------
(* The commands. *)

\* The next command reads what is left, in the same array.
RunCommand ==
  /\ result = "parsed" /\ AP_COMMAND_MODE(cmd) /\ subcmd # ""
  /\ cmd' = subcmd /\ subcmd' = ""
  /\ given' = SubSeq(mem, 1, argc)
  /\ result' = "parsing"
  /\ UNCHANGED <<mem, argc, at, outc, next, set>>

\* cmd_main() looks whether there is a command; cmd_query() does not.
NoCommand ==
  /\ result = "parsed" /\ AP_COMMAND_MODE(cmd) /\ subcmd = ""
  /\ result' = IF cmd = "main" THEN "died" ELSE "wild"
  /\ UNCHANGED <<cmd, given, mem, argc, at, outc, next, set, subcmd>>

thrd_numb == set[<<"t", "h">>]
from_dotsav == set[<<"f", "r">>] # 0

\* The configuration of that name is copied from its save to its backup.
copy_sav == IF mem[1] \in Savs THEN "run" ELSE "died"

\* basename()
Basename(t) ==
  LET ends == {i \in DOMAIN t : t[i] # "/"}
      last == Max(ends)
      begins == {i \in 1..last : \A j \in i..last : t[j] # "/"}
  IN  IF t = <<>> THEN <<".">> ELSE IF ends = {} THEN <<"/">> ELSE SubSeq(t, Min(begins), last)

\* The last names of the sources must differ.
copy_multisrc ==
  IF \E i, j \in 1..argc - 1 : i # j /\ Basename(Bytes(mem[i])) = Basename(Bytes(mem[j]))
    THEN "died" ELSE "run"

\* cmd_copy(): one operand is a configuration, two are source and destination.
cmd_copy ==
  IF \E w \in thrd_numb : strtoull(w) = 0 THEN "died"
  ELSE CASE argc = 1 -> copy_sav
         [] argc = 2 -> "run"
         [] OTHER -> copy_multisrc

\* cmd_sizeof() wants a path from somewhere.
StartWork ==
  /\ result \in {"parsed", "parsing"}
  /\ IF Parses(cmd) THEN result = "parsed" /\ ~AP_COMMAND_MODE(cmd) ELSE result = "parsing"
  /\ result' = CASE cmd = "copy" -> cmd_copy
                 [] cmd = "sizeof" /\ ~from_dotsav /\ argc = 0 -> "died"
                 [] OTHER -> "run"
  /\ UNCHANGED <<cmd, given, mem, argc, at, outc, next, set, subcmd>>

\* Without a word the program gives itself -h.
Init ==
  /\ cmd = "main"
  /\ \E line \in CommandLines : given = IF line = <<>> THEN <<Short(<<"h">>)>> ELSE line
  /\ mem = given /\ argc = Len(given) /\ at = 1 /\ outc = 0
  /\ next = {}
  /\ set = [n \in {<<"d", "o">>, <<"l", "o">>, <<"t", "h">>, <<"f", "o">>, <<"f", "r">>, <<"d", "i">>, <<"f", "i">>} |->
              IF n \in {<<"f", "o">>, <<"f", "r">>} THEN 0 ELSE IF n \in {<<"d", "i">>, <<"f", "i">>} THEN 1 ELSE {}]
  /\ subcmd = ""
  /\ result = "parsing"

Done == result \in {"usage", "error", "bug", "wild", "died", "run"} /\ UNCHANGED vars

Next ==
  \/ PromptHelp \/ ShortWord \/ ShortOption \/ LongOption \/ Operand \/ StopParse \/ Subcommand
  \/ RunCommand \/ NoCommand \/ StartWork
  \/ Done

Spec == Init /\ [][Next]_vars

-----------------------------------------------------------------------------
(* What a command line means, said of all its words, as c was given them. *)

Options(c) == {o \in Range(option_table(c)) : o.type \notin {"group", "subcmd"}}
Letter(c, x) == {o \in Options(c) : o.short = x}
Flag(c, x) == \E o \in Letter(c, x) : NoArg(o)

Fitting(c, w) ==
  LET fits == {o \in Options(c) : o.neg = w.no /\ IsPrefix(w.text, o.name)}
      exact == {o \in fits : o.name = w.text}
  IN  IF exact # {} THEN exact ELSE fits

\* How many of the letters are options without a value.
Flags(c, t) == CHOOSE k \in 0..Len(t) : (\A i \in 1..k : Flag(c, t[i])) /\ (k < Len(t) => ~Flag(c, t[k + 1]))

WantsNext(c, w) ==
  \/ w.k = "short" /\ Flags(c, w.text) = Len(w.text) - 1
  \/ w.k = "long" /\ ~w.no /\ w.val = {} /\ Cardinality(Fitting(c, w)) = 1 /\ \A o \in Fitting(c, w) : ~NoArg(o)

IsValue(c, line) ==
  LET value[i \in 0..Len(line)] == i > 1 /\ WantsNext(c, line[i - 1]) /\ ~value[i - 1]
  IN  value

\* Where the options and their operands end.
Stops(c, line, i) ==
  /\ ~IsValue(c, line)[i]
  /\ line[i] = EndOfOptions \/ (line[i].k = "text" /\ (AP_STOPAT_NONOPT(c) \/ AP_COMMAND_MODE(c)))
Stop(c, line) == Min({i \in 1..Len(line) : Stops(c, line, i)} \cup {Len(line) + 1})

\* Those of the first n words that are operands.
Operands(c, line, n) ==
  FlattenSeq([i \in 1..n |-> IF line[i].k = "text" /\ ~IsValue(c, line)[i] THEN <<line[i]>> ELSE <<>>])
MeantOperands(c, line) ==
  LET stop == Stop(c, line)
      stays == AP_STOPAT_NONOPT(c) /\ stop <= Len(line) /\ line[stop].k = "text"
  IN  Operands(c, line, stop - 1) \o SubSeq(line, IF stays THEN stop ELSE stop + 1, Len(line))

\* The options a word sets, each with its value.
Use(opts, v, unset) == [opts |-> opts, v |-> v, unset |-> unset]
WordUses(c, line, i) ==
  LET w == line[i]
      following == IF i < Len(line) THEN {line[i + 1]} ELSE {}
      k == Flags(c, w.text)
  IN
  IF w.k = "text" \/ IsValue(c, line)[i] THEN <<>>
  ELSE IF w.k = "short"
    THEN [j \in 1..k |-> Use(Letter(c, w.text[j]), {}, FALSE)]
           \o IF k = Len(w.text) THEN <<>>
              ELSE <<Use(Letter(c, w.text[k + 1]),
                         IF k + 1 = Len(w.text) THEN following ELSE {Text(SubSeq(w.text, k + 2, Len(w.text)))},
                         FALSE)>>
  ELSE <<Use(Fitting(c, w),
             IF w.val # {} THEN {Text(v) : v \in w.val} ELSE IF WantsNext(c, w) THEN following ELSE {},
             w.no)>>
Uses(c, line, n) == FlattenSeq([i \in 1..n |-> WordUses(c, line, i)])
AllUses(c, line) == Uses(c, line, Stop(c, line) - 1)

Fine(u) ==
  /\ Cardinality(u.opts) = 1
  /\ \A o \in u.opts :
       /\ (u.v = {}) = (NoArg(o) \/ u.unset)
       /\ o.type = "uint" => \A w \in u.v : Number(w)

MeantSetting(uses, o) ==
  LET of == {j \in DOMAIN uses : uses[j].opts = {o}} IN
  CASE o.type = "countup" -> Cardinality(of)
    [] o.type = "switch" -> IF of = {} \/ ~uses[Max(of)].unset THEN 1 ELSE 0
    [] OTHER -> IF of = {} THEN {} ELSE uses[Max(of)].v

\* What stands in the place of a command.  A file name option's name there is taken for one (and
\* the file name forgotten).
Command == {given[j].text : j \in {Stop(cmd, given)} \cap DOMAIN given}

\* A command line is taken for what it says, whatever the order of the table's options: no
\* operand is lost, doubled, taken for a value or moved before another, the words behind --
\* are operands, each option has the last value it was given, and what is refused has a
\* word that fits no option, or more than one, or lacks its value or has one too many, or
\* has for a value what Number() refuses, as str2uint() does.
\* (argupar.c; the word "-" is read past its end, and an abbreviated title of a group
\* calls no function: such lines are left out.)
ParsedAsMeant ==
  (\A i \in DOMAIN given : given[i] # Short(<<>>)) =>
    /\ result = "parsed" =>
         /\ \A u \in Range(AllUses(cmd, given)) : Fine(u)
         /\ SubSeq(mem, 1, argc) = MeantOperands(cmd, given)
         /\ \A o \in Options(cmd) :
              set[o.name] = MeantSetting(AllUses(cmd, given), o) \/ (AP_COMMAND_MODE(cmd) /\ o.name \in Command)
    /\ result = "error" =>
         \/ \E u \in Range(AllUses(cmd, given)) : ~Fine(u)
         \/ AP_COMMAND_MODE(cmd) /\ \E t \in Command : \A o \in Range(option) : o.type = "group" \/ o.name # t

\* The operands are moved within the array that is still being read: no word is
\* overwritten before it is read (outv is argv).
UnreadUntouched ==
  result = "parsing" => outc < at /\ \A i \in at..Len(given) : mem[i] = given[i]

=============================================================================
