----------------------------- MODULE TextsProofs -----------------------------
(***************************************************************************)
(* No word of a command line is overwritten before it is read, and the     *)
(* line is taken for what it says, however long and whatever its words;    *)
(* every report is written as it was made, whatever the size of the array  *)
(* and the texts; and the text a user of a buffer reads is the one it has  *)
(* put together, whatever the texts.                                       *)
(*                                                                         *)
(* The operands are moved to the front of the array that is being read.    *)
(* That they stay behind the reader (Behindhand) follows from what the     *)
(* parser counts down being what is left of the words it was given         *)
(* (Counted); both hold again when the next command starts to read, since  *)
(* the words left are moved to the front and the counts reset.             *)
(*                                                                         *)
(* A command line means what it says: while a command reads, what it has   *)
(* moved and set is what the words before this one, and the letters of it  *)
(* that have been read, mean together (Reads).  The options of a command   *)
(* that has not run are as they were at first (Settings), since no two     *)
(* tables have an option of the same name; that an abbreviation and a      *)
(* letter find the option they fit is shown of the five tables (LongFact,  *)
(* LetterFact).                                                            *)
(*                                                                         *)
(* Of a report, the invariant says what the array holds before each step   *)
(* (ReportInv): a beginning of the line while the line is put together     *)
(* (Begun), then the line with the last of its control characters replaced *)
(* and what follows them moved (Replacing), then the line with all of them *)
(* replaced, if there was room, and with question marks otherwise          *)
(* (Finished).                                                             *)
(*                                                                         *)
(* A buffer holds a text when its memory begins with it and then ends it   *)
(* (Holds); only some users also keep its length (Exact), and one that     *)
(* goes back to the initial text without cutting there is left with a      *)
(* beginning (Starts).  BufferInv says which it is at each step of each    *)
(* user.  On a list, the buffers in use hold what was put on it, and the   *)
(* others have no memory or no length (Stack).                             *)
(***************************************************************************)
EXTENDS Texts, DataFacts

Typed == UNION {Range(line) : line \in CommandLines}
Words == Typed \cup {Short(<<"h">>)}

\* The parts of the inductive invariant.
Arrays == mem \in Seq(Words) /\ given \in Seq(Words) /\ argc \in Nat /\ at \in Nat /\ outc \in Nat
Counted ==
  result = "parsing" =>
    /\ at >= 1 /\ at + argc = Len(given) + 1
    /\ Len(given) =< Len(mem)
    /\ next # {} => argc > 0
Behindhand == UnreadUntouched
LeftInFront == result = "parsed" => at = 1 /\ outc = 0 /\ argc =< Len(mem) /\ next = {}

Inv == Arrays /\ Counted /\ Behindhand /\ LeftInFront

\* The words that stay are in the set of all words.
LEMMA LinesAreWords == \A line \in CommandLines : line \in Seq(Words)
<1> SUFFICES ASSUME NEW line \in CommandLines PROVE line \in Seq(Words)
  OBVIOUS
<1>1. line \in Seq(Range(line))
  BY ArguParAssumption
<1>2. Range(line) \subseteq Words
  BY DEF Words, Typed
<1> QED
  BY <1>1, <1>2

\* At first nothing has been read.
LEMMA InitInv == Init => Inv
<1> SUFFICES ASSUME Init PROVE Inv
  OBVIOUS
<1>1. given \in Seq(Words)
  <2>1. PICK line \in CommandLines : given = IF line = <<>> THEN <<Short(<<"h">>)>> ELSE line
    BY DEF Init
  <2>2. Short(<<"h">>) \in Words
    BY DEF Words
  <2> QED
    BY <2>1, <2>2, LinesAreWords
<1>2. mem = given /\ argc = Len(given) /\ at = 1 /\ outc = 0 /\ next = {} /\ result = "parsing"
  BY DEF Init
<1> QED
  BY <1>1, <1>2 DEF Inv, Arrays, Counted, Behindhand, LeftInFront, UnreadUntouched

\* An option's words are read, and nothing is moved.
LEMMA DispatchInv ==
  ASSUME Inv, result = "parsing", UNCHANGED given,
         NEW o, NEW v, NEW unset, NEW rest, NEW n \in {0, 1, 2}, n =< argc, rest # {} => n = 0,
         argc > 0, dispatch_optarg(o, v, unset, rest, n)
  PROVE  Inv'
<1>1. /\ UNCHANGED <<mem, outc>>
      /\ \/ UNCHANGED <<argc, at, next>> /\ result' \in {"wild", "bug", "error"}
         \/ argc' = argc - n /\ at' = at + n /\ next' = rest /\ UNCHANGED result
  BY DEF dispatch_optarg, ExitWith
<1> QED
  BY <1>1 DEF Inv, Arrays, Counted, Behindhand, LeftInFront, UnreadUntouched

\* Nor does it matter that the parser stops, with whatever result.
LEMMA ExitInv ==
  ASSUME Inv, UNCHANGED given, NEW r, r \notin {"parsing", "parsed"}, ExitWith(r)
  PROVE  Inv'
BY DEF ExitWith, Inv, Arrays, Counted, Behindhand, LeftInFront, UnreadUntouched

\* The words left are moved behind the operands.
LEMMA ParseDoneInv ==
  ASSUME Inv, result = "parsing", next = {}, UNCHANGED <<given, next>>,
         NEW n \in {0, 1}, n =< argc, ParseDone(n)
  PROVE  Inv'
<1> DEFINE nl == outc + argc - n
<1>1. nl \in Nat /\ nl =< Len(mem)
  BY DEF Inv, Arrays, Counted, Behindhand, UnreadUntouched
<1>2. mem' \in Seq(Words)
  <2>1. \A p \in DOMAIN mem : p \in outc + 1..nl => at + n + p - outc - 1 \in DOMAIN mem
    BY DEF Inv, Arrays, Counted, Behindhand, UnreadUntouched
  <2>2. DOMAIN mem' = DOMAIN mem /\ \A p \in DOMAIN mem : mem'[p] \in Words
    BY <2>1 DEF ParseDone, Inv, Arrays
  <2>3. mem' = [p \in 1..Len(mem) |-> mem'[p]]
    BY <2>2, SMTT(30) DEF ParseDone, Inv, Arrays
  <2> QED
    BY <2>2, <2>3 DEF Inv, Arrays
<1>3. Len(mem') = Len(mem)
  BY DEF ParseDone, Inv, Arrays
<1>4. argc' = nl /\ at' = 1 /\ outc' = 0 /\ result' \in {"usage", "parsed"}
  BY DEF ParseDone, Inv, Arrays
<1> QED
  BY <1>1, <1>2, <1>3, <1>4 DEF Inv, Arrays, Counted, Behindhand, LeftInFront, UnreadUntouched

\* Every step keeps the invariant.
LEMMA NextInv == Inv /\ [Next]_vars => Inv'
<1> SUFFICES ASSUME Inv, [Next]_vars PROVE Inv'
  OBVIOUS
<1>1. CASE PromptHelp
  BY <1>1, ExitInv DEF PromptHelp
<1>2. CASE ShortWord
  BY <1>2 DEF ShortWord, Reading, Inv, Arrays, Counted, Behindhand, LeftInFront, UnreadUntouched
<1>3. CASE ShortOption
  <2>1. result = "parsing" /\ UNCHANGED given /\ argc > 0
    BY <1>3 DEF ShortOption, Reading, Inv, Counted
  <2>2. PICK str \in next : \E tail \in IF str = <<>> THEN Behind ELSE {Tail(str)} :
          LET found == FirstOption({p \in DOMAIN option : option[p].short = IF str = <<>> THEN "" ELSE Head(str)})
              rest == IF tail = <<>> THEN {} ELSE {tail}
              last == IF tail = <<>> THEN 1 ELSE 0
          IN
          CASE found = {} -> ExitWith("error")
            [] OTHER ->
                 \E o \in found :
                   IF NoArg(o) THEN dispatch_optarg(o, {}, FALSE, rest, last)
                   ELSE IF tail # <<>> THEN dispatch_optarg(o, {Text(tail)}, FALSE, {}, 1)
                   ELSE IF argc > 1 THEN dispatch_optarg(o, {mem[at + 1]}, FALSE, {}, 2)
                   ELSE ExitWith("error")
    BY <1>3 DEF ShortOption
  <2> DEFINE found == FirstOption({p \in DOMAIN option : option[p].short = IF str = <<>> THEN "" ELSE Head(str)})
  <2> HIDE DEF found
  <2>3. PICK tail \in IF str = <<>> THEN Behind ELSE {Tail(str)} :
          CASE found = {} -> ExitWith("error")
            [] OTHER ->
                 \E o \in found :
                   IF NoArg(o)
                     THEN dispatch_optarg(o, {}, FALSE, IF tail = <<>> THEN {} ELSE {tail}, IF tail = <<>> THEN 1 ELSE 0)
                   ELSE IF tail # <<>> THEN dispatch_optarg(o, {Text(tail)}, FALSE, {}, 1)
                   ELSE IF argc > 1 THEN dispatch_optarg(o, {mem[at + 1]}, FALSE, {}, 2)
                   ELSE ExitWith("error")
    BY <2>2 DEF found
  <2>4. CASE ExitWith("error")
    BY <2>1, <2>4, ExitInv
  <2>5. CASE ~ExitWith("error")
    <3>1. PICK o \in found :
            \/ dispatch_optarg(o, {}, FALSE, IF tail = <<>> THEN {} ELSE {tail}, IF tail = <<>> THEN 1 ELSE 0)
            \/ dispatch_optarg(o, {Text(tail)}, FALSE, {}, 1)
            \/ argc > 1 /\ dispatch_optarg(o, {mem[at + 1]}, FALSE, {}, 2)
      BY <2>3, <2>5
    <3>2. argc \in Nat /\ 0 =< argc /\ 1 =< argc
      BY <2>1 DEF Inv, Arrays
    <3>3. CASE dispatch_optarg(o, {}, FALSE, IF tail = <<>> THEN {} ELSE {tail}, IF tail = <<>> THEN 1 ELSE 0)
      <4>1. CASE tail = <<>>
        BY <2>1, <3>2, <3>3, <4>1, DispatchInv
      <4>2. CASE tail # <<>>
        <5>1. dispatch_optarg(o, {}, FALSE, {tail}, 0)
          BY <3>3, <4>2
        <5> QED
          BY <2>1, <3>2, <5>1, DispatchInv
      <4> QED
        BY <4>1, <4>2
    <3>4. CASE dispatch_optarg(o, {Text(tail)}, FALSE, {}, 1)
      BY <2>1, <3>2, <3>4, DispatchInv
    <3>5. CASE argc > 1 /\ dispatch_optarg(o, {mem[at + 1]}, FALSE, {}, 2)
      <4>1. 2 =< argc
        BY <3>5 DEF Inv, Arrays
      <4> QED
        BY <2>1, <3>5, <4>1, DispatchInv
    <3> QED
      BY <3>1, <3>3, <3>4, <3>5
  <2> QED
    BY <2>4, <2>5
<1>4. CASE LongOption
  <2>1. result = "parsing" /\ UNCHANGED given /\ argc > 0
    BY <1>4 DEF LongOption, Reading
  <2>2. CASE ExitWith("error")
    BY <2>1, <2>2, ExitInv
  <2>3. CASE ~ExitWith("error")
    <3>1. \E o \in Meant(Word) :
            \/ \E v \in Word.val : dispatch_optarg(o, {Text(v)}, FALSE, {}, 1)
            \/ dispatch_optarg(o, {}, Word.no, {}, 1)
            \/ argc > 1 /\ dispatch_optarg(o, {mem[at + 1]}, FALSE, {}, 2)
      BY <1>4, <2>3 DEF LongOption
    <3>2. 1 =< argc
      BY <2>1 DEF Inv, Arrays
    <3>3. ASSUME NEW o, NEW v, NEW unset, dispatch_optarg(o, v, unset, {}, 1) PROVE Inv'
      BY <2>1, <3>2, <3>3, DispatchInv
    <3>4. ASSUME NEW o, argc > 1, dispatch_optarg(o, {mem[at + 1]}, FALSE, {}, 2) PROVE Inv'
      <4>1. 2 =< argc
        BY <3>4 DEF Inv, Arrays
      <4> QED
        BY <2>1, <3>4, <4>1, DispatchInv
    <3> QED
      BY <3>1, <3>3, <3>4
  <2> QED
    BY <2>2, <2>3
<1>5. CASE Operand
  <2>1. /\ result = "parsing" /\ argc > 0 /\ next = {}
        /\ mem' = [mem EXCEPT ![outc + 1] = mem[at]] /\ outc' = outc + 1
        /\ argc' = argc - 1 /\ at' = at + 1
        /\ UNCHANGED <<given, next, result>>
    BY <1>5 DEF Operand, Reading, Word
  <2>2. at \in 1..Len(mem) /\ outc + 1 =< at
    BY <2>1 DEF Inv, Arrays, Counted, Behindhand, UnreadUntouched
  <2>3. mem[at] \in Words
    BY <2>2 DEF Inv, Arrays
  <2>4. /\ mem' \in Seq(Words) /\ Len(mem') = Len(mem)
        /\ \A p \in 1..Len(mem) : p # outc + 1 => mem'[p] = mem[p]
    BY <2>1, <2>2, <2>3 DEF Inv, Arrays
  <2>5. Arrays'
    BY <2>1, <2>4 DEF Inv, Arrays
  <2>6. Counted'
    BY <2>1, <2>4 DEF Inv, Arrays, Counted
  <2>7. Behindhand'
    BY <2>1, <2>2, <2>4 DEF Inv, Arrays, Counted, Behindhand, UnreadUntouched
  <2>8. LeftInFront'
    BY <2>1 DEF LeftInFront
  <2> QED
    BY <2>5, <2>6, <2>7, <2>8 DEF Inv
<1>6. CASE StopParse
  <2>1. \E n \in {0, 1} : n =< argc /\ ParseDone(n)
    BY <1>6 DEF StopParse, Inv, Arrays
  <2> QED
    BY <1>6, <2>1, ParseDoneInv DEF StopParse, Reading
<1>7. CASE Subcommand
  <2>1. (result' = "error" /\ UNCHANGED <<mem, argc, at, outc>>) \/ ParseDone(1)
    BY <1>7 DEF Subcommand
  <2>2. CASE ParseDone(1)
    <3>1. result = "parsing" /\ next = {} /\ argc > 0 /\ UNCHANGED <<given, next>>
      BY <1>7 DEF Subcommand, Reading
    <3>2. 1 =< argc
      BY <3>1 DEF Inv, Arrays
    <3> QED
      BY <2>2, <3>1, <3>2, ParseDoneInv
  <2>3. CASE result' = "error" /\ UNCHANGED <<mem, argc, at, outc>>
    BY <1>7, <2>3 DEF Subcommand, Inv, Arrays, Counted, Behindhand, LeftInFront, UnreadUntouched
  <2> QED
    BY <2>1, <2>2, <2>3
<1>8. CASE RunCommand
  <2>1. /\ result = "parsed" /\ given' = SubSeq(mem, 1, argc) /\ result' = "parsing"
        /\ UNCHANGED <<mem, argc, at, outc, next>>
    BY <1>8 DEF RunCommand
  <2>2. at = 1 /\ outc = 0 /\ argc =< Len(mem) /\ next = {} /\ argc \in Nat /\ mem \in Seq(Words)
    BY <2>1 DEF Inv, Arrays, LeftInFront
  <2>3. /\ given' \in Seq(Words) /\ Len(given') = argc
        /\ \A p \in 1..argc : given'[p] = mem[p]
    BY <2>1, <2>2
  <2> QED
    BY <2>1, <2>2, <2>3 DEF Inv, Arrays, Counted, Behindhand, LeftInFront, UnreadUntouched
<1>9. CASE NoCommand
  BY <1>9 DEF NoCommand, Inv, Arrays, Counted, Behindhand, LeftInFront, UnreadUntouched
<1>10. CASE StartWork
  <2>1. result' \in {"died", "run"} /\ UNCHANGED <<given, mem, argc, at, outc, next>>
    BY <1>10 DEF StartWork, cmd_copy, copy_sav, copy_multisrc
  <2> QED
    BY <2>1 DEF Inv, Arrays, Counted, Behindhand, LeftInFront, UnreadUntouched
<1>11. CASE Done \/ UNCHANGED vars
  BY <1>11 DEF Done, vars, Inv, Arrays, Counted, Behindhand, LeftInFront, UnreadUntouched
<1> QED
  BY <1>1, <1>2, <1>3, <1>4, <1>5, <1>6, <1>7, <1>8, <1>9, <1>10, <1>11 DEF Next

\* The whole invariant, for every behaviour.
THEOREM ParserInvariant == Spec => []Inv
BY InitInv, NextInv, PTL DEF Spec

\* Where buffers or reports are made, there is no command line.
LEMMA NoLineStep == NoCommandLine /\ [Next]_vars => NoCommandLine'
<1> SUFFICES ASSUME NoCommandLine, [Next]_vars PROVE NoCommandLine'
  OBVIOUS
<1>1. result = "none"
  BY DEF NoCommandLine
<1>2. ~Next
  BY <1>1 DEF Next, PromptHelp, ShortWord, ShortOption, LongOption, Operand, StopParse, Subcommand,
     RunCommand, NoCommand, StartWork, Done, Reading
<1> QED
  BY <1>2 DEF NoCommandLine, vars

\* No word is overwritten before it is read, by one command after the other.
THEOREM UnreadWordsStay == TextsSpec => []UnreadUntouched
<1> DEFINE J == NoCommandLine \/ Inv
<1>1. TextsInit => J
  BY InitInv DEF TextsInit
<1>2. J /\ [TextsNext]_<<vars, buffer, message>> => J'
  <2>1. [TextsNext]_<<vars, buffer, message>> => [Next]_vars
    BY DEF TextsNext
  <2> QED
    BY <2>1, NoLineStep, NextInv
<1>3. J => UnreadUntouched
  BY DEF NoCommandLine, Inv, Behindhand, UnreadUntouched
<1> QED
  BY <1>1, <1>2, <1>3, PTL DEF TextsSpec

-----------------------------------------------------------------------------
(* Reports. *)

Byte == (UNION {Range(t) : t \in Lead \cup Message \cup Extra}) \cup {";", " "}

\* What is reported is made of bytes.
LEMMA TextsAreBytes == \A t \in Lead \cup Message \cup Extra : t \in Seq(Byte)
<1> SUFFICES ASSUME NEW t \in Lead \cup Message \cup Extra PROVE t \in Seq(Byte)
  OBVIOUS
<1>1. t \in Seq(Range(t))
  BY ReportsAssumption
<1>2. Range(t) \subseteq Byte
  BY DEF Byte
<1> QED
  BY <1>1, <1>2

\* The positions of the control characters in the first n bytes of t, for every n.
Scan(upto, t) ==
  /\ upto \in [0..Len(t) -> Seq(Nat)]
  /\ upto[0] = <<>>
  /\ \A n \in 1..Len(t) :
       upto[n] = IF t[n] = M!Cntrl THEN Append(upto[n - 1], n - 1) ELSE upto[n - 1]

\* They are recorded.
LEMMA RecordFact ==
  ASSUME NEW t \in Seq(Byte), NEW m, \A j \in 1..Len(t) : m[j - 1] = t[j]
  PROVE  \E upto : Scan(upto, t) /\ M!record_cntrl_char(m, Len(t)) = upto[Len(t)]
<1> DEFINE n == Len(t)
           step == [x \in (1..n) \X Seq(Nat) |-> IF t[x[1]] = M!Cntrl THEN Append(x[2], x[1] - 1) ELSE x[2]]
<1>0. n = Len(t) /\ n \in Nat /\ <<>> \in Seq(Nat)
  OBVIOUS
<1>1. step \in [(1..n) \X Seq(Nat) -> Seq(Nat)]
  OBVIOUS
<1>2. \A k \in 1..n, s \in Seq(Nat) : step[<<k, s>>] = IF t[k] = M!Cntrl THEN Append(s, k - 1) ELSE s
  OBVIOUS
<1> HIDE DEF step, n
<1>3. PICK u \in [0..n -> Seq(Nat)] : Steps(u, <<>>, n, step)
  BY <1>0, <1>1, RecursionExists
<1>4. \A k \in 1..n : u[k] = IF t[k] = M!Cntrl THEN Append(u[k - 1], k - 1) ELSE u[k - 1]
  <2> TAKE k \in 1..n
  <2>1. u[k - 1] \in Seq(Nat)
    BY <1>0
  <2> QED
    BY <1>2, <1>3, <2>1 DEF Steps
<1>5. u[0] = <<>>
  BY <1>3 DEF Steps
<1>6. Scan(u, t)
  BY <1>0, <1>3, <1>4, <1>5 DEF Scan
<1> DEFINE F(g) == g = [k \in 0..n |-> IF k = 0 THEN <<>>
                                       ELSE IF m[k - 1] = M!Cntrl THEN Append(g[k - 1], k - 1) ELSE g[k - 1]]
           c == CHOOSE g : F(g)
<1>7. F(u)
  <2>1. u = [k \in 0..n |-> u[k]]
    OBVIOUS
  <2>2. ASSUME NEW k \in 0..n
        PROVE  u[k] = IF k = 0 THEN <<>>
                      ELSE IF m[k - 1] = M!Cntrl THEN Append(u[k - 1], k - 1) ELSE u[k - 1]
    <3>1. CASE k = 0
      BY <1>5, <3>1
    <3>2. CASE k # 0
      <4>1. k \in 1..n
        BY <1>0, <3>2
      <4>2. m[k - 1] = t[k]
        BY <1>0, <4>1
      <4>3. u[k] = IF t[k] = M!Cntrl THEN Append(u[k - 1], k - 1) ELSE u[k - 1]
        BY <1>4, <4>1
      <4> QED
        BY <3>2, <4>2, <4>3
    <3> QED
      BY <3>1, <3>2
  <2> QED
    BY <2>1, <2>2
<1>8. F(c)
  BY <1>7, Zenon
<1>9. M!record_cntrl_char(m, n) = c[n]
  BY Zenon DEF M!record_cntrl_char
<1>10. /\ c[0] = <<>>
       /\ \A k \in 1..n : c[k] = IF t[k] = M!Cntrl THEN Append(c[k - 1], k - 1) ELSE c[k - 1]
  <2>1. \A k \in 0..n : c[k] = IF k = 0 THEN <<>>
                              ELSE IF m[k - 1] = M!Cntrl THEN Append(c[k - 1], k - 1) ELSE c[k - 1]
    BY <1>8
  <2> HIDE DEF F, c
  <2>2. ASSUME NEW k \in 1..n
        PROVE  c[k] = IF t[k] = M!Cntrl THEN Append(c[k - 1], k - 1) ELSE c[k - 1]
    <3>1. k \in 0..n /\ k # 0 /\ m[k - 1] = t[k]
      BY <1>0
    <3> QED
      BY <2>1, <3>1
  <2>3. 0 \in 0..n
    BY <1>0
  <2> QED
    BY <2>1, <2>2, <2>3
<1> HIDE DEF F, c
<1> DEFINE T == {k \in Nat : k \in 0..n => c[k] = u[k]}
<1>11. 0 \in T
  BY <1>5, <1>10
<1>12. ASSUME NEW k \in Nat, k \in T PROVE k + 1 \in T
  <2> SUFFICES ASSUME k + 1 \in 0..n PROVE c[k + 1] = u[k + 1]
    OBVIOUS
  <2>1. k + 1 \in 1..n /\ (k + 1) - 1 = k /\ k \in 0..n
    BY <1>0
  <2>2. c[k] = u[k]
    BY <1>12, <2>1
  <2>3. c[k + 1] = IF t[k + 1] = M!Cntrl THEN Append(c[(k + 1) - 1], (k + 1) - 1) ELSE c[(k + 1) - 1]
    BY <1>10, <2>1
  <2>4. u[k + 1] = IF t[k + 1] = M!Cntrl THEN Append(u[(k + 1) - 1], (k + 1) - 1) ELSE u[(k + 1) - 1]
    BY <1>4, <2>1
  <2> QED
    BY <2>1, <2>2, <2>3, <2>4
<1> HIDE DEF T
<1>13. n \in T
  BY <1>0, <1>11, <1>12, NatSetInduction
<1> QED
  BY <1>0, <1>6, <1>9, <1>13 DEF T

\* Of the first n bytes, all control characters are recorded and nothing else, in order; what
\* is recorded of fewer bytes is the beginning.
RecordedOf(c, t, n) ==
  /\ c \in Seq(Nat)
  /\ \A q \in 1..Len(c) : c[q] < n /\ t[c[q] + 1] = M!Cntrl
  /\ \A p, q \in 1..Len(c) : p < q => c[p] < c[q]
  /\ \A x \in 1..n : t[x] = M!Cntrl => \E q \in 1..Len(c) : c[q] = x - 1
Begins(upto, n, j) ==
  /\ Len(upto[j]) <= Len(upto[n])
  /\ \A q \in 1..Len(upto[j]) : upto[n][q] = upto[j][q]
  /\ \A q \in Len(upto[j]) + 1..Len(upto[n]) : upto[n][q] >= j

LEMMA ScanFact ==
  ASSUME NEW t \in Seq(Byte), NEW upto, Scan(upto, t)
  PROVE  \A n \in 0..Len(t) : RecordedOf(upto[n], t, n) /\ \A j \in 0..n : Begins(upto, n, j)
<1> DEFINE Good(n) == RecordedOf(upto[n], t, n) /\ \A j \in 0..n : Begins(upto, n, j)
           T == {n \in Nat : n <= Len(t) => Good(n)}
<1>0. Len(t) \in Nat
  OBVIOUS
<1>1. 0 \in T
  <2>1. upto[0] = <<>>
    BY DEF Scan
  <2>2. upto[0] \in Seq(Nat) /\ Len(upto[0]) = 0
    BY <2>1
  <2>3. RecordedOf(upto[0], t, 0)
    BY <2>2 DEF RecordedOf
  <2>4. \A j \in 0..0 : Begins(upto, 0, j)
    BY <2>2 DEF Begins
  <2> QED
    BY <2>3, <2>4
<1>2. ASSUME NEW n \in Nat, n \in T PROVE n + 1 \in T
  <2> SUFFICES ASSUME n + 1 <= Len(t) PROVE Good(n + 1)
    OBVIOUS
  <2>1. RecordedOf(upto[n], t, n) /\ \A j \in 0..n : Begins(upto, n, j)
    BY <1>0, <1>2
  <2>2. n + 1 \in 1..Len(t) /\ (n + 1) - 1 = n
    BY <1>0
  <2>3. upto[n + 1] = IF t[n + 1] = M!Cntrl THEN Append(upto[n], n) ELSE upto[n]
    BY <2>2 DEF Scan
  <2> DEFINE c == upto[n]
             d == upto[n + 1]
  <2>4. /\ c \in Seq(Nat)
        /\ \A q \in 1..Len(c) : c[q] < n /\ t[c[q] + 1] = M!Cntrl
        /\ \A p, q \in 1..Len(c) : p < q => c[p] < c[q]
        /\ \A x \in 1..n : t[x] = M!Cntrl => \E q \in 1..Len(c) : c[q] = x - 1
    BY <2>1 DEF RecordedOf
  <2>5. ASSUME NEW j \in 0..n
        PROVE  /\ Len(upto[j]) \in Nat
               /\ Len(upto[j]) <= Len(c)
               /\ \A q \in 1..Len(upto[j]) : c[q] = upto[j][q]
               /\ \A q \in Len(upto[j]) + 1..Len(c) : c[q] >= j
    <3>1. upto[j] \in Seq(Nat)
      BY <1>0 DEF Scan
    <3> QED
      BY <2>1, <3>1 DEF Begins
  <2>6. CASE t[n + 1] = M!Cntrl
    <3>1. /\ d \in Seq(Nat) /\ Len(d) = Len(c) + 1 /\ Len(c) \in Nat
          /\ \A q \in 1..Len(c) : d[q] = c[q]
          /\ d[Len(c) + 1] = n
      BY <2>3, <2>4, <2>6
    <3> HIDE DEF c, d
    <3>2. RecordedOf(upto[n + 1], t, n + 1)
      <4>1. ASSUME NEW q \in 1..Len(d) PROVE d[q] < n + 1 /\ t[d[q] + 1] = M!Cntrl
        <5>1. CASE q = Len(c) + 1
          BY <2>6, <3>1, <5>1
        <5>2. CASE q # Len(c) + 1
          <6>1. q \in 1..Len(c)
            BY <3>1, <5>2
          <6>2. c[q] < n /\ t[c[q] + 1] = M!Cntrl /\ c[q] \in Nat /\ d[q] = c[q]
            BY <2>4, <3>1, <6>1, SMTT(30)
          <6> QED
            BY <6>2
        <5> QED
          BY <5>1, <5>2
      <4>2. ASSUME NEW p \in 1..Len(d), NEW q \in 1..Len(d), p < q PROVE d[p] < d[q]
        <5>1. p \in 1..Len(c) /\ d[p] = c[p] /\ c[p] < n
          BY <2>4, <3>1, <4>2, SMTT(30)
        <5>2. CASE q = Len(c) + 1
          BY <3>1, <5>1, <5>2
        <5>3. CASE q # Len(c) + 1
          <6>1. q \in 1..Len(c) /\ d[q] = c[q]
            BY <3>1, <5>3
          <6>2. c[p] < c[q]
            BY <2>4, <4>2, <5>1, <6>1
          <6> QED
            BY <5>1, <6>1, <6>2
        <5> QED
          BY <5>2, <5>3
      <4>3. ASSUME NEW x \in 1..n + 1, t[x] = M!Cntrl PROVE \E q \in 1..Len(d) : d[q] = x - 1
        <5>1. CASE x = n + 1
          BY <3>1, <5>1
        <5>2. CASE x # n + 1
          <6>1. PICK q \in 1..Len(c) : c[q] = x - 1
            BY <2>4, <4>3, <5>2
          <6> QED
            BY <3>1, <6>1
        <5> QED
          BY <5>1, <5>2
      <4> QED
        BY <3>1, <4>1, <4>2, <4>3 DEF RecordedOf, d
    <3>3. ASSUME NEW j \in 0..n + 1 PROVE Begins(upto, n + 1, j)
      <4>1. CASE j = n + 1
        BY <3>1, <4>1 DEF Begins, d
      <4>2. CASE j # n + 1
        <5>1. j \in 0..n
          BY <4>2
        <5>2. /\ Len(upto[j]) \in Nat
              /\ Len(upto[j]) <= Len(c)
              /\ \A q \in 1..Len(upto[j]) : c[q] = upto[j][q]
              /\ \A q \in Len(upto[j]) + 1..Len(c) : c[q] >= j
          BY <2>5, <5>1
        <5>3. Len(upto[j]) <= Len(d) /\ \A q \in 1..Len(upto[j]) : d[q] = upto[j][q]
          BY <3>1, <5>2
        <5>4. ASSUME NEW q \in Len(upto[j]) + 1..Len(d) PROVE d[q] >= j
          <6>1. CASE q = Len(c) + 1
            BY <3>1, <5>1, <6>1
          <6>2. CASE q # Len(c) + 1
            <7>1. q \in Len(upto[j]) + 1..Len(c) /\ q \in 1..Len(c)
              BY <3>1, <5>2, <6>2
            <7> QED
              BY <3>1, <5>2, <7>1
          <6> QED
            BY <6>1, <6>2
        <5> QED
          BY <5>3, <5>4 DEF Begins, d
      <4> QED
        BY <4>1, <4>2
    <3> QED
      BY <3>2, <3>3
  <2>7. CASE t[n + 1] # M!Cntrl
    <3>1. upto[n + 1] = c
      BY <2>3, <2>7
    <3> HIDE DEF c
    <3>2. RecordedOf(upto[n + 1], t, n + 1)
      <4>1. \A q \in 1..Len(c) : c[q] < n + 1 /\ t[c[q] + 1] = M!Cntrl
        <5>1. \A q \in 1..Len(c) : c[q] \in Nat
          BY <2>4
        <5> QED
          BY <2>4, <5>1
      <4>2. ASSUME NEW x \in 1..n + 1, t[x] = M!Cntrl PROVE \E q \in 1..Len(c) : c[q] = x - 1
        <5>1. x \in 1..n
          BY <2>7, <4>2
        <5> QED
          BY <2>4, <4>2, <5>1
      <4> QED
        BY <2>4, <3>1, <4>1, <4>2 DEF RecordedOf
    <3>3. ASSUME NEW j \in 0..n + 1 PROVE Begins(upto, n + 1, j)
      <4>1. CASE j = n + 1
        BY <2>4, <3>1, <4>1 DEF Begins
      <4>2. CASE j # n + 1
        BY <2>5, <3>1, <4>2 DEF Begins
      <4> QED
        BY <4>1, <4>2
    <3> QED
      BY <3>2, <3>3
  <2> QED
    BY <2>6, <2>7
<1> HIDE DEF T, Good
<1>3. Nat \subseteq T
  BY <1>1, <1>2, NatSetInduction
<1> QED
  BY <1>0, <1>3 DEF T, Good

\* A sequence behind another.
LEMMA ConcatFact ==
  ASSUME NEW D, NEW s \in Seq(D), NEW t \in Seq(D)
  PROVE  /\ s \o t \in Seq(D) /\ Len(s \o t) = Len(s) + Len(t) /\ Len(s) \in Nat /\ Len(t) \in Nat
         /\ \A x \in 1..Len(s) : (s \o t)[x] = s[x]
         /\ \A x \in 1..Len(t) : (s \o t)[Len(s) + x] = t[x]
OBVIOUS

\* The array, when the control characters behind the k-th are replaced: what is before the
\* next one is in its place, what is between those replaced is as far behind as they need.
Formatted(m, t, c, k) ==
  /\ DOMAIN m = 0..Size - 1
  /\ \A j \in 0..Len(t) - 1 : (k < Len(c) => j < c[k + 1]) => m[j] = t[j + 1]
  /\ \A q \in k + 1..Len(c), j \in 0..Len(t) - 1 :
       c[q] < j /\ (q < Len(c) => j < c[q + 1]) => m[j + 2 * q] = t[j + 1]
  /\ \A q \in k + 1..Len(c), h \in 1..3 : m[c[q] + 2 * q - 3 + h] = M!Replacement[h]

\* One more is replaced.
LEMMA FormatStep ==
  ASSUME NEW t \in Seq(Byte), NEW c, RecordedOf(c, t, Len(t)), Len(t) + 2 * Len(c) < Size,
         NEW k \in 1..Len(c), NEW m, Formatted(m, t, c, k),
         NEW o, o = 2 * k, NEW last, last = IF k = Len(c) THEN Len(t) - 1 ELSE c[k + 1] - 1,
         NEW moved, moved = [j \in DOMAIN m |-> IF j \in c[k] + 1 + o..last + o THEN m[j - o] ELSE m[j]]
  PROVE  Formatted(M!Put(moved, c[k] + 1 + o - M!replen, M!Replacement), t, c, k - 1)
<1> DEFINE n == Len(t)
           l == Len(c)
           w == M!Put(moved, c[k] + 1 + o - M!replen, M!Replacement)
           a == c[k]
<1>1. n \in Nat /\ l \in Nat /\ Size \in Nat /\ n + 2 * l < Size /\ k \in 1..l /\ o = 2 * k
  BY ReportsAssumption DEF RecordedOf
<1>2. /\ \A q \in 1..l : c[q] \in Nat /\ c[q] < n
      /\ \A p, q \in 1..l : p < q => c[p] < c[q]
  BY SMTT(30) DEF RecordedOf
<1>3. /\ DOMAIN m = 0..Size - 1
      /\ \A j \in 0..n - 1 : (k < l => j < c[k + 1]) => m[j] = t[j + 1]
      /\ \A q \in k + 1..l, j \in 0..n - 1 : c[q] < j /\ (q < l => j < c[q + 1]) => m[j + 2 * q] = t[j + 1]
      /\ \A q \in k + 1..l, h \in 1..3 : m[c[q] + 2 * q - 3 + h] = M!Replacement[h]
  BY DEF Formatted
<1>4. /\ a \in Nat /\ a < n /\ last \in Int /\ a <= last /\ last < n
      /\ k < l => c[k + 1] \in Nat /\ a < c[k + 1] /\ last = c[k + 1] - 1
      /\ k = l => last = n - 1
  <2>1. a \in Nat /\ a < n
    BY <1>2
  <2>2. k < l => c[k + 1] \in Nat /\ a < c[k + 1] /\ c[k + 1] < n
    <3> SUFFICES ASSUME k < l PROVE c[k + 1] \in Nat /\ a < c[k + 1] /\ c[k + 1] < n
      OBVIOUS
    <3>1. k + 1 \in 1..l /\ k < k + 1
      BY <1>1
    <3> QED
      BY <1>2, <3>1
  <2> HIDE DEF a
  <2> QED
    BY <1>1, <2>1, <2>2
<1>5. M!replen = 3 /\ DOMAIN M!Replacement = 1..3
  BY DEF M!replen, M!Replacement
<1>6. /\ DOMAIN w = 0..Size - 1
      /\ \A j \in 0..Size - 1 :
           w[j] = IF j \in a + o - 2..a + o THEN M!Replacement[j - (a + o - 2) + 1]
                  ELSE IF j \in a + 1 + o..last + o THEN m[j - o] ELSE m[j]
  <2>1. Len(M!Replacement) = 3 /\ a + 1 + o - M!replen = a + o - 2 /\ (a + o - 2) + 3 - 1 = a + o
    BY <1>1, <1>4, <1>5 DEF M!Replacement
  <2>2. w = [j \in DOMAIN moved |-> IF j \in a + o - 2..a + o THEN M!Replacement[j - (a + o - 2) + 1] ELSE moved[j]]
    BY <2>1 DEF M!Put
  <2> QED
    BY <1>3, <2>2
<1>7. \A q \in k + 1..l : c[q] >= last + 1 /\ c[q] \in Nat /\ q \in Nat /\ c[q] < n
  <2> TAKE q \in k + 1..l
  <2>1. q \in 1..l /\ k < l /\ k + 1 \in 1..l
    BY <1>1
  <2>2. c[k + 1] <= c[q] /\ c[q] \in Nat /\ c[q] < n
    <3>1. CASE q = k + 1
      BY <1>2, <2>1, <3>1
    <3>2. CASE q # k + 1
      <4>1. k + 1 < q
        BY <1>1, <3>2
      <4>2. c[k + 1] < c[q] /\ c[k + 1] \in Nat
        BY <1>2, <2>1, <4>1
      <4> QED
        BY <1>2, <2>1, <4>2
    <3> QED
      BY <3>1, <3>2
  <2> QED
    BY <1>4, <2>1, <2>2
<1> HIDE DEF n, l, w, a
<1>8. ASSUME NEW j \in 0..n - 1, j < a PROVE w[j] = t[j + 1]
  <2>1. j \in 0..Size - 1 /\ j \notin a + o - 2..a + o /\ j \notin a + 1 + o..last + o
    BY <1>1, <1>4, <1>8
  <2>2. k < l => j < c[k + 1]
    BY <1>4, <1>8
  <2> QED
    BY <1>3, <1>6, <2>1, <2>2
<1>9. ASSUME NEW q \in k..l, NEW j \in 0..n - 1, c[q] < j, q < l => j < c[q + 1]
      PROVE  w[j + 2 * q] = t[j + 1]
  <2>1. CASE q = k
    <3>1. a < j /\ j <= last
      BY <1>1, <1>4, <1>9, <2>1 DEF a
    <3>2. j + o \in 0..Size - 1 /\ j + o \notin a + o - 2..a + o /\ j + o \in a + 1 + o..last + o /\ (j + o) - o = j
      BY <1>1, <1>4, <3>1
    <3>3. w[j + o] = m[j]
      BY <1>6, <3>2
    <3>4. m[j] = t[j + 1]
      BY <1>1, <1>3, <1>9, <2>1
    <3> QED
      BY <1>1, <2>1, <3>3, <3>4
  <2>2. CASE q # k
    <3>1. q \in k + 1..l
      BY <1>1, <2>2
    <3>2. j > last + 1
      BY <1>4, <1>7, <1>9, <3>1
    <3>3. j + 2 * q \in 0..Size - 1 /\ j + 2 * q \notin a + o - 2..a + o /\ j + 2 * q \notin a + 1 + o..last + o
      BY <1>1, <1>4, <3>1, <3>2, SMTT(30)
    <3>4. w[j + 2 * q] = m[j + 2 * q]
      BY <1>6, <3>3
    <3> QED
      BY <1>3, <1>9, <3>1, <3>4
  <2> QED
    BY <2>1, <2>2
<1>10. ASSUME NEW q \in k..l, NEW h \in 1..3 PROVE w[c[q] + 2 * q - 3 + h] = M!Replacement[h]
  <2>1. CASE q = k
    <3>1. a + o - 3 + h \in 0..Size - 1 /\ a + o - 3 + h \in a + o - 2..a + o /\ (a + o - 3 + h) - (a + o - 2) + 1 = h
      BY <1>1, <1>4
    <3>2. w[a + o - 3 + h] = M!Replacement[h]
      BY <1>6, <3>1
    <3> QED
      BY <1>1, <2>1, <3>2 DEF a
  <2>2. CASE q # k
    <3>1. q \in k + 1..l /\ q >= k + 1
      BY <1>1, <2>2
    <3> DEFINE x == c[q]
               y == x + 2 * q - 3 + h
    <3>2. x >= last + 1 /\ x \in Nat /\ x < n
      BY <1>7, <3>1
    <3>3. y \in 0..Size - 1 /\ y \notin a + o - 2..a + o /\ y \notin a + 1 + o..last + o
      <4> HIDE DEF x
      <4>1. y = x + 2 * q - 3 + h
        OBVIOUS
      <4> HIDE DEF y
      <4>2. q \in Nat /\ k + 1 <= q /\ q <= l /\ k \in Nat
        BY <1>1, <3>1
      <4>3. y \in Int /\ last + o < y /\ y < Size /\ a + o < y
        <5>1. /\ x \in Nat /\ last \in Int /\ o \in Nat /\ h \in Nat /\ n \in Nat /\ l \in Nat /\ Size \in Nat /\ a \in Nat
              /\ last + 1 <= x /\ x < n /\ 1 <= h /\ h <= 3 /\ n + 2 * l < Size /\ o = 2 * k /\ a <= last
          BY <1>1, <1>4, <3>2
        <5>2. y \in Int
          BY <4>1, <4>2, <5>1
        <5>3. last + o < y
          BY <4>1, <4>2, <5>1
        <5>4. y < Size
          BY <4>1, <4>2, <5>1
        <5>5. a + o < y
          BY <5>1, <5>2, <5>3
        <5> QED
          BY <5>2, <5>3, <5>4, <5>5
      <4>4. 0 <= y
        BY <1>1, <1>4, <4>3
      <4> QED
        BY <1>1, <1>4, <4>3, <4>4
    <3>4. w[y] = m[y]
      <4> HIDE DEF y
      <4> QED
        BY <1>6, <3>3
    <3> QED
      BY <1>3, <3>1, <3>4
  <2> QED
    BY <2>1, <2>2
<1>11. (k - 1) + 1 = k /\ k - 1 < l
  BY <1>1
<1> DEFINE b == k - 1
<1>12. b + 1 = k /\ b < l /\ c[b + 1] = a
  BY <1>11 DEF a
<1> HIDE DEF b
<1>13. Formatted(w, t, c, b)
  <2>1. \A j \in 0..n - 1 : (b < l => j < c[b + 1]) => w[j] = t[j + 1]
    BY <1>8, <1>12
  <2>2. \A q \in b + 1..l, j \in 0..n - 1 : c[q] < j /\ (q < l => j < c[q + 1]) => w[j + 2 * q] = t[j + 1]
    BY <1>9, <1>12
  <2>3. \A q \in b + 1..l, h \in 1..3 : w[c[q] + 2 * q - 3 + h] = M!Replacement[h]
    BY <1>10, <1>12
  <2> QED
    BY <1>6, <2>1, <2>2, <2>3 DEF Formatted, n, l
<1> QED
  BY <1>13 DEF w, b, a

\* The line in pieces, with r for each control character.
Glyph == Byte \cup {"ef", "bf", "bd", "?"}
Pieces(t, r) == [j \in DOMAIN t |-> IF t[j] = M!Cntrl THEN r ELSE <<t[j]>>]

LEMMA PiecesFact ==
  ASSUME NEW t \in Seq(Byte), NEW r \in Seq(Glyph)
  PROVE  /\ Pieces(t, r) \in Seq(Seq(Glyph)) /\ Len(Pieces(t, r)) = Len(t)
         /\ \A j \in 1..Len(t) : Pieces(t, r)[j] = IF t[j] = M!Cntrl THEN r ELSE <<t[j]>>
<1>1. \A j \in 1..Len(t) : t[j] \in Glyph
  BY DEF Glyph
<1>2. \A j \in 1..Len(t) : <<t[j]>> \in Seq(Glyph)
  BY <1>1
<1> DEFINE p == [j \in 1..Len(t) |-> IF t[j] = M!Cntrl THEN r ELSE <<t[j]>>]
<1>3. p \in [1..Len(t) -> Seq(Glyph)] /\ Len(t) \in Nat
  BY <1>2
<1>4. Pieces(t, r) = p
  BY DEF Pieces
<1>5. \A j \in 1..Len(t) : p[j] = IF t[j] = M!Cntrl THEN r ELSE <<t[j]>>
  OBVIOUS
<1> HIDE DEF p
<1>6. p \in Seq(Seq(Glyph)) /\ Len(p) = Len(t)
  BY <1>3
<1> QED
  BY <1>4, <1>5, <1>6

\* With the replacement, the line is as the array then has it.
LEMMA WideFact ==
  ASSUME NEW t \in Seq(Byte), NEW upto, Scan(upto, t), NEW m, NEW fits \in BOOLEAN,
         fits => Formatted(m, t, upto[Len(t)], 0) /\ Len(t) + 2 * Len(upto[Len(t)]) < Size
  PROVE  /\ FlattenSeq(Pieces(t, M!Replacement)) \in Seq(Glyph)
         /\ Len(FlattenSeq(Pieces(t, M!Replacement))) = Len(t) + 2 * Len(upto[Len(t)])
         /\ fits => \A x \in 1..Len(FlattenSeq(Pieces(t, M!Replacement))) :
                      FlattenSeq(Pieces(t, M!Replacement))[x] = m[x - 1]
<1> DEFINE s == Pieces(t, M!Replacement)
           l == Len(t)
           c == upto[l]
<1>0. l = Len(t) /\ l \in Nat /\ M!Replacement \in Seq(Glyph) /\ Len(M!Replacement) = 3
  BY DEF M!Replacement, Glyph
<1>1. /\ s \in Seq(Seq(Glyph)) /\ Len(s) = l
      /\ \A j \in 1..l : s[j] = IF t[j] = M!Cntrl THEN M!Replacement ELSE <<t[j]>>
  BY <1>0, PiecesFact
<1> HIDE DEF s
<1>2. PICK f \in [0..Len(s) -> Seq(Glyph)] : Joins(f, s) /\ FlattenSeq(s) = f[Len(s)]
  BY <1>1, FlattenFact
<1> HIDE DEF l
<1>3. /\ f \in [0..l -> Seq(Glyph)] /\ f[0] = <<>> /\ FlattenSeq(s) = f[l]
      /\ \A n \in 1..l : f[n] = f[n - 1] \o s[n]
  BY <1>1, <1>2 DEF Joins
<1>4. /\ \A n \in 0..l : upto[n] \in Seq(Nat) /\ RecordedOf(upto[n], t, n) /\ Begins(upto, l, n)
      /\ upto[0] = <<>>
      /\ \A n \in 1..l : upto[n] = IF t[n] = M!Cntrl THEN Append(upto[n - 1], n - 1) ELSE upto[n - 1]
  <2>1. \A n \in 0..l : upto[n] \in Seq(Nat)
    BY <1>0 DEF Scan
  <2>2. \A n \in 0..Len(t) : RecordedOf(upto[n], t, n) /\ \A j \in 0..n : Begins(upto, n, j)
    BY ScanFact
  <2>3. \A n \in 0..l : RecordedOf(upto[n], t, n) /\ Begins(upto, l, n)
    <3> TAKE n \in 0..l
    <3>1. n \in 0..Len(t) /\ l \in 0..Len(t) /\ n \in 0..l
      BY <1>0
    <3> QED
      BY <2>2, <3>1
  <2> QED
    BY <1>0, <2>1, <2>3 DEF Scan
<1> DEFINE Good(n) == /\ Len(f[n]) = n + 2 * Len(upto[n])
                      /\ fits => \A x \in 1..Len(f[n]) : f[n][x] = m[x - 1]
           T == {n \in Nat : n <= l => Good(n)}
<1>5. 0 \in T
  BY <1>3, <1>4
<1>6. ASSUME NEW n \in Nat, n \in T PROVE n + 1 \in T
  <2> SUFFICES ASSUME n + 1 <= l PROVE Good(n + 1)
    OBVIOUS
  <2>1. n \in 0..l /\ n + 1 \in 0..l /\ n + 1 \in 1..l /\ (n + 1) - 1 = n
    BY <1>0
  <2> DEFINE r == Len(upto[n])
  <2>2. r \in Nat /\ Len(f[n]) = n + 2 * r /\ f[n] \in Seq(Glyph)
    BY <1>0, <1>3, <1>4, <1>6, <2>1
  <2>3. fits => \A x \in 1..n + 2 * r : f[n][x] = m[x - 1]
    <3>1. n \in T /\ n <= l
      BY <1>0, <1>6, <2>1
    <3>2. Good(n)
      BY <3>1
    <3> HIDE DEF r
    <3> QED
      BY <2>2, <3>2
  <2>4. f[n + 1] = f[n] \o s[n + 1]
    BY <1>3, <2>1
  <2>5. upto[n + 1] = IF t[n + 1] = M!Cntrl THEN Append(upto[n], n) ELSE upto[n]
    BY <1>4, <2>1
  <2>6. /\ Len(upto[n + 1]) <= Len(c) /\ Len(c) \in Nat
        /\ \A q \in 1..Len(upto[n + 1]) : c[q] = upto[n + 1][q]
        /\ \A q \in Len(upto[n + 1]) + 1..Len(c) : c[q] >= n + 1
    <3>1. Begins(upto, l, n + 1) /\ l \in 0..l
      BY <1>0, <1>4, <2>1
    <3>2. c \in Seq(Nat)
      BY <1>4, <3>1
    <3> QED
      BY <3>1, <3>2 DEF Begins
  <2>7. fits => /\ \A j \in 0..l - 1 : (0 < Len(c) => j < c[0 + 1]) => m[j] = t[j + 1]
                /\ \A q \in 0 + 1..Len(c), j \in 0..l - 1 :
                     c[q] < j /\ (q < Len(c) => j < c[q + 1]) => m[j + 2 * q] = t[j + 1]
                /\ \A q \in 0 + 1..Len(c), h \in 1..3 : m[c[q] + 2 * q - 3 + h] = M!Replacement[h]
    BY <1>0 DEF Formatted
  <2> HIDE DEF c
  <2>10. r = Len(upto[n])
    OBVIOUS
  <2> HIDE DEF r, Good, T
  <2>8. CASE t[n + 1] = M!Cntrl
    <3>1. s[n + 1] = M!Replacement
      BY <1>1, <2>1, <2>8
    <3>2. /\ Len(f[n + 1]) = n + 2 * r + 3
          /\ \A x \in 1..n + 2 * r : f[n + 1][x] = f[n][x]
          /\ \A x \in 1..3 : f[n + 1][n + 2 * r + x] = M!Replacement[x]
      <4> DEFINE g == f[n]
                 e == M!Replacement
      <4>1. g \in Seq(Glyph) /\ Len(g) = n + 2 * r /\ e \in Seq(Glyph) /\ Len(e) = 3 /\ f[n + 1] = g \o e
        BY <1>0, <2>2, <2>4, <3>1
      <4> HIDE DEF g, e
      <4>2. /\ Len(g \o e) = Len(g) + Len(e)
            /\ \A x \in 1..Len(g) : (g \o e)[x] = g[x]
            /\ \A x \in 1..Len(e) : (g \o e)[Len(g) + x] = e[x]
        <5>1. g \in Seq(Glyph) /\ e \in Seq(Glyph)
          BY <4>1
        <5> QED
          BY <5>1, ConcatFact
      <4> QED
        BY <4>1, <4>2 DEF g, e
    <3>3. Len(upto[n + 1]) = r + 1 /\ upto[n + 1][r + 1] = n
      <4>1. upto[n] \in Seq(Nat) /\ upto[n + 1] = Append(upto[n], n)
        BY <1>4, <2>1, <2>5, <2>8
      <4> QED
        BY <2>2, <2>10, <4>1
    <3>4. c[r + 1] = n /\ r + 1 \in 0 + 1..Len(c)
      BY <2>2, <2>6, <3>3, SMTT(30)
    <3>5. ASSUME fits, NEW x \in 1..n + 2 * r + 3 PROVE f[n + 1][x] = m[x - 1]
      <4>1. CASE x <= n + 2 * r
        <5>1. x \in 1..n + 2 * r
          BY <2>2, <4>1
        <5> QED
          BY <2>3, <3>2, <3>5, <5>1
      <4>2. CASE x > n + 2 * r
        <5> DEFINE h == x - (n + 2 * r)
        <5>1. h \in 1..3 /\ n + 2 * r + h = x
          BY <2>2, <4>2
        <5>2. c[r + 1] + 2 * (r + 1) - 3 + h = x - 1
          BY <2>2, <3>4, <5>1
        <5> HIDE DEF h
        <5>3. m[c[r + 1] + 2 * (r + 1) - 3 + h] = M!Replacement[h]
          BY <2>7, <3>4, <3>5, <5>1
        <5>4. f[n + 1][x] = M!Replacement[h]
          BY <3>2, <5>1
        <5> QED
          BY <5>2, <5>3, <5>4
      <4> QED
        BY <2>2, <4>1, <4>2
    <3>6. n + 2 * r + 3 = (n + 1) + 2 * (r + 1)
      BY <2>2
    <3> QED
      BY <3>2, <3>3, <3>5, <3>6 DEF Good
  <2>9. CASE t[n + 1] # M!Cntrl
    <3>1. s[n + 1] = <<t[n + 1]>> /\ t[n + 1] \in Glyph
      <4>1. n + 1 \in 1..Len(t)
        BY <1>0, <2>1
      <4> QED
        BY <1>1, <2>1, <2>9, <4>1 DEF Glyph
    <3> DEFINE e == <<t[n + 1]>>
    <3>2. e \in Seq(Glyph) /\ Len(e) = 1 /\ e[1] = t[n + 1]
      BY <3>1
    <3>3. f[n + 1] = f[n] \o e
      BY <2>4, <3>1
    <3> HIDE DEF e
    <3>4. /\ Len(f[n + 1]) = n + 2 * r + 1
          /\ \A x \in 1..n + 2 * r : f[n + 1][x] = f[n][x]
          /\ f[n + 1][n + 2 * r + 1] = t[n + 1]
      <4> DEFINE g == f[n]
      <4>1. g \in Seq(Glyph) /\ Len(g) = n + 2 * r /\ f[n + 1] = g \o e
        BY <2>2, <3>3
      <4> HIDE DEF g
      <4>2. /\ Len(g \o e) = Len(g) + Len(e)
            /\ \A x \in 1..Len(g) : (g \o e)[x] = g[x]
            /\ \A x \in 1..Len(e) : (g \o e)[Len(g) + x] = e[x]
        <5>1. g \in Seq(Glyph) /\ e \in Seq(Glyph)
          BY <3>2, <4>1
        <5> QED
          BY <5>1, ConcatFact
      <4> QED
        BY <3>2, <4>1, <4>2 DEF g
    <3>5. upto[n + 1] = upto[n] /\ Len(upto[n + 1]) = r
      BY <2>5, <2>9, <2>10
    <3>6. ASSUME fits PROVE m[n + 2 * r] = t[n + 1]
      <4>1. n \in 0..l - 1
        BY <1>0, <2>1
      <4>2. r < Len(c) => n < c[r + 1]
        <5> SUFFICES ASSUME r < Len(c) PROVE n < c[r + 1]
          OBVIOUS
        <5>1. r + 1 \in Len(upto[n + 1]) + 1..Len(c)
          BY <2>2, <2>6, <3>5
        <5>2. c[r + 1] >= n + 1
          BY <2>6, <5>1
        <5>3. c[r + 1] \in Nat
          <6>1. upto[l] \in Seq(Nat)
            BY <1>0, <1>4
          <6>2. r + 1 \in 1..Len(c)
            BY <2>2, <2>6
          <6> QED
            BY <6>1, <6>2 DEF c
        <5> QED
          BY <5>2, <5>3
      <4>3. CASE r = 0
        <5>1. n + 2 * r = n /\ 0 + 1 = r + 1
          BY <4>3
        <5> QED
          BY <2>7, <3>6, <4>1, <4>2, <4>3, <5>1
      <4>4. CASE r # 0
        <5>1. r \in 0 + 1..Len(c)
          BY <2>2, <2>6, <3>5, <4>4
        <5>2. c[r] < n
          <6>1. r \in 1..Len(upto[n + 1]) /\ r \in 1..Len(upto[n])
            BY <2>2, <2>10, <3>5, <4>4
          <6>2. c[r] = upto[n][r]
            BY <2>6, <3>5, <6>1
          <6>3. RecordedOf(upto[n], t, n)
            BY <1>4, <2>1
          <6> QED
            BY <6>1, <6>2, <6>3 DEF RecordedOf
        <5> QED
          BY <2>7, <3>6, <4>1, <4>2, <5>1, <5>2
      <4> QED
        BY <4>3, <4>4
    <3>7. ASSUME fits, NEW x \in 1..n + 2 * r + 1 PROVE f[n + 1][x] = m[x - 1]
      <4>1. CASE x <= n + 2 * r
        <5>1. x \in 1..n + 2 * r
          BY <2>2, <4>1
        <5> QED
          BY <2>3, <3>4, <3>7, <5>1
      <4>2. CASE x > n + 2 * r
        <5>1. x = n + 2 * r + 1 /\ x - 1 = n + 2 * r
          BY <2>2, <4>2
        <5> QED
          BY <3>4, <3>6, <3>7, <5>1
      <4> QED
        BY <2>2, <4>1, <4>2
    <3>8. n + 2 * r + 1 = (n + 1) + 2 * r
      BY <2>2
    <3> QED
      BY <3>4, <3>5, <3>7, <3>8 DEF Good
  <2> QED
    BY <2>8, <2>9
<1> HIDE DEF T
<1>7. l \in T
  BY <1>0, <1>5, <1>6, NatSetInduction
<1>8. Good(l)
  BY <1>0, <1>7 DEF T
<1> HIDE DEF Good
<1>9. f[l] \in Seq(Glyph)
  BY <1>0, <1>3
<1> QED
  BY <1>3, <1>8, <1>9 DEF Good, s, l

\* With question marks, it keeps its length.
LEMMA NarrowFact ==
  ASSUME NEW t \in Seq(Byte)
  PROVE  /\ FlattenSeq(Pieces(t, <<"?">>)) \in Seq(Glyph)
         /\ Len(FlattenSeq(Pieces(t, <<"?">>))) = Len(t)
         /\ \A x \in 1..Len(t) : FlattenSeq(Pieces(t, <<"?">>))[x] = IF t[x] = M!Cntrl THEN "?" ELSE t[x]
<1> DEFINE s == Pieces(t, <<"?">>)
           l == Len(t)
           Mark(x) == IF t[x] = M!Cntrl THEN "?" ELSE t[x]
<1>0. l = Len(t) /\ l \in Nat /\ <<"?">> \in Seq(Glyph)
  BY DEF Glyph
<1>1. s \in Seq(Seq(Glyph)) /\ Len(s) = l /\ \A j \in 1..l : s[j] = <<Mark(j)>> /\ Mark(j) \in Glyph
  <2>1. /\ s \in Seq(Seq(Glyph)) /\ Len(s) = l
        /\ \A j \in 1..l : s[j] = IF t[j] = M!Cntrl THEN <<"?">> ELSE <<t[j]>>
    BY <1>0, PiecesFact
  <2> HIDE DEF s
  <2>2. \A j \in 1..l : Mark(j) \in Glyph
    BY DEF Glyph
  <2> QED
    BY <2>1, <2>2
<1> HIDE DEF s, Mark
<1>2. PICK f \in [0..Len(s) -> Seq(Glyph)] : Joins(f, s) /\ FlattenSeq(s) = f[Len(s)]
  BY <1>1, FlattenFact
<1> HIDE DEF l
<1>3. /\ f \in [0..l -> Seq(Glyph)] /\ f[0] = <<>> /\ FlattenSeq(s) = f[l]
      /\ \A n \in 1..l : f[n] = f[n - 1] \o s[n]
  BY <1>1, <1>2 DEF Joins
<1> DEFINE Good(n) == Len(f[n]) = n /\ \A x \in 1..n : f[n][x] = Mark(x)
           T == {n \in Nat : n <= l => Good(n)}
<1>4. 0 \in T
  BY <1>3
<1>5. ASSUME NEW n \in Nat, n \in T PROVE n + 1 \in T
  <2> SUFFICES ASSUME n + 1 <= l PROVE Good(n + 1)
    OBVIOUS
  <2>1. n \in 0..l /\ n + 1 \in 1..l /\ (n + 1) - 1 = n
    BY <1>0
  <2>2. Len(f[n]) = n /\ f[n] \in Seq(Glyph) /\ \A x \in 1..n : f[n][x] = Mark(x)
    BY <1>0, <1>3, <1>5, <2>1
  <2> DEFINE e == <<Mark(n + 1)>>
  <2>3. e \in Seq(Glyph) /\ Len(e) = 1 /\ e[1] = Mark(n + 1)
    BY <1>1, <2>1
  <2>4. f[n + 1] = f[n] \o e
    BY <1>1, <1>3, <2>1
  <2> HIDE DEF e
  <2>5. /\ Len(f[n + 1]) = n + 1
        /\ \A x \in 1..n : f[n + 1][x] = f[n][x]
        /\ f[n + 1][n + 1] = Mark(n + 1)
    BY <2>2, <2>3, <2>4, ConcatFact
  <2>6. ASSUME NEW x \in 1..n + 1 PROVE f[n + 1][x] = Mark(x)
    <3>1. x = n + 1 \/ x \in 1..n
      OBVIOUS
    <3> QED
      BY <2>2, <2>5, <3>1
  <2> QED
    BY <2>5, <2>6
<1> HIDE DEF T
<1>6. l \in T
  BY <1>0, <1>4, <1>5, NatSetInduction
<1>7. Good(l)
  BY <1>0, <1>6 DEF T
<1> HIDE DEF Good
<1>8. f[l] \in Seq(Glyph)
  BY <1>0, <1>3
<1> QED
  BY <1>3, <1>7, <1>8 DEF Good, s, l, Mark

\* A text that is cut.
LEMMA CutFact ==
  ASSUME NEW t \in Seq(Byte), NEW n \in Nat
  PROVE  /\ M!Cut(t, n) \in Seq(Byte)
         /\ Len(M!Cut(t, n)) = IF Len(t) <= n THEN Len(t) ELSE n
         /\ \A x \in 1..Len(M!Cut(t, n)) : M!Cut(t, n)[x] = t[x]
<1> DEFINE l == IF Len(t) <= n THEN Len(t) ELSE n
           u == SubSeq(t, 1, l)
<1>1. l \in Nat /\ l <= Len(t)
  OBVIOUS
<1>2. M!Cut(t, n) = u
  BY DEF M!Cut, M!Least
<1> HIDE DEF l
<1>3. \A x \in 1..l : t[x] \in Byte
  BY <1>1
<1>4. /\ u \in Seq(Byte)
      /\ Len(u) = IF 1 <= l THEN l - 1 + 1 ELSE 0
      /\ \A x \in 1..l - 1 + 1 : u[x] = t[1 + x - 1]
  BY <1>1, <1>3, SubSeqProperties
<1> HIDE DEF u
<1>5. Len(u) = l
  <2>1. CASE 1 <= l
    BY <1>1, <1>4, <2>1
  <2>2. CASE ~(1 <= l)
    BY <1>1, <1>4, <2>2
  <2> QED
    BY <2>1, <2>2
<1>6. \A x \in 1..l : u[x] = t[x]
  <2> TAKE x \in 1..l
  <2>1. x \in 1..l - 1 + 1 /\ 1 + x - 1 = x
    BY <1>1
  <2> QED
    BY <1>4, <2>1
<1> QED
  BY <1>2, <1>4, <1>5, <1>6 DEF l

\* What is cut behind a text that fits is cut as one.
LEMMA CutBehind ==
  ASSUME NEW s \in Seq(Byte), NEW t \in Seq(Byte), NEW n \in Nat, Len(s) <= n
  PROVE  M!Cut(s \o t, n) = s \o M!Cut(t, n - Len(s))
<1> DEFINE st == s \o t
           k == n - Len(s)
           ct == M!Cut(t, k)
           left == M!Cut(st, n)
           right == s \o ct
<1>1. /\ st \in Seq(Byte) /\ Len(st) = Len(s) + Len(t) /\ Len(s) \in Nat /\ Len(t) \in Nat
      /\ \A x \in 1..Len(s) : st[x] = s[x]
      /\ \A x \in 1..Len(t) : st[Len(s) + x] = t[x]
  BY ConcatFact
<1>2. k \in Nat /\ k = n - Len(s)
  OBVIOUS
<1> HIDE DEF k, st
<1>3. /\ ct \in Seq(Byte) /\ Len(ct) = IF Len(t) <= k THEN Len(t) ELSE k
      /\ \A x \in 1..Len(ct) : ct[x] = t[x]
  BY <1>2, CutFact
<1>4. /\ left \in Seq(Byte) /\ Len(left) = IF Len(st) <= n THEN Len(st) ELSE n
      /\ \A x \in 1..Len(left) : left[x] = st[x]
  BY <1>1, CutFact
<1> HIDE DEF ct, left
<1>5. /\ right \in Seq(Byte) /\ Len(right) = Len(s) + Len(ct)
      /\ \A x \in 1..Len(s) : right[x] = s[x]
      /\ \A x \in 1..Len(ct) : right[Len(s) + x] = ct[x]
  <2>1. ct \in Seq(Byte)
    BY <1>3
  <2> QED
    BY <2>1, ConcatFact
<1> HIDE DEF right
<1>6. Len(left) = Len(right)
  BY <1>1, <1>2, <1>3, <1>4, <1>5
<1>7. ASSUME NEW x \in 1..Len(left) PROVE left[x] = right[x]
  <2>1. CASE x <= Len(s)
    <3>1. x \in 1..Len(s)
      BY <1>1, <2>1
    <3> QED
      BY <1>1, <1>4, <1>5, <3>1
  <2>2. CASE x > Len(s)
    <3> DEFINE y == x - Len(s)
    <3>1. y \in 1..Len(ct) /\ y \in 1..Len(t) /\ Len(s) + y = x
      BY <1>1, <1>2, <1>3, <1>4, <1>5, <1>6, <2>2
    <3> HIDE DEF y
    <3>2. right[x] = ct[y] /\ ct[y] = t[y] /\ st[x] = t[y]
      BY <1>1, <1>3, <1>5, <3>1
    <3> QED
      BY <1>4, <3>2
  <2> QED
    BY <1>1, <2>1, <2>2
<1>8. left = right
  BY <1>4, <1>5, <1>6, <1>7, SeqEqual
<1> QED
  BY <1>8 DEF left, right, st, ct, k

\* The array holds a text, and how much of it is used and left is known.
Begun(t, m, b, a) ==
  /\ t \in Seq(Byte) /\ Len(t) < Size
  /\ b = Len(t) /\ a = Size - 1 - Len(t)
  /\ DOMAIN m = 0..Size - 1
  /\ \A j \in 1..Len(t) : m[j - 1] = t[j]
  /\ \A j \in Len(t)..Size - 1 : m[j] = "junk"

LEMMA AddFact ==
  ASSUME NEW t, NEW m, NEW b, NEW a, Begun(t, m, b, a), NEW u \in Seq(Byte), Len(u) <= a
  PROVE  Begun(t \o u, M!Put(m, b, u), b + Len(u), a - Len(u))
<1> DEFINE tu == t \o u
           w == M!Put(m, b, u)
<1>1. t \in Seq(Byte) /\ Size \in Nat
  BY ReportsAssumption DEF Begun
<1>2. /\ tu \in Seq(Byte) /\ Len(tu) = Len(t) + Len(u) /\ Len(t) \in Nat /\ Len(u) \in Nat
      /\ \A x \in 1..Len(t) : tu[x] = t[x]
      /\ \A x \in 1..Len(u) : tu[Len(t) + x] = u[x]
  BY <1>1, ConcatFact
<1>3. /\ Len(t) < Size /\ b = Len(t) /\ a = Size - 1 - Len(t) /\ DOMAIN m = 0..Size - 1
      /\ \A j \in 1..Len(t) : m[j - 1] = t[j]
      /\ \A j \in Len(t)..Size - 1 : m[j] = "junk"
  BY DEF Begun
<1>4. DOMAIN w = 0..Size - 1
      /\ \A j \in 0..Size - 1 : w[j] = IF j \in b..b + Len(u) - 1 THEN u[j - b + 1] ELSE m[j]
  BY <1>3 DEF M!Put
<1> HIDE DEF tu, w
<1>5. ASSUME NEW j \in 1..Len(tu) PROVE w[j - 1] = tu[j]
  <2>1. j - 1 \in 0..Size - 1
    BY <1>1, <1>2, <1>3
  <2>2. CASE j <= Len(t)
    <3>1. j - 1 \notin b..b + Len(u) - 1 /\ j \in 1..Len(t)
      BY <1>2, <1>3, <2>2
    <3> QED
      BY <1>2, <1>3, <1>4, <2>1, <3>1
  <2>3. CASE j > Len(t)
    <3> DEFINE x == j - Len(t)
    <3>1. x \in 1..Len(u) /\ Len(t) + x = j /\ j - 1 \in b..b + Len(u) - 1 /\ (j - 1) - b + 1 = x
      BY <1>2, <1>3, <2>3
    <3> HIDE DEF x
    <3> QED
      BY <1>2, <1>4, <2>1, <3>1
  <2> QED
    BY <1>2, <2>2, <2>3
<1>6. ASSUME NEW j \in Len(tu)..Size - 1 PROVE w[j] = "junk"
  <2>1. j \in 0..Size - 1 /\ j \in Len(t)..Size - 1 /\ j \notin b..b + Len(u) - 1
    BY <1>1, <1>2, <1>3
  <2> QED
    BY <1>3, <1>4, <2>1
<1>7. Len(tu) < Size /\ b + Len(u) = Len(tu) /\ a - Len(u) = Size - 1 - Len(tu)
  BY <1>1, <1>2, <1>3
<1>8. Begun(tu, w, b + Len(u), a - Len(u))
  BY <1>2, <1>4, <1>5, <1>6, <1>7 DEF Begun
<1> QED
  BY <1>8 DEF tu, w

\* The array with question marks.
Marked(m, t) ==
  /\ DOMAIN m = 0..Size - 1
  /\ \A j \in 1..Len(t) : m[j - 1] = IF t[j] = M!Cntrl THEN "?" ELSE t[j]
  /\ \A j \in Len(t)..Size - 1 : m[j] = "junk"

LEMMA MarkFact ==
  ASSUME NEW t, NEW m, NEW b, NEW a, Begun(t, m, b, a), NEW c, RecordedOf(c, t, Len(t)),
         NEW w, w = [j \in DOMAIN m |-> IF j \in Range(c) THEN "?" ELSE m[j]]
  PROVE  Marked(w, t)
<1>1. /\ t \in Seq(Byte) /\ Size \in Nat /\ Len(t) < Size /\ DOMAIN m = 0..Size - 1
      /\ \A j \in 1..Len(t) : m[j - 1] = t[j]
      /\ \A j \in Len(t)..Size - 1 : m[j] = "junk"
  BY ReportsAssumption DEF Begun
<1>2. /\ \A q \in 1..Len(c) : c[q] \in Nat /\ c[q] < Len(t) /\ t[c[q] + 1] = M!Cntrl
      /\ \A x \in 1..Len(t) : t[x] = M!Cntrl => \E q \in 1..Len(c) : c[q] = x - 1
      /\ DOMAIN c = 1..Len(c)
  BY DEF RecordedOf
<1>3. Range(c) = {c[q] : q \in 1..Len(c)}
  BY <1>2 DEF Range
<1>4. Len(t) \in Nat
  BY <1>1
<1>5. ASSUME NEW j \in 1..Len(t) PROVE w[j - 1] = IF t[j] = M!Cntrl THEN "?" ELSE t[j]
  <2>1. j - 1 \in 0..Size - 1
    BY <1>1, <1>4
  <2>2. CASE t[j] = M!Cntrl
    <3>1. j - 1 \in Range(c)
      BY <1>2, <1>3, <2>2
    <3> QED
      BY <1>1, <2>1, <2>2, <3>1
  <2>3. CASE t[j] # M!Cntrl
    <3>1. j - 1 \notin Range(c)
      <4> SUFFICES ASSUME NEW q \in 1..Len(c), c[q] = j - 1 PROVE FALSE
        BY <1>3
      <4>1. c[q] + 1 = j
        BY <1>4
      <4> QED
        BY <1>2, <2>3, <4>1
    <3> QED
      BY <1>1, <2>1, <2>3, <3>1
  <2> QED
    BY <2>2, <2>3
<1>6. ASSUME NEW j \in Len(t)..Size - 1 PROVE w[j] = "junk"
  <2>1. j \in 0..Size - 1
    BY <1>1, <1>4
  <2>2. j \notin Range(c)
    BY <1>2, <1>3, <1>4
  <2> QED
    BY <1>1, <2>1, <2>2
<1> QED
  BY <1>1, <1>5, <1>6 DEF Marked

\* When it is to be written, the array holds the line with one or the other in the places of
\* control characters.
Finished(t, m, c, a) ==
  /\ t \in Seq(Byte) /\ Len(t) < Size
  /\ \E upto : Scan(upto, t) /\ c = upto[Len(t)]
  /\ a = Size - 1 - Len(t) - 2 * Len(c)
  /\ IF a >= 0 THEN Formatted(m, t, c, 0) ELSE Marked(m, t)

\* A function on the first numbers is a sequence.
LEMMA FunctionIsSeq ==
  ASSUME NEW S, NEW n \in Nat, NEW f \in [1..n -> S]
  PROVE  f \in Seq(S) /\ Len(f) = n
OBVIOUS

\* The line as it is to be written, when it is so long with one replacement or the other.
AsMade(wide, narrow, w) ==
  IF Len(wide) < Size THEN w = Append(wide, "newline")
  ELSE IsPrefix(narrow, w) /\ M!Cntrl \notin Range(w)

\* What is then written.
LEMMA WriteFact ==
  ASSUME NEW t, NEW m, NEW c, NEW a, Finished(t, m, c, a), NEW w,
         w = [j \in 1..Size - a |-> IF j = Size - a THEN "newline" ELSE IF j <= Size THEN m[j - 1] ELSE "outside"]
  PROVE  AsMade(FlattenSeq(Pieces(t, M!Replacement)), FlattenSeq(Pieces(t, <<"?">>)), w)
<1> DEFINE wide == FlattenSeq(Pieces(t, M!Replacement))
           narrow == FlattenSeq(Pieces(t, <<"?">>))
           len == Size - a
<1>1. t \in Seq(Byte) /\ Len(t) < Size /\ Size \in Nat
  BY ReportsAssumption DEF Finished
<1>2. PICK upto : Scan(upto, t) /\ c = upto[Len(t)]
  BY DEF Finished
<1>3. Len(c) \in Nat /\ Len(t) \in Nat
  <2>1. c \in Seq(Nat) /\ Len(t) \in Nat
    BY <1>1, <1>2 DEF Scan
  <2> QED
    BY <2>1
<1>4. a = Size - 1 - Len(t) - 2 * Len(c)
  BY DEF Finished
<1>5. /\ wide \in Seq(Glyph) /\ Len(wide) = Len(t) + 2 * Len(c)
      /\ a >= 0 => \A x \in 1..Len(wide) : wide[x] = m[x - 1]
  <2> DEFINE fits == a >= 0
  <2>1. fits \in BOOLEAN /\ (fits => Formatted(m, t, upto[Len(t)], 0) /\ Len(t) + 2 * Len(upto[Len(t)]) < Size)
    <3>1. fits => Formatted(m, t, c, 0)
      BY DEF Finished
    <3>2. fits => Len(t) + 2 * Len(c) < Size
      BY <1>1, <1>3, <1>4
    <3> QED
      BY <1>2, <3>1, <3>2
  <2> HIDE DEF fits
  <2>2. /\ wide \in Seq(Glyph) /\ Len(wide) = Len(t) + 2 * Len(upto[Len(t)])
        /\ fits => \A x \in 1..Len(wide) : wide[x] = m[x - 1]
    BY <1>1, <1>2, <2>1, WideFact
  <2> QED
    BY <1>2, <2>2 DEF fits
<1> HIDE DEF wide, len
<1>6. len \in Int /\ len = Len(t) + 2 * Len(c) + 1 /\ (Len(wide) < Size <=> a >= 0)
  BY <1>1, <1>3, <1>4, <1>5 DEF len
<1>7. DOMAIN w = 1..len
      /\ \A j \in 1..len : w[j] = IF j = len THEN "newline" ELSE IF j <= Size THEN m[j - 1] ELSE "outside"
  BY DEF len
<1>8. CASE a >= 0
  <2> DEFINE S == Glyph \cup {"newline"}
             v == Append(wide, "newline")
  <2>1. wide \in Seq(S) /\ "newline" \in S
    BY <1>5
  <2>2. /\ v \in Seq(S) /\ Len(v) = len
        /\ \A x \in 1..Len(wide) : v[x] = wide[x]
        /\ v[Len(wide) + 1] = "newline"
    <3> HIDE DEF S
    <3>1. /\ v \in Seq(S) /\ Len(v) = Len(wide) + 1
          /\ \A x \in 1..Len(wide) : v[x] = wide[x]
          /\ v[Len(wide) + 1] = "newline"
      BY <2>1, AppendProperties
    <3> QED
      BY <1>5, <1>6, <3>1
  <2> HIDE DEF v
  <2>3. ASSUME NEW j \in 1..len PROVE w[j] = v[j] /\ w[j] \in S
    <3>1. CASE j = len
      <4>1. len = Len(wide) + 1
        BY <1>5, <1>6
      <4> QED
        BY <1>7, <2>2, <3>1, <4>1
    <3>2. CASE j # len
      <4>1. j \in 1..Len(wide) /\ j <= Size
        BY <1>1, <1>3, <1>5, <1>6, <1>8, <3>2
      <4>2. w[j] = m[j - 1] /\ wide[j] = m[j - 1] /\ v[j] = wide[j]
        BY <1>5, <1>7, <1>8, <2>2, <3>2, <4>1
      <4>3. wide[j] \in S
        BY <2>1, <4>1
      <4> QED
        BY <4>2, <4>3
    <3> QED
      BY <3>1, <3>2
  <2> HIDE DEF S
  <2>4. w \in Seq(S) /\ Len(w) = len
    <3>1. len \in Nat
      BY <1>3, <1>6
    <3>2. w = [j \in 1..len |-> w[j]]
      BY <1>7 DEF len
    <3>3. w \in [1..len -> S]
      BY <2>3, <3>2
    <3> QED
      BY <3>1, <3>3, FunctionIsSeq
  <2>5. w = v
    BY <2>2, <2>3, <2>4, SeqEqual
  <2> QED
    BY <1>6, <1>8, <2>5 DEF v, wide, AsMade
<1>9. CASE ~(a >= 0)
  <2>1. Marked(m, t)
    BY <1>9 DEF Finished
  <2>2. /\ narrow \in Seq(Glyph) /\ Len(narrow) = Len(t)
        /\ \A x \in 1..Len(t) : narrow[x] = IF t[x] = M!Cntrl THEN "?" ELSE t[x]
    BY <1>1, NarrowFact
  <2> HIDE DEF narrow
  <2>3. len > Size
    BY <1>1, <1>3, <1>4, <1>6, <1>9
  <2>4. ASSUME NEW j \in 1..len PROVE w[j] # M!Cntrl /\ (j <= Len(t) => w[j] = narrow[j])
    <3>1. CASE j = len
      <4>1. ~(j <= Len(t))
        BY <1>1, <1>3, <2>3, <3>1
      <4> QED
        BY <1>7, <3>1, <4>1 DEF M!Cntrl
    <3>2. CASE j # len /\ j <= Len(t)
      <4>1. j \in 1..Len(t) /\ j <= Size
        BY <1>1, <1>3, <3>2
      <4>2. w[j] = m[j - 1] /\ m[j - 1] = IF t[j] = M!Cntrl THEN "?" ELSE t[j]
        BY <1>7, <2>1, <3>2, <4>1 DEF Marked
      <4> QED
        BY <2>2, <4>1, <4>2 DEF M!Cntrl
    <3>3. CASE j # len /\ ~(j <= Len(t)) /\ j <= Size
      <4>1. j - 1 \in Len(t)..Size - 1
        BY <1>1, <1>3, <3>3
      <4>2. w[j] = m[j - 1] /\ m[j - 1] = "junk"
        BY <1>7, <2>1, <3>3, <4>1 DEF Marked
      <4> QED
        BY <3>3, <4>2 DEF M!Cntrl
    <3>4. CASE j # len /\ ~(j <= Size)
      <4>1. ~(j <= Len(t))
        BY <1>1, <1>3, <3>4
      <4>2. w[j] = "outside"
        BY <1>7, <3>4
      <4> QED
        BY <4>1, <4>2 DEF M!Cntrl
    <3> QED
      BY <3>1, <3>2, <3>3, <3>4
  <2>5. M!Cntrl \notin Range(w)
    BY <1>7, <2>4 DEF Range
  <2>6. IsPrefix(narrow, w)
    <3>1. Len(w) = len
      <4>1. len \in Nat
        BY <1>3, <1>6
      <4> DEFINE S == {w[j] : j \in 1..len}
      <4>2. w = [j \in 1..len |-> w[j]]
        BY <1>7 DEF len
      <4>3. w \in [1..len -> S]
        BY <4>2
      <4> HIDE DEF S
      <4> QED
        BY <4>1, <4>3, FunctionIsSeq
    <3>2. \A j \in 1..Len(t) : w[j] = narrow[j]
      <4> TAKE j \in 1..Len(t)
      <4>1. j \in 1..len /\ j <= Len(t)
        BY <1>1, <1>3, <1>6, <2>3
      <4> QED
        BY <2>4, <4>1
    <3> DEFINE l == Len(t)
    <3>3. SubSeq(narrow, 1, l) = SubSeq(w, 1, l)
      <4>1. \A j \in 1..l : narrow[j] \in Glyph /\ w[j] \in Glyph
        <5> TAKE j \in 1..l
        <5>1. j \in 1..Len(narrow)
          BY <2>2
        <5>2. narrow[j] \in Glyph
          BY <2>2, <5>1
        <5> QED
          BY <3>2, <5>2
      <4> DEFINE p == SubSeq(narrow, 1, l)
                 q == SubSeq(w, 1, l)
                 k == IF 1 <= l THEN l - 1 + 1 ELSE 0
      <4>2. l \in Int
        BY <1>3
      <4> HIDE DEF l
      <4>3. /\ p \in Seq(Glyph) /\ Len(p) = k
            /\ \A x \in 1..l - 1 + 1 : p[x] = narrow[1 + x - 1]
        BY <4>1, <4>2, SubSeqProperties
      <4>4. /\ q \in Seq(Glyph) /\ Len(q) = k
            /\ \A x \in 1..l - 1 + 1 : q[x] = w[1 + x - 1]
        BY <4>1, <4>2, SubSeqProperties
      <4> HIDE DEF p, q
      <4>5. ASSUME NEW x \in 1..Len(p) PROVE p[x] = q[x]
        <5>1. x \in 1..l /\ x \in 1..l - 1 + 1 /\ 1 + x - 1 = x
          <6>1. k <= l \/ k = 0
            BY <4>2
          <6> QED
            BY <4>2, <4>3, <6>1
        <5>2. w[x] = narrow[x]
          BY <3>2, <5>1 DEF l
        <5> QED
          BY <4>3, <4>4, <5>1, <5>2
      <4>6. p = q
        BY <4>3, <4>4, <4>5, SeqEqual
      <4> QED
        BY <4>6 DEF p, q
    <3>4. Len(narrow) <= Len(w)
      <4>1. Len(narrow) = Len(t) /\ Len(w) = len
        BY <2>2, <3>1
      <4>2. Len(t) <= len
        BY <1>1, <1>3, <1>6, <2>3
      <4> QED
        BY <4>1, <4>2
    <3> QED
      BY <2>2, <3>3, <3>4 DEF IsPrefix
  <2> QED
    BY <1>6, <1>9, <2>5, <2>6 DEF wide, narrow, AsMade
<1> QED
  BY <1>8, <1>9

\* The replacements are under way.
Replacing(t, m, a, c, o, last, k) ==
  /\ t \in Seq(Byte) /\ Len(t) < Size
  /\ \E upto : Scan(upto, t) /\ c = upto[Len(t)]
  /\ a = Size - 1 - Len(t) - 2 * Len(c) /\ a >= 0
  /\ k \in 0..Len(c) /\ o = 2 * k
  /\ last = IF k = Len(c) THEN Len(t) - 1 ELSE c[k + 1] - 1
  /\ Formatted(m, t, c, k)

\* The positions are recorded, and one way or the other is taken.
LEMMA ChoiceFact ==
  ASSUME NEW t, NEW m, NEW b, NEW a, Begun(t, m, b, a),
         NEW c, c = M!record_cntrl_char(m, b), NEW need, need = Len(c) * (M!replen - 1)
  PROVE  /\ need > a => \A w : w = [j \in DOMAIN m |-> IF j \in Range(c) THEN "?" ELSE m[j]] =>
                          Finished(t, w, c, a - need)
         /\ ~(need > a) => Replacing(t, m, a - need, c, need, b - 1, Len(c))
         /\ a \in Int /\ need \in Int
<1>1. /\ t \in Seq(Byte) /\ Size \in Nat /\ Len(t) < Size /\ b = Len(t) /\ a = Size - 1 - Len(t)
      /\ DOMAIN m = 0..Size - 1
      /\ \A j \in 1..Len(t) : m[j - 1] = t[j]
  BY ReportsAssumption DEF Begun
<1>2. PICK upto : Scan(upto, t) /\ c = upto[Len(t)]
  <2>1. \E upto : Scan(upto, t) /\ M!record_cntrl_char(m, Len(t)) = upto[Len(t)]
    BY <1>1, RecordFact
  <2> QED
    BY <1>1, <2>1
<1>3. RecordedOf(c, t, Len(t)) /\ Len(t) \in Nat
  BY <1>1, <1>2, ScanFact
<1>4. Len(c) \in Nat
  BY <1>3 DEF RecordedOf
<1>5. need = 2 * Len(c) /\ need \in Nat
  <2>1. M!replen = 3
    BY DEF M!replen, M!Replacement
  <2> QED
    BY <1>4, <2>1
<1>6. a - need = Size - 1 - Len(t) - 2 * Len(c) /\ a \in Int
  BY <1>1, <1>3, <1>4, <1>5
<1>7. ASSUME need > a, NEW w, w = [j \in DOMAIN m |-> IF j \in Range(c) THEN "?" ELSE m[j]]
      PROVE  Finished(t, w, c, a - need)
  <2>1. Marked(w, t)
    BY <1>3, <1>7, MarkFact
  <2>2. ~(a - need >= 0)
    BY <1>5, <1>6, <1>7
  <2> QED
    BY <1>1, <1>2, <1>6, <2>1, <2>2 DEF Finished
<1>8. ASSUME ~(need > a) PROVE Replacing(t, m, a - need, c, need, b - 1, Len(c))
  <2>1. Formatted(m, t, c, Len(c))
    <3>1. \A j \in 0..Len(t) - 1 : m[j] = t[j + 1]
      <4> TAKE j \in 0..Len(t) - 1
      <4>1. j + 1 \in 1..Len(t) /\ (j + 1) - 1 = j
        BY <1>3
      <4>2. m[(j + 1) - 1] = t[j + 1]
        BY <1>1, <4>1
      <4> QED
        BY <4>1, <4>2
    <3>2. Len(c) + 1..Len(c) = {}
      BY <1>4
    <3> QED
      BY <1>1, <3>1, <3>2 DEF Formatted
  <2>2. a - need >= 0
    BY <1>5, <1>6, <1>8
  <2>3. Len(c) \in 0..Len(c)
    BY <1>4
  <2> QED
    BY <1>1, <1>2, <1>5, <1>6, <2>1, <2>2, <2>3 DEF Replacing
<1> QED
  BY <1>5, <1>6, <1>7, <1>8

\* One replacement more, or none is left.
LEMMA ReplaceFact ==
  ASSUME NEW t, NEW m, NEW a, NEW c, NEW o, NEW last, NEW k, Replacing(t, m, a, c, o, last, k)
  PROVE  /\ k = 0 => Finished(t, m, c, a)
         /\ k # 0 => \A moved : moved = [j \in DOMAIN m |-> IF j \in c[k] + 1 + o..last + o THEN m[j - o] ELSE m[j]] =>
              Replacing(t, M!Put(moved, c[k] + 1 + o - M!replen, M!Replacement), a, c, o - (M!replen - 1), c[k] - 1, k - 1)
<1>1. /\ t \in Seq(Byte) /\ Size \in Nat /\ Len(t) < Size /\ a = Size - 1 - Len(t) - 2 * Len(c) /\ a >= 0
      /\ k \in 0..Len(c) /\ o = 2 * k /\ Formatted(m, t, c, k)
      /\ last = IF k = Len(c) THEN Len(t) - 1 ELSE c[k + 1] - 1
  BY ReportsAssumption DEF Replacing
<1>2. PICK upto : Scan(upto, t) /\ c = upto[Len(t)]
  BY DEF Replacing
<1>3. RecordedOf(c, t, Len(t)) /\ Len(t) \in Nat
  BY <1>1, <1>2, ScanFact
<1>4. Len(c) \in Nat
  BY <1>3 DEF RecordedOf
<1>5. ASSUME k = 0 PROVE Finished(t, m, c, a)
  BY <1>1, <1>2, <1>5 DEF Finished
<1>6. ASSUME k # 0, NEW moved,
             moved = [j \in DOMAIN m |-> IF j \in c[k] + 1 + o..last + o THEN m[j - o] ELSE m[j]]
      PROVE  Replacing(t, M!Put(moved, c[k] + 1 + o - M!replen, M!Replacement), a, c,
                       o - (M!replen - 1), c[k] - 1, k - 1)
  <2> DEFINE w == M!Put(moved, c[k] + 1 + o - M!replen, M!Replacement)
             d == k - 1
             x == c[k] - 1
  <2>1. k \in 1..Len(c) /\ Len(t) + 2 * Len(c) < Size
    BY <1>1, <1>3, <1>4, <1>6
  <2>2. Formatted(w, t, c, d)
    BY <1>1, <1>3, <1>6, <2>1, FormatStep
  <2>3. d \in 0..Len(c) /\ o - (M!replen - 1) = 2 * d /\ d # Len(c) /\ d + 1 = k
    <3>1. M!replen = 3
      BY DEF M!replen, M!Replacement
    <3> QED
      BY <1>1, <1>4, <2>1, <3>1
  <2>4. x = c[d + 1] - 1
    BY <2>3
  <2> HIDE DEF w, d, x
  <2>5. Replacing(t, w, a, c, o - (M!replen - 1), x, d)
    BY <1>1, <1>2, <2>2, <2>3, <2>4 DEF Replacing
  <2> QED
    BY <2>5 DEF w, d, x
<1> QED
  BY <1>5, <1>6

\* What is reported.
Reported ==
  /\ parts.lead \in Seq(Byte) /\ Len(parts.lead) < Size
  /\ parts.message \in Seq(Byte)
  /\ parts.extra = {} \/ \E e \in Seq(Byte) : parts.extra = {e}

ReportInv ==
  /\ Reported
  /\ pc \in {"prefix", "message", "extra", "scan", "format", "write", "out", "wild"}
  /\ pc = "prefix" => Begun(<<>>, msg, buf, avail)
  /\ pc = "message" => Begun(parts.lead, msg, buf, avail)
  /\ pc = "extra" => Begun(M!Cut(parts.lead \o parts.message, Size - 1), msg, buf, avail)
  /\ pc = "scan" => Begun(M!Line, msg, buf, avail)
  /\ pc = "format" => Replacing(M!Line, msg, avail, cntrl, off, lasidx, i)
  /\ pc = "write" => Finished(M!Line, msg, cntrl, avail)
  /\ pc = "out" => M!ReportAsMade

\* At first the array is empty.
LEMMA ReportInit == M!Init => ReportInv
<1> SUFFICES ASSUME M!Init PROVE ReportInv
  OBVIOUS
<1>1. /\ pc = "prefix" /\ msg = [j \in 0..Size - 1 |-> "junk"] /\ buf = 0 /\ avail = Size - 1
      /\ parts \in [lead : Lead, message : Message, extra : {{}} \cup {{e} : e \in Extra}]
  BY DEF M!Init
<1>2. Size \in Nat \ {0}
  BY ReportsAssumption
<1>3. Reported
  <2>1. parts.lead \in Lead /\ parts.message \in Message /\ (parts.extra = {} \/ \E e \in Extra : parts.extra = {e})
    BY <1>1
  <2> QED
    BY <2>1, TextsAreBytes, ReportsAssumption DEF Reported
<1>4. Begun(<<>>, msg, buf, avail)
  <2>1. <<>> \in Seq(Byte) /\ Len(<<>>) = 0
    OBVIOUS
  <2> QED
    BY <1>1, <1>2, <2>1 DEF Begun
<1> QED
  BY <1>1, <1>3, <1>4 DEF ReportInv

\* The line that the array is to hold, before and after strerror() has had its say.
LEMMA LineFact ==
  ASSUME Reported, NEW begin, begin = M!Cut(parts.lead \o parts.message, Size - 1)
  PROVE  /\ begin \in Seq(Byte) /\ Len(begin) < Size
         /\ parts.extra = {} \/ ~(Len(begin) < Size - 3) => M!Line = begin
         /\ \A e : parts.extra = {e} /\ Len(begin) < Size - 3 =>
              M!Line = M!Cut(begin \o <<";", " ">> \o e, Size - 1)
<1>1. Size \in Nat \ {0} /\ Size - 1 \in Nat
  BY ReportsAssumption
<1>2. parts.lead \o parts.message \in Seq(Byte)
  <2>1. parts.lead \in Seq(Byte) /\ parts.message \in Seq(Byte)
    BY DEF Reported
  <2> QED
    BY <2>1, ConcatFact
<1>3. begin \in Seq(Byte) /\ Len(begin) < Size
  <2> DEFINE t == parts.lead \o parts.message
             n == Size - 1
             u == M!Cut(t, n)
  <2>0. t \in Seq(Byte) /\ n \in Nat
    BY <1>1, <1>2
  <2> HIDE DEF t, n
  <2>1. u \in Seq(Byte) /\ Len(u) = IF Len(t) <= n THEN Len(t) ELSE n
    BY <2>0, CutFact
  <2>2. begin = u
    BY DEF u, t, n
  <2> HIDE DEF u
  <2>3. Len(t) \in Nat
    BY <2>0
  <2>4. Len(u) <= n
    BY <2>0, <2>1, <2>3
  <2> QED
    BY <1>1, <2>1, <2>2, <2>4, <2>3 DEF n
<1>4. ASSUME parts.extra = {} \/ ~(Len(begin) < Size - 3) PROVE M!Line = begin
  BY <1>4 DEF M!Line
<1>5. ASSUME NEW e, parts.extra = {e}, Len(begin) < Size - 3
      PROVE  M!Line = M!Cut(begin \o <<";", " ">> \o e, Size - 1)
  <2>1. (CHOOSE x \in parts.extra : TRUE) = e
    BY <1>5
  <2>2. parts.extra # {}
    BY <1>5
  <2> QED
    BY <1>5, <2>1, <2>2 DEF M!Line
<1> QED
  BY <1>3, <1>4, <1>5

\* What joins strerror()'s text to the line.
LEMMA SeparatorFact == <<";", " ">> \in Seq(Byte) /\ Len(<<";", " ">>) = 2
<1>1. ASSUME NEW x \in Byte, NEW y \in Byte PROVE <<x, y>> \in Seq(Byte) /\ Len(<<x, y>>) = 2
  OBVIOUS
<1>2. \A X, x, y : x \in X \cup {x, y} /\ y \in X \cup {x, y}
  OBVIOUS
<1>3. ";" \in Byte /\ " " \in Byte
  BY <1>2, Zenon DEF Byte
<1> QED
  BY <1>1, <1>3, Zenon

\* Termas' operators are those of the modules it uses.
LEMMA InstanceFact ==
  /\ \A c : M!Range(c) = Range(c)
  /\ \A s, t : M!IsPrefix(s, t) = IsPrefix(s, t)
  /\ \A s : M!FlattenSeq(s) = FlattenSeq(s)
<1>1. \A c : M!Range(c) = Range(c)
  BY DEF Range, M!Range
<1>2. \A s, t : M!IsPrefix(s, t) = IsPrefix(s, t)
  BY DEF IsPrefix, M!IsPrefix
<1>3. \A s : M!FlattenSeq(s) = FlattenSeq(s)
  BY Zenon DEF FlattenSeq, M!FlattenSeq
<1> QED
  BY <1>1, <1>2, <1>3

\* The line with its control characters replaced is made of those pieces.
LEMMA WithFact == \A r : FlattenSeq(Pieces(M!Line, r)) = M!With(r)
<1> TAKE r
<1>1. M!With(r) = M!FlattenSeq(Pieces(M!Line, r))
  BY DEF M!With, Pieces
<1> QED
  BY <1>1, InstanceFact

\* No step disturbs a report.
LEMMA ReportNext == ReportInv /\ [M!Next]_message => ReportInv'
<1> SUFFICES ASSUME ReportInv, [M!Next]_message PROVE ReportInv'
  OBVIOUS
<1>1. UNCHANGED parts
  BY DEF message, M!Next, M!vreport_prefix, M!vreport_message, M!vreport_extra, M!vreport_format_cntrl_char,
         M!format_cntrl_char_advanced, M!vreportf, M!Done, M!vars, M!Scanning
<1>2. Reported /\ Reported' /\ M!Line' = M!Line
  <2>1. Reported
    BY DEF ReportInv
  <2>2. Reported'
    BY <1>1, <2>1 DEF Reported
  <2>3. M!Line' = M!Line
    BY <1>1 DEF M!Line, M!Cut, M!Least
  <2> QED
    BY <2>1, <2>2, <2>3
<1>3. Size \in Nat \ {0} /\ Size - 1 \in Nat
  BY ReportsAssumption
<1>4. CASE M!vreport_prefix
  <2>1. pc = "prefix" /\ pc' = "message" /\ Begun(<<>>, msg, buf, avail) /\ M!Add(parts.lead)
    BY <1>4 DEF M!vreport_prefix, ReportInv
  <2>2. parts.lead \in Seq(Byte) /\ Len(parts.lead) <= avail
    BY <1>2, <1>3, <2>1 DEF Reported, Begun
  <2>3. Begun(<<>> \o parts.lead, M!Put(msg, buf, parts.lead), buf + Len(parts.lead), avail - Len(parts.lead))
    BY <2>1, <2>2, AddFact
  <2>4. <<>> \o parts.lead = parts.lead
    BY <2>2
  <2>5. Begun(parts.lead', msg', buf', avail')
    BY <1>1, <2>1, <2>3, <2>4 DEF M!Add
  <2> QED
    BY <1>2, <2>1, <2>5 DEF ReportInv
<1>5. CASE M!vreport_message
  <2> DEFINE n == Size - 1
             u == M!Cut(parts.message, avail)
             lead == parts.lead
             text == parts.message
  <2>1. pc = "message" /\ pc' = "extra" /\ Begun(lead, msg, buf, avail) /\ M!Add(u)
    BY <1>5 DEF M!vreport_message, ReportInv
  <2>2. lead \in Seq(Byte) /\ text \in Seq(Byte) /\ avail = n - Len(lead) /\ Len(lead) <= n /\ avail \in Nat
    BY <1>2, <1>3, <2>1 DEF Reported, Begun
  <2> HIDE DEF n, lead, text
  <2>3. u \in Seq(Byte) /\ Len(u) <= avail
    <3>1. u = M!Cut(text, avail)
      BY DEF text
    <3>2. M!Cut(text, avail) \in Seq(Byte) /\ Len(M!Cut(text, avail)) = IF Len(text) <= avail THEN Len(text) ELSE avail
      BY <2>2, CutFact
    <3> QED
      BY <2>2, <3>1, <3>2
  <2>4. M!Cut(lead \o text, n) = lead \o u
    <3>1. n \in Nat
      BY <1>3 DEF n
    <3> QED
      BY <2>2, <3>1, CutBehind DEF text
  <2> HIDE DEF u
  <2>5. Begun(lead \o u, M!Put(msg, buf, u), buf + Len(u), avail - Len(u))
    BY <2>1, <2>3, AddFact
  <2>6. Begun(M!Cut(parts.lead \o parts.message, Size - 1), msg', buf', avail')
    BY <2>1, <2>4, <2>5 DEF M!Add, n, lead, text
  <2>7. Begun(M!Cut(parts.lead \o parts.message, Size - 1)', msg', buf', avail')
    BY <1>1, <2>6
  <2> QED
    BY <1>2, <2>1, <2>7 DEF ReportInv
<1>6. CASE M!vreport_extra
  <2> DEFINE begin == M!Cut(parts.lead \o parts.message, Size - 1)
  <2>1. pc = "extra" /\ pc' = "scan" /\ Begun(begin, msg, buf, avail)
    BY <1>6 DEF M!vreport_extra, ReportInv
  <2>2. /\ begin \in Seq(Byte) /\ Len(begin) < Size
        /\ parts.extra = {} \/ ~(Len(begin) < Size - 3) => M!Line = begin
        /\ \A e : parts.extra = {e} /\ Len(begin) < Size - 3 =>
             M!Line = M!Cut(begin \o <<";", " ">> \o e, Size - 1)
    BY <1>2, LineFact
  <2> HIDE DEF begin
  <2>3. avail = Size - 1 - Len(begin) /\ Len(begin) \in Nat /\ (avail > 2 <=> Len(begin) < Size - 3)
    <3>1. Len(begin) \in Nat
      <4>1. begin \in Seq(Byte)
        BY <2>2
      <4> QED
        BY <4>1
    <3>2. avail = Size - 1 - Len(begin)
      BY <2>1 DEF Begun
    <3> QED
      BY <1>3, <3>1, <3>2
  <2>4. CASE UNCHANGED <<msg, buf, avail>> /\ (parts.extra = {} \/ ~(avail > 2))
    <3>1. M!Line = begin
      BY <2>2, <2>3, <2>4
    <3>2. Begun(M!Line', msg', buf', avail')
      BY <1>2, <2>1, <2>4, <3>1
    <3> QED
      BY <1>2, <2>1, <3>2 DEF ReportInv
  <2>5. CASE avail > 2 /\ \E e \in parts.extra : M!Add(<<";", " ">> \o M!Cut(e, avail - 2))
    <3>1. PICK e \in parts.extra : M!Add(<<";", " ">> \o M!Cut(e, avail - 2))
      BY <2>5
    <3>2. e \in Seq(Byte) /\ parts.extra = {e}
      BY <1>2, <3>1 DEF Reported
    <3> DEFINE sep == <<";", " ">>
               k == avail - 2
               n == Size - 1
               ce == M!Cut(e, k)
               u == sep \o ce
               se == sep \o e
    <3>3. sep \in Seq(Byte) /\ Len(sep) = 2
      BY SeparatorFact, Zenon
    <3>4. k \in Nat /\ avail \in Nat /\ n \in Nat /\ k = avail - 2 /\ avail = n - Len(begin) /\ Len(begin) <= n
      <4>1. Len(begin) < Size
        BY <2>2
      <4>2. avail > 2
        BY <2>5
      <4> HIDE DEF sep
      <4>3. avail = n - Len(begin) /\ Len(begin) <= n /\ n \in Nat /\ k = avail - 2
        BY <1>3, <2>3, <4>1
      <4> HIDE DEF k, n
      <4> QED
        BY <2>3, <4>2, <4>3
    <3> HIDE DEF sep, k, n
    <3>5. M!Line = M!Cut(begin \o se, n)
      <4>1. M!Line = M!Cut(begin \o sep \o e, n)
        BY <2>2, <2>3, <2>5, <3>2 DEF sep, n
      <4>2. (begin \o sep) \o e = begin \o (sep \o e)
        <5>1. begin \in Seq(Byte) /\ sep \in Seq(Byte) /\ e \in Seq(Byte)
          BY <2>2, <3>2, <3>3
        <5> QED
          BY <5>1, ConcatAssociative
      <4> QED
        BY <4>1, <4>2
    <3>6. ce \in Seq(Byte) /\ Len(ce) <= k
      <4>1. ce \in Seq(Byte) /\ Len(ce) = IF Len(e) <= k THEN Len(e) ELSE k
        BY <3>2, <3>4, CutFact
      <4> HIDE DEF ce
      <4> QED
        BY <3>2, <3>4, <4>1
    <3>7. u = M!Cut(se, avail)
      <4>1. Len(sep) <= avail /\ avail - Len(sep) = k
        <5>1. avail > 2 /\ Len(sep) = 2
          BY <2>5, <3>3
        <5> QED
          BY <3>4, <5>1
      <4>2. M!Cut(sep \o e, avail) = sep \o M!Cut(e, avail - Len(sep))
        BY <3>2, <3>3, <3>4, <4>1, CutBehind
      <4> QED
        BY <4>1, <4>2
    <3> HIDE DEF ce
    <3>8. u \in Seq(Byte) /\ Len(u) <= avail /\ se \in Seq(Byte)
      <4>1. sep \in Seq(Byte) /\ ce \in Seq(Byte)
        BY <3>3, <3>6
      <4>2. u \in Seq(Byte) /\ Len(u) = Len(sep) + Len(ce) /\ Len(ce) \in Nat
        BY <4>1, ConcatFact
      <4>3. se \in Seq(Byte)
        BY <3>2, <4>1, ConcatFact
      <4> HIDE DEF u, se
      <4> QED
        BY <3>3, <3>4, <3>6, <4>2, <4>3
    <3> HIDE DEF u, se
    <3>9. M!Cut(begin \o se, n) = begin \o u
      <4>1. M!Cut(begin \o se, n) = begin \o M!Cut(se, n - Len(begin))
        BY <2>2, <3>4, <3>8, CutBehind
      <4> QED
        BY <3>4, <3>7, <4>1
    <3>10. Begun(begin \o u, M!Put(msg, buf, u), buf + Len(u), avail - Len(u))
      BY <2>1, <3>8, AddFact
    <3>11. Begun(M!Line', msg', buf', avail')
      BY <1>2, <3>1, <3>5, <3>9, <3>10 DEF M!Add, u, ce, k, sep
    <3> QED
      BY <1>2, <2>1, <3>11 DEF ReportInv
  <2> QED
    BY <1>6, <2>4, <2>5 DEF M!vreport_extra
<1>7. CASE M!vreport_format_cntrl_char
  <2> DEFINE c == M!record_cntrl_char(msg, buf)
             need == Len(c) * (M!replen - 1)
             line == M!Line
  <2>0. pc' = "wild" => ReportInv'
    BY <1>2 DEF ReportInv
  <2> SUFFICES ASSUME pc' # "wild" PROVE ReportInv'
    BY <2>0
  <2>1. /\ pc = "scan" /\ Begun(line, msg, buf, avail)
        /\ cntrl' = c /\ avail' = avail - need
    BY <1>7 DEF M!vreport_format_cntrl_char, ReportInv
  <2>2. /\ need > avail => /\ msg' = [j \in DOMAIN msg |-> IF j \in Range(c) THEN "?" ELSE msg[j]]
                           /\ pc' = "write"
        /\ ~(need > avail) => /\ off' = need /\ lasidx' = buf - 1 /\ i' = Len(c)
                              /\ pc' = "format" /\ UNCHANGED msg
    <3>1. \/ M!format_cntrl_char_simple(c) /\ pc' = "write" /\ need > avail
          \/ /\ off' = need /\ lasidx' = buf - 1 /\ i' = Len(c) /\ need <= avail
             /\ pc' = "format" /\ UNCHANGED msg
      BY <1>7 DEF M!vreport_format_cntrl_char
    <3>2. avail \in Int /\ need \in Int
      BY <2>1, ChoiceFact
    <3> HIDE DEF c, need
    <3> QED
      BY <3>1, <3>2, InstanceFact DEF M!format_cntrl_char_simple
  <2>3. c = M!record_cntrl_char(msg, buf) /\ need = Len(c) * (M!replen - 1)
    OBVIOUS
  <2> HIDE DEF c, need, line
  <2>4. /\ need > avail => \A w : w = [j \in DOMAIN msg |-> IF j \in Range(c) THEN "?" ELSE msg[j]] =>
                             Finished(line, w, c, avail - need)
        /\ ~(need > avail) => Replacing(line, msg, avail - need, c, need, buf - 1, Len(c))
    BY <2>1, <2>3, ChoiceFact
  <2>5. CASE need > avail
    <3>1. Finished(line, msg', cntrl', avail')
      BY <2>1, <2>2, <2>4, <2>5
    <3>2. Finished(M!Line', msg', cntrl', avail') /\ pc' = "write"
      BY <1>2, <2>2, <2>5, <3>1 DEF line
    <3> QED
      BY <1>2, <3>2 DEF ReportInv
  <2>6. CASE ~(need > avail)
    <3>1. Replacing(line, msg', avail', cntrl', off', lasidx', i')
      BY <2>1, <2>2, <2>4, <2>6
    <3>2. Replacing(M!Line', msg', avail', cntrl', off', lasidx', i') /\ pc' = "format"
      BY <1>2, <2>2, <2>6, <3>1 DEF line
    <3> QED
      BY <1>2, <3>2 DEF ReportInv
  <2> QED
    BY <2>5, <2>6
<1>8. CASE M!format_cntrl_char_advanced
  <2> DEFINE line == M!Line
  <2>1. pc = "format" /\ Replacing(line, msg, avail, cntrl, off, lasidx, i) /\ UNCHANGED <<avail, cntrl>>
    BY <1>8 DEF M!format_cntrl_char_advanced, ReportInv
  <2> HIDE DEF line
  <2>2. /\ i = 0 => Finished(line, msg, cntrl, avail)
        /\ i # 0 => \A moved :
             moved = [j \in DOMAIN msg |-> IF j \in cntrl[i] + 1 + off..lasidx + off THEN msg[j - off] ELSE msg[j]] =>
             Replacing(line, M!Put(moved, cntrl[i] + 1 + off - M!replen, M!Replacement), avail, cntrl,
                       off - (M!replen - 1), cntrl[i] - 1, i - 1)
    BY <2>1, ReplaceFact
  <2>3. CASE i = 0
    <3>1. pc' = "write" /\ UNCHANGED msg
      BY <1>8, <2>3 DEF M!format_cntrl_char_advanced
    <3>2. Finished(M!Line', msg', cntrl', avail')
      BY <1>2, <2>1, <2>2, <2>3, <3>1 DEF line
    <3> QED
      BY <1>2, <3>1, <3>2 DEF ReportInv
  <2>4. CASE i # 0
    <3> DEFINE moved == [j \in DOMAIN msg |-> IF j \in cntrl[i] + 1 + off..lasidx + off THEN msg[j - off] ELSE msg[j]]
    <3>1. /\ msg' = M!Put(moved, cntrl[i] + 1 + off - M!replen, M!Replacement)
          /\ off' = off - (M!replen - 1) /\ lasidx' = cntrl[i] - 1 /\ i' = i - 1 /\ pc' = pc
      BY <1>8, <2>4 DEF M!format_cntrl_char_advanced
    <3>2. Replacing(line, M!Put(moved, cntrl[i] + 1 + off - M!replen, M!Replacement), avail, cntrl,
                    off - (M!replen - 1), cntrl[i] - 1, i - 1)
      BY <2>2, <2>4
    <3> HIDE DEF moved
    <3>3. Replacing(M!Line', msg', avail', cntrl', off', lasidx', i')
      BY <1>2, <2>1, <3>1, <3>2 DEF line
    <3>4. pc' = "format"
      BY <2>1, <3>1
    <3> QED
      BY <1>2, <3>3, <3>4 DEF ReportInv
  <2> QED
    BY <2>3, <2>4
<1>9. CASE M!vreportf
  <2>1. /\ pc = "write" /\ pc' = "out" /\ Finished(M!Line, msg, cntrl, avail)
        /\ written' = [j \in 1..Size - avail |-> IF j = Size - avail THEN "newline"
                                                 ELSE IF j <= Size THEN msg[j - 1] ELSE "outside"]
    BY <1>9 DEF M!vreportf, ReportInv
  <2> DEFINE w == written'
             line == M!Line
  <2>2. AsMade(FlattenSeq(Pieces(line, M!Replacement)), FlattenSeq(Pieces(line, <<"?">>)), w)
    <3>1. /\ Finished(line, msg, cntrl, avail)
          /\ w = [j \in 1..Size - avail |-> IF j = Size - avail THEN "newline"
                                            ELSE IF j <= Size THEN msg[j - 1] ELSE "outside"]
      BY <2>1
    <3> HIDE DEF w, line
    <3> QED
      BY <3>1, WriteFact
  <2>3. /\ FlattenSeq(Pieces(line, M!Replacement)) = M!With(M!Replacement)
        /\ FlattenSeq(Pieces(line, <<"?">>)) = M!With(<<"?">>)
    BY WithFact
  <2>4. M!With(M!Replacement)' = M!With(M!Replacement) /\ M!With(<<"?">>)' = M!With(<<"?">>)
    BY <1>2 DEF M!With
  <2>5. AsMade(M!With(M!Replacement)', M!With(<<"?">>)', written')
    BY <2>2, <2>3, <2>4
  <2>6. M!ReportAsMade'
    <3> DEFINE wide == M!With(M!Replacement)'
               narrow == M!With(<<"?">>)'
    <3> HIDE DEF wide, narrow
    <3>1. AsMade(wide, narrow, written')
      BY <2>5 DEF wide, narrow
    <3>2. IF Len(wide) < Size THEN written' = Append(wide, "newline")
          ELSE M!IsPrefix(narrow, written') /\ M!Cntrl \notin M!Range(written')
      BY <3>1, InstanceFact, Zenon DEF AsMade
    <3> QED
      BY <3>2 DEF M!ReportAsMade, wide, narrow
  <2> QED
    BY <1>2, <2>1, <2>6 DEF ReportInv
<1>10. CASE M!Done \/ UNCHANGED message
  <2>1. UNCHANGED message
    BY <1>10 DEF M!Done, M!vars, message
  <2>2. UNCHANGED <<pc, parts, msg, buf, avail, cntrl, off, lasidx, i, written>>
    BY <2>1 DEF message
  <2>3. pc = "out" => M!ReportAsMade'
    BY <2>2 DEF ReportInv, M!ReportAsMade, M!With, M!Line
  <2> QED
    BY <1>2, <2>2, <2>3 DEF ReportInv
<1> QED
  BY <1>4, <1>5, <1>6, <1>7, <1>8, <1>9, <1>10 DEF M!Next

\* Reports run beside nothing else.
ReportsStand == pc = "none" \/ ReportInv

\* A report whose control characters fit the table and whose replacements fit the array is
\* written as it was made (vreportf(), platfree/termas.c), whatever the array's size, the texts
\* and the places of the control characters.  Where the replacements do not fit, this only says
\* how the line begins; where the table is too small, nothing.
THEOREM ReportsAreWritten == TextsSpec => []ReportAsMade
<1>1. TextsInit => ReportsStand
  BY ReportInit DEF TextsInit, NoMessage, ReportsStand
<1>2. ReportsStand /\ [TextsNext]_<<vars, buffer, message>> => ReportsStand'
  <2> SUFFICES ASSUME ReportsStand, [TextsNext]_<<vars, buffer, message>> PROVE ReportsStand'
    OBVIOUS
  <2>1. M!Next \/ UNCHANGED message
    BY DEF TextsNext
  <2>2. CASE ReportInv
    BY <2>1, <2>2, ReportNext DEF ReportsStand
  <2>3. CASE pc = "none"
    <3>1. UNCHANGED pc
      BY <2>1, <2>3 DEF message, M!Next, M!vreport_prefix, M!vreport_message, M!vreport_extra,
             M!vreport_format_cntrl_char, M!format_cntrl_char_advanced, M!vreportf, M!Done, M!vars
    <3> QED
      BY <2>3, <3>1 DEF ReportsStand
  <2> QED
    BY <2>2, <2>3 DEF ReportsStand
<1>3. ReportsStand => ReportAsMade
  BY DEF ReportsStand, ReportAsMade, ReportInv, M!ReportAsMade
<1> QED
  BY <1>1, <1>2, <1>3, PTL DEF TextsSpec

-----------------------------------------------------------------------------
(* Buffers and lists. *)

\* What texts are made of.
Char == (UNION {Range(t) : t \in Root \cup Base \cup Usage}) \cup {"NUL", "junk", "/", " "}
PlainTexts == {t \in Seq(Char) : \A x \in DOMAIN t : t[x] # "NUL"}
Buffer == [str : Seq(Char), len : Int, baslen : Nat]

\* The memory begins with a text; it ends there.
Starts(b, t) == Len(t) <= Len(b.str) /\ \A x \in 1..Len(t) : b.str[x] = t[x]
Holds(b, t) == b \in Buffer /\ t \in PlainTexts /\ Len(t) < Len(b.str) /\ Starts(b, t) /\ b.str[Len(t) + 1] = "NUL"
Exact(b, t) == Holds(b, t) /\ b.len = Len(t)

\* A list holds texts; what is not in use is empty.
Stack(l, q) ==
  /\ l \in [list : Seq(Buffer), nl : Nat, uninit : Nat]
  /\ q \in Seq(PlainTexts) /\ l.nl = Len(q)
  /\ l.nl <= l.uninit /\ l.uninit <= Len(l.list)
  /\ \A x \in 1..Len(l.list) : l.list[x].baslen = 0
  /\ \A x \in 1..l.nl : Holds(l.list[x], q[x])
  /\ \A x \in l.nl + 1..Len(l.list) : l.list[x].str = <<>> \/ l.list[x].len = 0

\* Each user's buffer.
Walks(ph, b, m) ==
  \/ ph = "start"
  \/ /\ ph \in {"dir", "entry", "up"} /\ Exact(b, m)
     /\ (ph # "up" => b.baslen \in 1..b.len) /\ (ph = "dir" => b.baslen = b.len)
Names(ph, b, m) ==
  \/ ph = "start"
  \/ ph = "name" /\ Holds(b, m) /\ b.baslen <= Len(m) /\ Len(m) <= b.len /\ b.len < Len(b.str)
Asks(ph, b, m, d) ==
  /\ ph \in {"start", "asked", "name"} /\ b.baslen = 0
  /\ IF ph = "name"
     THEN LET t == B!Visible(b) IN Holds(b, t) /\ Len(t) <= b.len /\ b.len < Len(b.str) /\ (d \/ (t = m /\ b.len = Len(t)))
     ELSE b.len = 0
Sources(ph, b, m) ==
  \/ ph = "start"
  \/ ph = "base" /\ Starts(b, m) /\ m \in PlainTexts /\ b.len = Len(m) /\ b.baslen = b.len
  \/ ph = "name" /\ Exact(b, m) /\ b.baslen <= b.len
Seeks(ph, b, m) ==
  /\ ph \in {"start", "base", "name"} /\ b.baslen = 0
  /\ IF ph = "name" THEN Exact(b, m) ELSE b.len = 0
Usages(ph, q, m) ==
  \/ ph = "start" /\ q = <<>>
  \/ ph = "lines" /\ B!Joined(q) = m /\ \A x \in DOMAIN q : Len(q[x]) <= LineWidth

Owners == {"walk", "names", "query", "sources", "pid", "usage"}
BufferInv ==
  /\ user \in Owners /\ sb \in Buffer
  /\ Stack(sl, pushed)
  /\ phase = "start" /\ user # "usage" => sb = B!STRBUF_INIT
  /\ user = "walk" => Walks(phase, sb, meant) /\ \A x \in DOMAIN pushed : pushed[x] # <<>>
  /\ user = "names" => Names(phase, sb, meant)
  /\ user = "query" => Asks(phase, sb, meant, drifted)
  /\ user = "sources" => Sources(phase, sb, meant)
  /\ user = "pid" => Seeks(phase, sb, meant)
  /\ user = "usage" => Usages(phase, pushed, meant)

\* Characters of their own.
LEMMA CharFact == "NUL" \in Char /\ "junk" \in Char /\ "/" \in Char /\ " " \in Char
<1>1. \A X, a, b, c, d : a \in X \cup {a, b, c, d} /\ b \in X \cup {a, b, c, d} /\ c \in X \cup {a, b, c, d}
                         /\ d \in X \cup {a, b, c, d}
  OBVIOUS
<1> QED
  BY <1>1, Zenon DEF Char

\* What is given is text.
LEMMA GivenFact == \A t \in Root \cup Base \cup Usage : t \in PlainTexts
<1> SUFFICES ASSUME NEW t \in Root \cup Base \cup Usage PROVE t \in PlainTexts
  OBVIOUS
<1>1. t \in Seq(Range(t)) /\ "NUL" \notin Range(t)
  BY BuffersAssumption
<1>2. Range(t) \subseteq Char
  BY DEF Char
<1>3. t \in Seq(Char)
  BY <1>1, <1>2
<1>4. \A x \in DOMAIN t : t[x] # "NUL"
  BY <1>1 DEF Range
<1> QED
  BY <1>3, <1>4 DEF PlainTexts

\* A text's length and its characters.
LEMMA TextFact ==
  ASSUME NEW t \in PlainTexts
  PROVE  t \in Seq(Char) /\ Len(t) \in Nat /\ \A x \in 1..Len(t) : t[x] \in Char /\ t[x] # "NUL"
<1>1. t \in Seq(Char) /\ \A x \in DOMAIN t : t[x] # "NUL"
  BY DEF PlainTexts
<1>2. Len(t) \in Nat /\ DOMAIN t = 1..Len(t)
  BY <1>1
<1> QED
  BY <1>1, <1>2

\* A sequence that agrees with others on its beginning.
LEMMA SubFact ==
  ASSUME NEW S, NEW s \in Seq(S), NEW x \in Int, NEW y \in Int, x >= 1, y <= Len(s)
  PROVE  /\ SubSeq(s, x, y) \in Seq(S)
         /\ Len(SubSeq(s, x, y)) = IF x <= y THEN y - x + 1 ELSE 0
         /\ \A z \in 1..y - x + 1 : SubSeq(s, x, y)[z] = s[x + z - 1]
<1>1. \A z \in x..y : s[z] \in S
  OBVIOUS
<1> QED
  BY <1>1, SubSeqProperties

\* A part of a text is text.
LEMMA PartFact ==
  ASSUME NEW t \in PlainTexts, NEW x \in Int, NEW y \in Int, x >= 1, y <= Len(t)
  PROVE  /\ SubSeq(t, x, y) \in PlainTexts
         /\ Len(SubSeq(t, x, y)) = IF x <= y THEN y - x + 1 ELSE 0
         /\ \A z \in 1..y - x + 1 : SubSeq(t, x, y)[z] = t[x + z - 1]
<1> DEFINE s == SubSeq(t, x, y)
<1>1. /\ s \in Seq(Char) /\ Len(s) = (IF x <= y THEN y - x + 1 ELSE 0)
      /\ \A z \in 1..y - x + 1 : s[z] = t[x + z - 1]
  <2>1. t \in Seq(Char)
    BY TextFact
  <2> QED
    BY <2>1, SubFact
<1> HIDE DEF s
<1>2. DOMAIN s = 1..Len(s)
  BY <1>1
<1>3. \A z \in DOMAIN s : s[z] # "NUL"
  <2> TAKE z \in DOMAIN s
  <2>1. z \in 1..y - x + 1
    BY <1>1, <1>2
  <2>2. s[z] = t[x + z - 1]
    BY <1>1, <2>1
  <2>3. x + z - 1 \in 1..Len(t)
    BY <2>1, TextFact
  <2> QED
    BY <2>2, <2>3, TextFact
<1>4. s \in PlainTexts
  BY <1>1, <1>3 DEF PlainTexts
<1> QED
  BY <1>1, <1>4 DEF s

\* A text behind another is text.
LEMMA BehindFact ==
  ASSUME NEW s \in PlainTexts, NEW t \in PlainTexts
  PROVE  /\ s \o t \in PlainTexts /\ Len(s \o t) = Len(s) + Len(t)
         /\ \A x \in 1..Len(s) : (s \o t)[x] = s[x]
         /\ \A x \in 1..Len(t) : (s \o t)[Len(s) + x] = t[x]
<1> DEFINE u == s \o t
<1>0. Len(s) \in Nat /\ Len(t) \in Nat
  BY TextFact
<1>1. /\ u \in Seq(Char) /\ Len(u) = Len(s) + Len(t)
      /\ \A x \in 1..Len(s) : u[x] = s[x]
      /\ \A x \in 1..Len(t) : u[Len(s) + x] = t[x]
  <2>1. s \in Seq(Char) /\ t \in Seq(Char)
    BY TextFact
  <2> QED
    BY <2>1, ConcatFact
<1> HIDE DEF u
<1>2. DOMAIN u = 1..Len(u)
  BY <1>1
<1>3. \A x \in DOMAIN u : u[x] # "NUL"
  <2> TAKE x \in DOMAIN u
  <2>1. CASE x <= Len(s)
    <3>1. x \in 1..Len(s)
      BY <1>2, <2>1
    <3>2. u[x] = s[x] /\ s[x] # "NUL"
      BY <1>1, <3>1, TextFact
    <3> QED
      BY <3>2
  <2>2. CASE ~(x <= Len(s))
    <3>1. x - Len(s) \in 1..Len(t) /\ Len(s) + (x - Len(s)) = x
      BY <1>0, <1>1, <1>2, <2>2
    <3>2. u[Len(s) + (x - Len(s))] = t[x - Len(s)] /\ t[x - Len(s)] # "NUL"
      BY <1>1, <3>1, TextFact
    <3> QED
      BY <3>1, <3>2
  <2> QED
    BY <2>1, <2>2
<1>4. u \in PlainTexts
  BY <1>1, <1>3 DEF PlainTexts
<1> QED
  BY <1>1, <1>4 DEF u

\* CAP_ALLOC() leaves room for what is asked.
LEMMA CapFact ==
  ASSUME NEW c \in Nat, NEW n \in Nat
  PROVE  B!CapAlloc(c, n) \in Nat /\ n <= B!CapAlloc(c, n) /\ c <= B!CapAlloc(c, n)
<1> DEFINE f == B!fix_grow(c)
           k == B!CapAlloc(c, n)
<1>1. f \in Int
  <2>1. Spare \in Nat
    BY BuffersAssumption
  <2>2. \A z \in Nat : z \div 2 \in Int
    OBVIOUS
  <2>3. (c + Spare) * 3 \in Nat
    BY <2>1
  <2> QED
    BY <2>2, <2>3 DEF B!fix_grow
<1>2. k = IF n <= c THEN c ELSE IF f < n THEN n ELSE f
  BY DEF B!CapAlloc
<1> HIDE DEF f, k
<1>3. k \in Nat /\ n <= k /\ c <= k
  BY <1>1, <1>2
<1> QED
  BY <1>3 DEF k

\* Memory that grows keeps what it holds.
LEMMA GrownFact ==
  ASSUME NEW m \in Seq(Char), NEW n \in Nat
  PROVE  /\ B!Grown(m, n) \in Seq(Char) /\ n <= Len(B!Grown(m, n)) /\ Len(m) <= Len(B!Grown(m, n))
         /\ \A x \in 1..Len(m) : B!Grown(m, n)[x] = m[x]
<1> DEFINE k == B!CapAlloc(Len(m), n)
           g == B!Grown(m, n)
<1>1. Len(m) \in Nat
  OBVIOUS
<1>2. k \in Nat /\ n <= k /\ Len(m) <= k
  BY <1>1, CapFact
<1>3. g = [x \in 1..k |-> IF x <= Len(m) THEN m[x] ELSE "junk"]
  BY DEF B!Grown, B!Junk
<1> HIDE DEF k, g
<1>4. \A x \in 1..k : (IF x <= Len(m) THEN m[x] ELSE "junk") \in Char
  <2>1. \A x \in 1..Len(m) : m[x] \in Char
    OBVIOUS
  <2>2. \A x \in 1..k : x <= Len(m) => x \in 1..Len(m)
    BY <1>1, <1>2
  <2> QED
    BY <2>1, <2>2, CharFact, Zenon
<1>5. g \in [1..k -> Char]
  BY <1>3, <1>4
<1>6. g \in Seq(Char) /\ Len(g) = k
  BY <1>2, <1>5
<1>7. \A x \in 1..Len(m) : g[x] = m[x]
  BY <1>1, <1>2, <1>3
<1> QED
  BY <1>2, <1>6, <1>7 DEF g

\* A text is written into memory, with its end.
LEMMA PutFact ==
  ASSUME NEW m \in Seq(Char), NEW at0 \in Nat, NEW t \in PlainTexts, at0 + Len(t) < Len(m)
  PROVE  /\ B!Put(m, at0, t) \in Seq(Char) /\ Len(B!Put(m, at0, t)) = Len(m)
         /\ \A x \in 1..at0 : B!Put(m, at0, t)[x] = m[x]
         /\ \A x \in 1..Len(t) : B!Put(m, at0, t)[at0 + x] = t[x]
         /\ B!Put(m, at0, t)[at0 + Len(t) + 1] = "NUL"
<1> DEFINE w == B!Put(m, at0, t)
           l == Len(t)
           n == Len(m)
<1>1. n \in Nat /\ l \in Nat /\ DOMAIN m = 1..n /\ at0 + l < n
  BY TextFact
<1>2. \A x \in 1..l : t[x] \in Char
  BY TextFact
<1>3. \A x \in 1..n : m[x] \in Char
  OBVIOUS
<1>4. w = [x \in 1..n |-> IF x \in at0 + 1..at0 + l THEN t[x - at0] ELSE IF x = at0 + l + 1 THEN "NUL" ELSE m[x]]
  BY <1>1 DEF B!Put, B!NUL
<1> HIDE DEF w, l
<1>5. \A x \in 1..n : w[x] \in Char
  <2> TAKE x \in 1..n
  <2>1. CASE x \in at0 + 1..at0 + l
    <3>1. x - at0 \in 1..l
      BY <1>1, <2>1
    <3>2. w[x] = t[x - at0]
      BY <1>4, <2>1
    <3> QED
      BY <1>2, <3>1, <3>2
  <2>2. CASE x \notin at0 + 1..at0 + l
    <3>1. w[x] = "NUL" \/ w[x] = m[x]
      BY <1>4, <2>2
    <3> QED
      BY <1>3, <3>1, CharFact
  <2> QED
    BY <2>1, <2>2
<1>6. w = [x \in 1..n |-> w[x]]
  BY <1>4
<1> HIDE DEF n
<1>7. w \in [1..n -> Char]
  BY <1>5, <1>6
<1>8. w \in Seq(Char) /\ Len(w) = n
  BY <1>1, <1>7
<1>9. \A x \in 1..at0 : w[x] = m[x]
  <2> TAKE x \in 1..at0
  <2>1. x \in 1..n /\ x \notin at0 + 1..at0 + l /\ x # at0 + l + 1
    BY <1>1
  <2> QED
    BY <1>4, <2>1
<1>10. \A x \in 1..l : w[at0 + x] = t[x]
  <2> TAKE x \in 1..l
  <2>1. at0 + x \in 1..n /\ at0 + x \in at0 + 1..at0 + l /\ (at0 + x) - at0 = x
    BY <1>1
  <2> QED
    BY <1>4, <2>1
<1>11. w[at0 + l + 1] = "NUL"
  <2>1. at0 + l + 1 \in 1..n /\ at0 + l + 1 \notin at0 + 1..at0 + l
    BY <1>1
  <2> QED
    BY <1>4, <2>1
<1> QED
  BY <1>8, <1>9, <1>10, <1>11 DEF w, l, n

\* The text a reader finds.
LEMMA VisibleFact ==
  ASSUME NEW b, NEW t, Holds(b, t)
  PROVE  B!Visible(b) = t
<1> DEFINE m == b.str
           l == Len(t)
           I == {x \in 1..Len(m) : m[x] = "NUL"}
<1>1. /\ m \in Seq(Char) /\ t \in PlainTexts /\ Len(m) \in Nat /\ l \in Nat /\ l < Len(m)
      /\ \A x \in 1..l : m[x] = t[x]
      /\ m[l + 1] = "NUL"
  <2>1. b \in Buffer /\ t \in PlainTexts /\ l < Len(m) /\ m[l + 1] = "NUL" /\ \A x \in 1..l : m[x] = t[x]
    BY DEF Holds, Starts
  <2>2. m \in Seq(Char)
    BY <2>1 DEF Buffer
  <2>3. Len(m) \in Nat
    BY <2>2
  <2> QED
    BY <2>1, <2>2, <2>3, TextFact
<1>2. \A x \in 1..l : t[x] # "NUL" /\ t[x] \in Char
  BY <1>1, TextFact
<1>3. t \in Seq(Char)
  BY <1>1, TextFact
<1>4. B!Visible(b) = SubSeq(m, 1, (IF I # {} THEN B!Min(I) ELSE 0) - 1)
  BY DEF B!Visible, B!SelectInSeq, B!NUL
<1> HIDE DEF m, l
<1>5. l + 1 \in I /\ \A x \in I : l + 1 <= x
  BY <1>1, <1>2
<1>6. B!Min(I) = l + 1
  <2>1. I \subseteq Int
    OBVIOUS
  <2> HIDE DEF I
  <2>2. B!Min(I) \in I /\ \A x \in I : B!Min(I) <= x
    BY <1>5, Zenon DEF B!Min
  <2>3. B!Min(I) <= l + 1 /\ l + 1 <= B!Min(I) /\ B!Min(I) \in Int
    BY <1>5, <2>1, <2>2
  <2> QED
    BY <1>1, <2>3
<1>7. B!Visible(b) = SubSeq(m, 1, l)
  <2>1. I # {} /\ (l + 1) - 1 = l
    BY <1>1, <1>5
  <2> HIDE DEF I
  <2> QED
    BY <1>4, <1>6, <2>1
<1> DEFINE s == SubSeq(m, 1, l)
<1>8. s \in Seq(Char) /\ Len(s) = (IF 1 <= l THEN l - 1 + 1 ELSE 0) /\ \A z \in 1..l - 1 + 1 : s[z] = m[1 + z - 1]
  BY <1>1, SubFact
<1> HIDE DEF s
<1>9. Len(s) = l /\ \A x \in 1..l : s[x] = t[x]
  <2>1. Len(s) = l
    BY <1>1, <1>8
  <2>2. \A x \in 1..l : x \in 1..l - 1 + 1 /\ 1 + x - 1 = x
    BY <1>1
  <2>3. \A x \in 1..l : s[x] = m[x]
    BY <1>8, <2>2
  <2> QED
    BY <1>1, <2>1, <2>3
<1>10. s = t
  BY <1>3, <1>8, <1>9, SeqEqual DEF l
<1> QED
  BY <1>7, <1>10 DEF s

\* A text is put behind the beginning of another, in memory with room for both.
LEMMA PutHolds ==
  ASSUME NEW m \in Seq(Char), NEW p \in PlainTexts, \A x \in 1..Len(p) : m[x] = p[x],
         NEW t \in PlainTexts, Len(p) + Len(t) < Len(m),
         NEW b \in Buffer, b.str = B!Put(m, Len(p), t)
  PROVE  Holds(b, p \o t) /\ Len(b.str) = Len(m)
<1> DEFINE w == B!Put(m, Len(p), t)
           u == p \o t
<1>0. Len(p) \in Nat /\ Len(t) \in Nat
  BY TextFact
<1>3. /\ w \in Seq(Char) /\ Len(w) = Len(m)
      /\ \A x \in 1..Len(p) : w[x] = m[x]
      /\ \A x \in 1..Len(t) : w[Len(p) + x] = t[x]
      /\ w[Len(p) + Len(t) + 1] = "NUL"
  BY <1>0, PutFact
<1>4. /\ u \in PlainTexts /\ Len(u) = Len(p) + Len(t)
      /\ \A x \in 1..Len(p) : u[x] = p[x]
      /\ \A x \in 1..Len(t) : u[Len(p) + x] = t[x]
  BY BehindFact
<1>5. b.str = w
  BY DEF w
<1> HIDE DEF w, u
<1>6. Len(m) \in Nat
  OBVIOUS
<1>7. \A x \in 1..Len(u) : w[x] = u[x]
  <2> TAKE x \in 1..Len(u)
  <2>1. CASE x <= Len(p)
    <3>1. x \in 1..Len(p)
      BY <1>0, <1>4, <2>1
    <3> QED
      BY <1>3, <1>4, <3>1
  <2>2. CASE ~(x <= Len(p))
    <3>1. x - Len(p) \in 1..Len(t) /\ Len(p) + (x - Len(p)) = x
      BY <1>0, <1>4, <2>2
    <3>2. w[Len(p) + (x - Len(p))] = t[x - Len(p)] /\ u[Len(p) + (x - Len(p))] = t[x - Len(p)]
      BY <1>3, <1>4, <3>1
    <3> QED
      BY <3>1, <3>2
  <2> QED
    BY <2>1, <2>2
<1>8. Len(u) < Len(w) /\ Len(u) <= Len(w) /\ Len(u) + 1 = Len(p) + Len(t) + 1
  BY <1>0, <1>3, <1>4, <1>6
<1>9. Holds(b, u)
  BY <1>3, <1>4, <1>5, <1>7, <1>8 DEF Holds, Starts
<1> QED
  BY <1>3, <1>5, <1>9 DEF u

\* Or in memory that grows to have it.
LEMMA GrownHolds ==
  ASSUME NEW m \in Seq(Char), NEW p \in PlainTexts, Len(p) <= Len(m), \A x \in 1..Len(p) : m[x] = p[x],
         NEW t \in PlainTexts, NEW n \in Nat, Len(p) + Len(t) < n,
         NEW b, b.str = B!Put(B!Grown(m, n), Len(p), t), b.len \in Int, b.baslen \in Nat,
         b = [str |-> b.str, len |-> b.len, baslen |-> b.baslen]
  PROVE  Holds(b, p \o t) /\ n <= Len(b.str)
<1> DEFINE g == B!Grown(m, n)
<1>0. Len(p) \in Nat /\ Len(t) \in Nat
  BY TextFact
<1>1. /\ g \in Seq(Char) /\ n <= Len(g) /\ Len(m) <= Len(g)
      /\ \A x \in 1..Len(m) : g[x] = m[x]
  BY GrownFact
<1>2. Len(g) \in Nat /\ Len(m) \in Nat
  BY <1>1
<1>3. b.str = B!Put(g, Len(p), t)
  OBVIOUS
<1> HIDE DEF g
<1>4. Len(p) + Len(t) < Len(g) /\ \A x \in 1..Len(p) : x \in 1..Len(m)
  BY <1>0, <1>1, <1>2
<1>5. \A x \in 1..Len(p) : g[x] = p[x]
  BY <1>1, <1>4
<1>6. b.str \in Seq(Char)
  BY <1>0, <1>1, <1>3, <1>4, PutFact
<1>7. b \in Buffer
  BY <1>6 DEF Buffer
<1>8. Holds(b, p \o t) /\ Len(b.str) = Len(g)
  BY <1>1, <1>3, <1>4, <1>5, <1>7, PutHolds
<1> QED
  BY <1>1, <1>8

\* What a buffer is made of.
LEMMA BufferFact ==
  ASSUME NEW b \in Buffer
  PROVE  b.str \in Seq(Char) /\ Len(b.str) \in Nat /\ b.len \in Int /\ b.baslen \in Nat
<1>1. b.str \in Seq(Char) /\ b.len \in Int /\ b.baslen \in Nat
  BY DEF Buffer
<1> QED
  BY <1>1

\* strbuf_concat2() and its kin, which write behind the text that ends at the length.
LEMMA ConcatKeeps ==
  ASSUME NEW b \in Buffer, NEW p \in PlainTexts, Starts(b, p), b.len = Len(p), NEW t \in PlainTexts, NEW e \in Nat
  PROVE  /\ Exact(B!strbuf_concat2(b, t, e), p \o t)
         /\ B!strbuf_concat2(b, t, e).baslen = b.baslen
<1> DEFINE n == b.len + (Len(t) + e) + 1
           c == B!strbuf_concat2(b, t, e)
<1>1. b.str \in Seq(Char) /\ b.len \in Int /\ b.baslen \in Nat /\ Len(p) \in Nat /\ Len(t) \in Nat
  BY BufferFact, TextFact
<1>2. n \in Nat /\ Len(p) + Len(t) < n
  BY <1>1
<1>3. c.str = B!Put(B!Grown(b.str, n), Len(p), t) /\ c.len = b.len + Len(t) /\ c.baslen = b.baslen
      /\ c = [str |-> c.str, len |-> c.len, baslen |-> c.baslen]
  <2>1. b = [str |-> b.str, len |-> b.len, baslen |-> b.baslen]
    BY DEF Buffer
  <2> DEFINE g == B!strbuf_growlen(b, Len(t) + e)
  <2>2. g = [str |-> B!Grown(b.str, n), len |-> b.len, baslen |-> b.baslen]
    BY <2>1 DEF B!strbuf_growlen
  <2>3. c = [g EXCEPT !.str = B!Put(@, b.len, t), !.len = @ + Len(t)]
    BY DEF B!strbuf_concat2
  <2> HIDE DEF g, c, n
  <2> QED
    BY <2>2, <2>3
<1> HIDE DEF n, c
<1>4. Len(p) <= Len(b.str) /\ \A x \in 1..Len(p) : b.str[x] = p[x]
  BY DEF Starts
<1>8. Holds(c, p \o t)
  <2>1. c.len \in Int /\ c.baslen \in Nat
    BY <1>1, <1>3
  <2> QED
    BY <1>1, <1>2, <1>3, <1>4, <2>1, GrownHolds
<1>9. c.len = Len(p \o t)
  BY <1>1, <1>3, BehindFact
<1> QED
  BY <1>3, <1>8, <1>9 DEF Exact, c

\* A buffer that holds a text begins with it, and with each part of its beginning.
LEMMA HoldsFact ==
  ASSUME NEW b, NEW t, Holds(b, t)
  PROVE  /\ b \in Buffer /\ t \in PlainTexts /\ Starts(b, t) /\ Len(t) \in Nat /\ Len(t) < Len(b.str)
         /\ b.str[Len(t) + 1] = "NUL"
         /\ \A n \in 0..Len(t) : /\ SubSeq(t, 1, n) \in PlainTexts /\ Len(SubSeq(t, 1, n)) = n
                                 /\ Starts(b, SubSeq(t, 1, n))
<1>1. b \in Buffer /\ t \in PlainTexts /\ Starts(b, t) /\ Len(t) \in Nat /\ Len(t) < Len(b.str)
      /\ b.str[Len(t) + 1] = "NUL"
  BY TextFact DEF Holds
<1>2. ASSUME NEW n \in 0..Len(t)
      PROVE  SubSeq(t, 1, n) \in PlainTexts /\ Len(SubSeq(t, 1, n)) = n /\ Starts(b, SubSeq(t, 1, n))
  <2> DEFINE s == SubSeq(t, 1, n)
  <2>1. /\ s \in PlainTexts /\ Len(s) = (IF 1 <= n THEN n - 1 + 1 ELSE 0)
        /\ \A z \in 1..n - 1 + 1 : s[z] = t[1 + z - 1]
    BY <1>1, PartFact
  <2> HIDE DEF s
  <2>2. Len(s) = n
    BY <1>1, <2>1
  <2>3. \A x \in 1..Len(s) : x \in 1..Len(t) /\ x \in 1..n - 1 + 1 /\ 1 + x - 1 = x
    BY <1>1, <2>2
  <2>4. \A x \in 1..Len(s) : b.str[x] = s[x]
    BY <1>1, <2>1, <2>3 DEF Starts
  <2>5. Len(s) <= Len(b.str)
    <3>1. Len(b.str) \in Nat
      BY <1>1, BufferFact
    <3> QED
      BY <1>1, <2>2, <3>1
  <2> QED
    BY <2>1, <2>2, <2>4, <2>5 DEF s, Starts
<1> QED
  BY <1>1, <1>2

\* strbuf_concatat_base() writes over what is behind the initial text.
LEMMA ConcatAtKeeps ==
  ASSUME NEW b \in Buffer, NEW p \in PlainTexts, Starts(b, p), b.baslen = Len(p), b.baslen <= b.len,
         b.len = b.baslen \/ b.len < Len(b.str), NEW t \in PlainTexts
  PROVE  /\ Holds(B!strbuf_concatat_base(b, t), p \o t)
         /\ B!strbuf_concatat_base(b, t).baslen = b.baslen
         /\ Len(p \o t) <= B!strbuf_concatat_base(b, t).len
         /\ B!strbuf_concatat_base(b, t).len < Len(B!strbuf_concatat_base(b, t).str)
<1> DEFINE c == B!strbuf_concatat_base(b, t)
<1>1. b.str \in Seq(Char) /\ b.len \in Int /\ b.baslen \in Nat /\ Len(p) \in Nat /\ Len(t) \in Nat /\ Len(b.str) \in Nat
  BY BufferFact, TextFact
<1>2. Len(p \o t) = Len(p) + Len(t)
  BY BehindFact
<1>3. Len(p) <= Len(b.str) /\ \A x \in 1..Len(p) : b.str[x] = p[x]
  BY DEF Starts
<1>4. CASE b.len = b.baslen
  <2> DEFINE d == B!strbuf_concat2(b, t, 0)
  <2>1. c = d
    BY <1>4 DEF B!strbuf_concatat_base, B!strbuf_concat
  <2>2. Exact(d, p \o t) /\ d.baslen = b.baslen
    BY <1>4, ConcatKeeps
  <2> HIDE DEF c, d
  <2>3. Holds(c, p \o t) /\ c.baslen = b.baslen /\ c.len = Len(p \o t)
    BY <2>1, <2>2 DEF Exact
  <2>4. Len(p \o t) < Len(c.str)
    BY <2>3 DEF Holds
  <2> QED
    BY <1>1, <1>2, <2>3, <2>4 DEF c
<1>5. CASE b.len # b.baslen
  <2> DEFINE over == b.len - (b.baslen + 1)
             alloc == IF Len(t) > over THEN Len(t) - over ELSE 0
             n == b.len + alloc + 1
             g == IF alloc > 0 THEN B!strbuf_growlen(b, alloc) ELSE b
             r == B!Grown(b.str, n)
             m == IF alloc > 0 THEN r ELSE b.str
  <2>1. c = [g EXCEPT !.str = B!Put(@, b.baslen, t), !.len = @ + alloc]
    BY <1>5 DEF B!strbuf_concatat_base
  <2>2. b = [str |-> b.str, len |-> b.len, baslen |-> b.baslen]
    BY DEF Buffer
  <2>3. g = [str |-> m, len |-> b.len, baslen |-> b.baslen]
    <3>1. B!strbuf_growlen(b, alloc) = [str |-> r, len |-> b.len, baslen |-> b.baslen]
      BY <2>2 DEF B!strbuf_growlen
    <3> HIDE DEF r, alloc
    <3> QED
      BY <2>2, <3>1
  <2>4. over \in Int /\ alloc \in Nat /\ n \in Nat /\ Len(t) <= over + alloc /\ over = b.len - (Len(p) + 1)
        /\ n = b.len + alloc + 1
    BY <1>1
  <2>5. r \in Seq(Char) /\ n <= Len(r) /\ Len(b.str) <= Len(r) /\ \A x \in 1..Len(b.str) : r[x] = b.str[x]
    <3> HIDE DEF n
    <3> QED
      BY <1>1, <2>4, GrownFact
  <2>6. Len(r) \in Nat
    BY <2>5
  <2> HIDE DEF over, n, r
  <2>7. m \in Seq(Char) /\ b.len + alloc < Len(m) /\ \A x \in 1..Len(p) : m[x] = p[x]
    <3>1. CASE alloc > 0
      <4>1. m = r
        BY <3>1
      <4>2. \A x \in 1..Len(p) : x \in 1..Len(b.str)
        BY <1>1, <1>3
      <4> HIDE DEF m, alloc
      <4>3. b.len + alloc < Len(r)
        BY <1>1, <2>4, <2>5, <2>6
      <4> QED
        BY <1>3, <2>5, <4>1, <4>2, <4>3
    <3>2. CASE ~(alloc > 0)
      <4>1. m = b.str
        BY <3>2
      <4>2. alloc = 0
        BY <2>4, <3>2
      <4> HIDE DEF m, alloc
      <4>3. b.len + alloc < Len(b.str)
        BY <1>1, <1>5, <4>2
      <4> QED
        BY <1>1, <1>3, <4>1, <4>3
    <3> QED
      BY <3>1, <3>2
  <2> HIDE DEF g, m, alloc, c
  <2>8. c = [str |-> B!Put(m, Len(p), t), len |-> b.len + alloc, baslen |-> b.baslen]
    BY <2>1, <2>3
  <2>9. Len(m) \in Nat
    BY <2>7
  <2>10. Len(p) + Len(t) < Len(m) /\ Len(p) + Len(t) <= b.len + alloc
    BY <1>1, <2>4, <2>7, <2>9, SMTT(30)
  <2>11. B!Put(m, Len(p), t) \in Seq(Char) /\ b.len + alloc \in Int
    BY <1>1, <2>4, <2>7, <2>10, PutFact
  <2>12. c \in Buffer /\ c.str = B!Put(m, Len(p), t) /\ c.len = b.len + alloc /\ c.baslen = b.baslen
    BY <1>1, <2>8, <2>11 DEF Buffer
  <2>13. Holds(c, p \o t) /\ Len(c.str) = Len(m)
    BY <2>7, <2>10, <2>12, PutHolds
  <2> QED
    BY <1>2, <2>7, <2>10, <2>12, <2>13 DEF c
<1> QED
  BY <1>4, <1>5

\* An end is put into memory.
LEMMA EndFact ==
  ASSUME NEW m \in Seq(Char), NEW k \in Nat, k < Len(m)
  PROVE  /\ [m EXCEPT ![k + 1] = "NUL"] \in Seq(Char) /\ Len([m EXCEPT ![k + 1] = "NUL"]) = Len(m)
         /\ [m EXCEPT ![k + 1] = "NUL"][k + 1] = "NUL"
         /\ \A x \in 1..Len(m) : x # k + 1 => [m EXCEPT ![k + 1] = "NUL"][x] = m[x]
<1> DEFINE w == [m EXCEPT ![k + 1] = "NUL"]
           n == Len(m)
<1>1. n \in Nat /\ DOMAIN m = 1..n /\ k + 1 \in 1..n /\ \A x \in 1..n : m[x] \in Char
  OBVIOUS
<1>2. w = [x \in 1..n |-> IF x = k + 1 THEN "NUL" ELSE m[x]]
  BY <1>1
<1> HIDE DEF w, n
<1>3. w \in [1..n -> Char]
  BY <1>1, <1>2, CharFact
<1>4. w \in Seq(Char) /\ Len(w) = n
  BY <1>1, <1>3
<1> QED
  BY <1>1, <1>2, <1>4 DEF w, n

\* strbuf_trunc(), field by field.
LEMMA TruncForm ==
  ASSUME NEW b \in Buffer, NEW n
  PROVE  B!strbuf_trunc(b, n) = [str |-> [b.str EXCEPT ![b.len - n + 1] = "NUL"], len |-> b.len - n, baslen |-> b.baslen]
<1> DEFINE j == b.len - n
           k == j + 1
           v == [b.str EXCEPT ![k] = "NUL"]
<1>1. B!strbuf_trunc(b, n) = [b EXCEPT !.len = j, !.str = v]
  BY Zenon DEF B!strbuf_trunc, B!NUL
<1> HIDE DEF j, k, v
<1>2. [b EXCEPT !.len = j, !.str = v] = [str |-> v, len |-> j, baslen |-> b.baslen]
  <2>1. PICK bs, bl, bq : b = [str |-> bs, len |-> bl, baslen |-> bq]
    BY DEF Buffer
  <2> DEFINE a == [b EXCEPT !.len = j]
  <2>2. [b EXCEPT !.len = j, !.str = v] = [a EXCEPT !.str = v]
    BY <2>1
  <2>3. a = [str |-> bs, len |-> j, baslen |-> bq]
    BY <2>1
  <2> HIDE DEF a
  <2>4. [a EXCEPT !.str = v] = [str |-> v, len |-> j, baslen |-> bq]
    BY <2>3
  <2>5. b.baslen = bq
    BY <2>1
  <2> QED
    BY <2>2, <2>4, <2>5
<1> QED
  BY <1>1, <1>2 DEF v, k, j

\* strbuf_trunc() ends a buffer at what is then its text.
LEMMA TruncKeeps ==
  ASSUME NEW b \in Buffer, NEW t \in PlainTexts, Starts(b, t), Len(t) < Len(b.str), NEW n \in Int, b.len - n = Len(t)
  PROVE  Exact(B!strbuf_trunc(b, n), t) /\ B!strbuf_trunc(b, n).baslen = b.baslen
<1> DEFINE c == B!strbuf_trunc(b, n)
           w == [b.str EXCEPT ![Len(t) + 1] = "NUL"]
<1>1. b.str \in Seq(Char) /\ b.len \in Int /\ b.baslen \in Nat /\ Len(t) \in Nat /\ Len(b.str) \in Nat
  BY BufferFact, TextFact
<1>2. c = [str |-> w, len |-> Len(t), baslen |-> b.baslen]
  <2> DEFINE j == b.len - n
  <2>1. c = [str |-> [b.str EXCEPT ![j + 1] = "NUL"], len |-> j, baslen |-> b.baslen]
    BY TruncForm
  <2>2. j = Len(t)
    OBVIOUS
  <2> HIDE DEF j
  <2> QED
    BY <2>1, <2>2
<1>3. /\ w \in Seq(Char) /\ Len(w) = Len(b.str) /\ w[Len(t) + 1] = "NUL"
      /\ \A x \in 1..Len(b.str) : x # Len(t) + 1 => w[x] = b.str[x]
  BY <1>1, EndFact
<1> HIDE DEF w, c
<1>4. \A x \in 1..Len(t) : x \in 1..Len(b.str) /\ x # Len(t) + 1
  BY <1>1
<1>5. \A x \in 1..Len(t) : w[x] = t[x]
  BY <1>3, <1>4 DEF Starts
<1>6. c \in Buffer /\ c.str = w /\ c.len = Len(t) /\ c.baslen = b.baslen
  BY <1>1, <1>2, <1>3 DEF Buffer
<1>7. Len(t) <= Len(w)
  BY <1>1, <1>3
<1>8. Exact(c, t)
  BY <1>3, <1>5, <1>6, <1>7 DEF Exact, Holds, Starts
<1> QED
  BY <1>6, <1>8 DEF c

\* The last slash.
LEMMA SlashFact ==
  ASSUME NEW t \in PlainTexts
  PROVE  /\ B!strbuf_strrsep(t) \in 0..Len(t)
         /\ B!strbuf_strrsep(t) # 0 => t[B!strbuf_strrsep(t)] = "/"
         /\ \A x \in B!strbuf_strrsep(t) + 1..Len(t) : t[x] # "/"
<1> DEFINE r == B!strbuf_strrsep(t)
           I == {x \in 1..Len(t) : t[x] = "/"}
<1>1. Len(t) \in Nat
  BY TextFact
<1>2. r = IF I # {} THEN B!Max(I) ELSE 0
  BY DEF B!strbuf_strrsep, B!SelectLastInSeq
<1>3. CASE I # {}
  <2>1. I \subseteq 1..Len(t)
    OBVIOUS
  <2>2. B!Max(I) = Max(I)
    BY DEF B!Max, Max
  <2> HIDE DEF I
  <2>3. Max(I) \in I /\ \A y \in I : y <= Max(I)
    BY <1>1, <1>3, <2>1, MaxFact
  <2>4. r \in I /\ \A y \in I : y <= r
    BY <1>2, <1>3, <2>2, <2>3
  <2> HIDE DEF r
  <2> QED
    BY <1>1, <2>4 DEF I, r
<1>4. CASE I = {}
  <2>1. r = 0
    BY <1>2, <1>4
  <2> QED
    BY <1>1, <1>4, <2>1
<1> QED
  BY <1>3, <1>4

\* strbuf_to_dirname()
LEMMA DirnameKeeps ==
  ASSUME NEW b, NEW t, Exact(b, t), B!strbuf_strrsep(t) > 1
  PROVE  /\ Exact(B!strbuf_to_dirname(b), SubSeq(t, 1, B!strbuf_strrsep(t) - 1))
         /\ B!strbuf_to_dirname(b).baslen = b.baslen
<1> DEFINE r == B!strbuf_strrsep(t)
           n == r - 1
           u == SubSeq(t, 1, n)
<1>1. Holds(b, t) /\ b.len = Len(t)
  BY DEF Exact
<1>2. b \in Buffer /\ t \in PlainTexts /\ Len(t) \in Nat /\ Len(t) < Len(b.str) /\ Len(b.str) \in Nat
  BY <1>1, HoldsFact, BufferFact
<1>3. r \in 0..Len(t) /\ r > 1
  BY <1>2, SlashFact
<1> HIDE DEF r
<1>4. n \in 0..Len(t)
  BY <1>2, <1>3
<1> HIDE DEF n
<1>5. u \in PlainTexts /\ Len(u) = n /\ Starts(b, u)
  BY <1>1, <1>4, HoldsFact
<1> HIDE DEF u
<1>6. B!Visible(b) = t
  BY <1>1, VisibleFact
<1>7. B!strbuf_to_dirname(b) = B!strbuf_trunc(b, b.len - n)
  BY <1>6 DEF B!strbuf_to_dirname, n, r
<1>8. b.len - n \in Int /\ b.len - (b.len - n) = Len(u) /\ Len(u) < Len(b.str)
  BY <1>1, <1>2, <1>4, <1>5
<1> HIDE DEF n
<1>9. Exact(B!strbuf_trunc(b, b.len - n), u) /\ B!strbuf_trunc(b, b.len - n).baslen = b.baslen
  BY <1>2, <1>5, <1>8, TruncKeeps
<1> QED
  BY <1>7, <1>9 DEF u, n, r

\* Backslashes become slashes.
LEMMA SlashesFact ==
  ASSUME NEW t \in PlainTexts
  PROVE  B!Slashes(t) \in PlainTexts /\ Len(B!Slashes(t)) = Len(t)
<1> DEFINE s == B!Slashes(t)
           l == Len(t)
<1>1. t \in Seq(Char) /\ l \in Nat /\ DOMAIN t = 1..l /\ \A x \in 1..l : t[x] \in Char /\ t[x] # "NUL"
  <2>1. t \in Seq(Char)
    BY TextFact
  <2> QED
    BY <2>1, TextFact
<1>2. DOMAIN s = 1..l /\ \A x \in 1..l : s[x] = "/" \/ s[x] = t[x]
  BY <1>1, Zenon DEF B!Slashes
<1>3. s = [x \in 1..l |-> s[x]]
  BY <1>1 DEF B!Slashes
<1> HIDE DEF s, l
<1>4. \A x \in 1..l : s[x] \in Char /\ s[x] # "NUL"
  <2> TAKE x \in 1..l
  <2>1. s[x] = "/" \/ s[x] = t[x]
    BY <1>2
  <2> QED
    BY <1>1, <2>1, CharFact
<1>5. s \in [1..l -> Char]
  BY <1>3, <1>4
<1>6. s \in Seq(Char) /\ Len(s) = l
  BY <1>1, <1>5
<1>7. s \in PlainTexts
  BY <1>2, <1>4, <1>6 DEF PlainTexts
<1> QED
  BY <1>6, <1>7 DEF s, l

\* strbuf_normalize_path(), when the length is not less than the text's.
LEMMA NormalKeeps ==
  ASSUME NEW b, NEW t, Holds(b, t), Len(t) <= b.len, b.len < Len(b.str)
  PROVE  /\ b.len = Len(t) => Exact(B!strbuf_normalize_path(b), B!Normal(t))
         /\ B!strbuf_normalize_path(b).baslen = IF b.baslen = b.len THEN B!strbuf_normalize_path(b).len ELSE b.baslen
         /\ \E u : /\ Holds(B!strbuf_normalize_path(b), u) /\ Len(u) <= B!strbuf_normalize_path(b).len
                   /\ B!strbuf_normalize_path(b).len < Len(B!strbuf_normalize_path(b).str)
<1> DEFINE w == [x \in DOMAIN b.str |-> IF x <= b.len /\ b.str[x] = "\\" THEN "/" ELSE b.str[x]]
           n == [b EXCEPT !.str = w]
           s == B!Slashes(t)
           sep == B!strbuf_strrsep(s)
           cut == B!strbuf_trunc(n, 1)
           c == B!strbuf_normalize_path(b)
<1>1. /\ b \in Buffer /\ t \in PlainTexts /\ Len(t) \in Nat /\ Len(t) < Len(b.str) /\ Len(b.str) \in Nat
      /\ b.str \in Seq(Char) /\ b.len \in Int /\ b.baslen \in Nat /\ b.str[Len(t) + 1] = "NUL"
      /\ \A x \in 1..Len(t) : b.str[x] = t[x]
  BY HoldsFact, BufferFact DEF Starts
<1>2. s \in PlainTexts /\ Len(s) = Len(t)
  BY <1>1, SlashesFact
<1>3. w \in Seq(Char) /\ Len(w) = Len(b.str)
  <2> DEFINE l == Len(b.str)
  <2>1. DOMAIN b.str = 1..l /\ \A x \in 1..l : b.str[x] \in Char
    BY <1>1
  <2>2. w = [x \in 1..l |-> w[x]] /\ \A x \in 1..l : w[x] = "/" \/ w[x] = b.str[x]
    BY <2>1
  <2> HIDE DEF w, l
  <2>3. \A x \in 1..l : w[x] \in Char
    BY <2>1, <2>2, CharFact
  <2>4. w \in [1..l -> Char]
    BY <2>2, <2>3
  <2>5. l \in Nat
    BY <1>1 DEF l
  <2> QED
    BY <2>4, <2>5 DEF l
<1>4. w[Len(t) + 1] = "NUL" /\ \A x \in 1..Len(t) : w[x] = s[x]
  <2>1. DOMAIN b.str = 1..Len(b.str) /\ DOMAIN t = 1..Len(t)
    <3>1. t \in Seq(Char)
      BY <1>1, TextFact
    <3> QED
      BY <1>1, <3>1
  <2>2. Len(t) + 1 \in DOMAIN b.str /\ ~(b.str[Len(t) + 1] = "\\")
    BY <1>1, <2>1
  <2>3. w[Len(t) + 1] = "NUL"
    BY <1>1, <2>2
  <2>4. ASSUME NEW x \in 1..Len(t) PROVE w[x] = s[x]
    <3>1. x \in DOMAIN b.str /\ x \in DOMAIN t /\ x <= b.len /\ b.str[x] = t[x]
      BY <1>1, <2>1
    <3> QED
      BY <3>1 DEF B!Slashes
  <2> QED
    BY <2>3, <2>4
<1>5. n = [str |-> w, len |-> b.len, baslen |-> b.baslen]
  <2>1. b = [str |-> b.str, len |-> b.len, baslen |-> b.baslen]
    BY <1>1 DEF Buffer
  <2> HIDE DEF w
  <2> QED
    BY <2>1
<1>6. c = LET q == B!strbuf_strrsep(B!Visible(n)) IN
          IF q = 0 \/ q # Len(B!Visible(n)) THEN n
          ELSE IF b.baslen = b.len THEN [cut EXCEPT !.baslen = cut.len] ELSE cut
  BY DEF B!strbuf_normalize_path
<1> HIDE DEF w, n
<1>7. n \in Buffer /\ n.str = w /\ n.len = b.len /\ n.baslen = b.baslen
  BY <1>1, <1>3, <1>5 DEF Buffer
<1>8. Holds(n, s)
  <2>1. Len(s) < Len(w) /\ Len(s) <= Len(w)
    BY <1>1, <1>2, <1>3
  <2> QED
    BY <1>2, <1>4, <1>7, <2>1 DEF Holds, Starts
<1>9. B!Visible(n) = s
  BY <1>8, VisibleFact
<1>10. c = IF sep = 0 \/ sep # Len(s) THEN n
           ELSE IF b.baslen = b.len THEN [cut EXCEPT !.baslen = cut.len] ELSE cut
  BY <1>6, <1>9
<1>11. /\ sep \in 0..Len(s)
       /\ sep # 0 => s[sep] = "/"
       /\ \A x \in sep + 1..Len(s) : s[x] # "/"
  BY <1>2, SlashFact
<1>12. B!Normal(t) = IF s # <<>> /\ s[Len(s)] = "/" THEN SubSeq(s, 1, Len(s) - 1) ELSE s
  BY DEF B!Normal, B!Last, B!Front
<1> HIDE DEF s, sep, cut, c
<1>13. CASE sep = 0 \/ sep # Len(s)
  <2>1. c = n
    BY <1>10, <1>13
  <2>2. B!Normal(t) = s
    <3>1. s # <<>> => s[Len(s)] # "/"
      <4>1. s \in Seq(Char)
        BY <1>2, TextFact
      <4>2. s # <<>> => Len(s) >= 1
        BY <4>1
      <4>3. s # <<>> => Len(s) \in sep + 1..Len(s)
        <5>1. Len(s) \in Nat
          BY <1>1, <1>2
        <5> DEFINE l == Len(s)
        <5> HIDE DEF l
        <5>2. l \in Nat /\ sep \in 0..l /\ (sep = 0 \/ sep # l) /\ (s # <<>> => l >= 1)
          <6>1. sep \in 0..l
            BY <1>11 DEF l
          <6>2. sep = 0 \/ sep # l
            BY <1>13 DEF l
          <6> QED
            BY <4>2, <5>1, <6>1, <6>2 DEF l
        <5>3. s # <<>> => l \in sep + 1..l
          BY <5>2
        <5> QED
          BY <5>3 DEF l
      <4> QED
        BY <1>11, <4>3
    <3> QED
      BY <1>12, <3>1
  <2>3. b.len = Len(t) => Exact(c, B!Normal(t))
    BY <1>2, <1>7, <1>8, <2>1, <2>2 DEF Exact
  <2>4. Holds(c, s) /\ Len(s) <= c.len /\ c.len < Len(c.str) /\ c.baslen = b.baslen /\ c.len = b.len
    BY <1>2, <1>3, <1>7, <1>8, <2>1
  <2> QED
    BY <2>3, <2>4 DEF c
<1>14. CASE sep # 0 /\ sep = Len(s)
  <2> DEFINE f == SubSeq(s, 1, Len(s) - 1)
             k == Len(s) - 1
  <2>1. k \in 0..Len(s) /\ Len(s) = k + 1
    BY <1>1, <1>2, <1>11, <1>14
  <2>2. f = SubSeq(s, 1, k)
    OBVIOUS
  <2>3. B!Normal(t) = f
    <3>1. s # <<>>
      <4>1. s \in Seq(Char)
        BY <1>2, TextFact
      <4> QED
        BY <1>14, <4>1
    <3> QED
      BY <1>11, <1>12, <1>14, <3>1
  <2> HIDE DEF k, f
  <2>4. f \in PlainTexts /\ Len(f) = k /\ Starts(n, f)
    BY <1>8, <2>1, <2>2, HoldsFact
  <2>5. c = IF b.baslen = b.len THEN [cut EXCEPT !.baslen = cut.len] ELSE cut
    BY <1>10, <1>14
  <2>6. ASSUME NEW u, Holds(cut, u), cut.baslen = b.baslen
        PROVE  /\ Holds(c, u) /\ c.len = cut.len /\ c.str = cut.str
               /\ c.baslen = IF b.baslen = b.len THEN c.len ELSE b.baslen
    <3>1. cut \in Buffer
      BY <2>6, HoldsFact
    <3>2. cut = [str |-> cut.str, len |-> cut.len, baslen |-> cut.baslen]
      BY <3>1 DEF Buffer
    <3>3. b.baslen = b.len => c = [str |-> cut.str, len |-> cut.len, baslen |-> cut.len]
      BY <2>5, <3>2
    <3>4. c.len = cut.len /\ c.str = cut.str /\ (b.baslen = b.len => c.baslen = c.len) /\ (b.baslen # b.len => c.baslen = b.baslen)
      BY <2>5, <2>6, <3>2, <3>3
    <3>5. c \in Buffer
      <4>1. CASE b.baslen = b.len
        <5>1. cut.len \in Nat
          <6>1. cut.len = b.len - 1
            <7>1. n.len = b.len
              BY <1>7
            <7> QED
              BY <1>7, <7>1 DEF cut, B!strbuf_trunc, Buffer
          <6> QED
            BY <1>1, <1>2, <2>1, <6>1
        <5> QED
          BY <3>1, <3>3, <4>1, <5>1 DEF Buffer
      <4>2. CASE b.baslen # b.len
        BY <2>5, <3>1, <4>2
      <4> QED
        BY <4>1, <4>2
    <3> QED
      BY <2>6, <3>4, <3>5 DEF Holds, Starts
  <2>7. CASE b.len = Len(t)
    <3>1. n.len - 1 = Len(f) /\ Len(f) < Len(n.str)
      <4>1. n.len = b.len /\ b.len = Len(s)
        BY <1>2, <1>7, <2>7
      <4>3. k \in Nat /\ Len(s) = k + 1
        BY <1>1, <1>2, <2>1
      <4>2. Len(n.str) = Len(b.str) /\ Len(s) < Len(b.str) /\ Len(b.str) \in Nat
        BY <1>1, <1>2, <1>3, <1>7
      <4>4. n.len - 1 = k /\ k < Len(n.str)
        BY <4>1, <4>2, <4>3
      <4> QED
        BY <2>4, <4>4
    <3>2. Exact(cut, f) /\ cut.baslen = n.baslen
      <4>1. 1 \in Int
        OBVIOUS
      <4> QED
        BY <1>7, <2>4, <3>1, <4>1, TruncKeeps DEF cut
    <3>3. /\ Holds(c, f) /\ c.len = cut.len /\ c.str = cut.str
          /\ c.baslen = IF b.baslen = b.len THEN c.len ELSE b.baslen
      BY <1>7, <2>6, <3>2 DEF Exact
    <3>4. Exact(c, f) /\ Len(f) <= c.len /\ c.len < Len(c.str)
      <4>1. c.len = Len(f) /\ Len(f) < Len(c.str)
        BY <3>2, <3>3, HoldsFact DEF Exact
      <4>2. Len(f) \in Nat
        BY <2>1, <2>4
      <4> QED
        BY <3>3, <4>1, <4>2 DEF Exact
    <3> QED
      BY <2>3, <3>3, <3>4 DEF c, Exact
  <2>8. CASE b.len # Len(t)
    <3> DEFINE e == b.len - 1
               v == [w EXCEPT ![e + 1] = "NUL"]
    <3>1. e \in Nat /\ e < Len(w) /\ e >= Len(s) /\ b.len - 1 + 1 = e + 1
      BY <1>1, <1>2, <1>3, <2>1, <2>8
    <3>2. cut = [str |-> v, len |-> e, baslen |-> b.baslen]
      <4>1. cut = [str |-> [n.str EXCEPT ![n.len - 1 + 1] = "NUL"], len |-> n.len - 1, baslen |-> n.baslen]
        BY <1>7, TruncForm DEF cut
      <4> QED
        BY <1>7, <4>1
    <3> HIDE DEF e
    <3>3. /\ v \in Seq(Char) /\ Len(v) = Len(w) /\ v[e + 1] = "NUL"
          /\ \A x \in 1..Len(w) : x # e + 1 => v[x] = w[x]
      BY <1>3, <3>1, EndFact
    <3> HIDE DEF v
    <3>4. \A x \in 1..Len(s) : v[x] = s[x]
      <4> TAKE x \in 1..Len(s)
      <4>1. x \in 1..Len(w) /\ x # e + 1 /\ x \in 1..Len(t)
        BY <1>1, <1>2, <1>3, <3>1
      <4> QED
        BY <1>4, <3>3, <4>1
    <3>5. v[Len(s) + 1] = "NUL"
      <4>1. CASE Len(s) = e
        BY <3>3, <4>1
      <4>2. CASE Len(s) # e
        <5>1. Len(s) + 1 \in 1..Len(w) /\ Len(s) + 1 # e + 1
          BY <1>1, <1>2, <1>3, <3>1, <4>2
        <5> QED
          BY <1>2, <1>4, <3>3, <5>1
      <4> QED
        BY <4>1, <4>2
    <3>6. cut \in Buffer /\ cut.str = v /\ cut.len = e /\ cut.baslen = b.baslen
      BY <1>1, <3>1, <3>2, <3>3 DEF Buffer
    <3>7. Holds(cut, s)
      <4>1. Len(s) < Len(v) /\ Len(s) <= Len(v)
        BY <1>1, <1>2, <1>3, <3>3
      <4> QED
        BY <1>2, <3>4, <3>5, <3>6, <4>1 DEF Holds, Starts
    <3>8. /\ Holds(c, s) /\ c.len = e /\ c.str = v
          /\ c.baslen = IF b.baslen = b.len THEN c.len ELSE b.baslen
      BY <2>6, <3>6, <3>7
    <3>9. Len(s) <= c.len /\ c.len < Len(c.str)
      BY <3>1, <3>3, <3>8
    <3> QED
      BY <2>8, <3>8, <3>9 DEF c
  <2> QED
    BY <2>7, <2>8
<1> QED
  BY <1>13, <1>14

\* Joining texts is associative, and the empty one does nothing.
LEMMA AssocFact ==
  ASSUME NEW s \in PlainTexts, NEW t \in PlainTexts, NEW u \in PlainTexts
  PROVE  /\ s \o t \o u = s \o (t \o u)
         /\ <<>> \in PlainTexts /\ <<>> \o s = s /\ s \o <<>> = s
<1>1. s \in Seq(Char) /\ t \in Seq(Char) /\ u \in Seq(Char)
  BY TextFact
<1>2. s \o t \o u = s \o (t \o u)
  BY <1>1
<1>3. <<>> \o s = s /\ s \o <<>> = s
  BY <1>1
<1>4. <<>> \in PlainTexts
  BY DEF PlainTexts
<1> QED
  BY <1>2, <1>3, <1>4

\* A slash, and a slash before a text.
LEMMA BeforeFact ==
  ASSUME NEW t \in PlainTexts
  PROVE  <<"/">> \in PlainTexts /\ <<"/">> \o t \in PlainTexts /\ Len(<<"/">> \o t) = Len(t) + 1
<1>1. <<"/">> \in Seq(Char) /\ Len(<<"/">>) = 1 /\ DOMAIN <<"/">> = {1} /\ <<"/">>[1] = "/"
  <2>1. "/" \in Char
    BY CharFact
  <2>2. <<"/">> \in Seq(Char)
    BY <2>1
  <2>3. Len(<<"/">>) = 1 /\ <<"/">>[1] = "/"
    OBVIOUS
  <2>4. DOMAIN <<"/">> = 1..1
    BY <2>2, <2>3
  <2> QED
    BY <2>2, <2>3, <2>4
<1>2. "/" # "NUL"
  OBVIOUS
<1>3. <<"/">> \in PlainTexts
  BY <1>1, <1>2 DEF PlainTexts
<1>4. Len(t) \in Nat
  BY TextFact
<1> QED
  BY <1>1, <1>3, <1>4, BehindFact

\* The length of the initial text is set.
LEMMA BaseKeeps ==
  ASSUME NEW b, NEW t, Exact(b, t), NEW n \in Nat
  PROVE  Exact([b EXCEPT !.baslen = n], t) /\ [b EXCEPT !.baslen = n].baslen = n
<1> DEFINE c == [b EXCEPT !.baslen = n]
<1>1. b \in Buffer
  BY HoldsFact DEF Exact
<1>2. c \in Buffer /\ c.str = b.str /\ c.len = b.len /\ c.baslen = n
  BY <1>1 DEF Buffer
<1> HIDE DEF c
<1>3. Exact(c, t)
  BY <1>2 DEF Exact, Holds, Starts
<1> QED
  BY <1>2, <1>3 DEF c

\* So is the length.
LEMMA LengthKeeps ==
  ASSUME NEW b \in Buffer, NEW n \in Int
  PROVE  /\ [b EXCEPT !.len = n] \in Buffer /\ [b EXCEPT !.len = n].len = n
         /\ [b EXCEPT !.len = n].str = b.str /\ [b EXCEPT !.len = n].baslen = b.baslen
BY DEF Buffer

\* A buffer of which nothing is in use.
LEMMA ClearedFact ==
  ASSUME NEW b \in Buffer
  PROVE  Starts(b, <<>>) /\ <<>> \in PlainTexts /\ Len(<<>>) = 0
<1>1. Len(b.str) \in Nat
  BY BufferFact
<1> QED
  BY <1>1 DEF Starts, PlainTexts

\* strbuf_concat2() on a buffer of which nothing is in use.
LEMMA FirstKeeps ==
  ASSUME NEW b \in Buffer, b.len = 0, NEW t \in PlainTexts, NEW e \in Nat
  PROVE  Exact(B!strbuf_concat2(b, t, e), t) /\ B!strbuf_concat2(b, t, e).baslen = b.baslen
<1>1. Starts(b, <<>>) /\ <<>> \in PlainTexts /\ b.len = Len(<<>>)
  BY ClearedFact
<1>2. Exact(B!strbuf_concat2(b, t, e), <<>> \o t) /\ B!strbuf_concat2(b, t, e).baslen = b.baslen
  BY <1>1, ConcatKeeps
<1>3. <<>> \o t = t
  BY AssocFact
<1> QED
  BY <1>2, <1>3

\* STRBUF_INIT
LEMMA InitFact == B!STRBUF_INIT \in Buffer /\ B!STRBUF_INIT.len = 0 /\ B!STRBUF_INIT.baslen = 0 /\ B!STRBUF_INIT.str = <<>>
BY DEF B!STRBUF_INIT, Buffer

\* strbuf_from2()
LEMMA FromKeeps ==
  ASSUME NEW t \in PlainTexts, NEW e \in Nat
  PROVE  Exact(B!strbuf_from2(t, e), t) /\ B!strbuf_from2(t, e).baslen = Len(t)
<1> DEFINE c == B!strbuf_concat2(B!STRBUF_INIT, t, e)
<1>1. Exact(c, t)
  BY InitFact, FirstKeeps
<1>2. Len(t) \in Nat
  BY TextFact
<1>3. B!strbuf_from2(t, e) = [c EXCEPT !.baslen = Len(t)]
  BY DEF B!strbuf_from2
<1> HIDE DEF c
<1>4. Exact([c EXCEPT !.baslen = Len(t)], t) /\ [c EXCEPT !.baslen = Len(t)].baslen = Len(t)
  BY <1>1, <1>2, BaseKeeps
<1> QED
  BY <1>3, <1>4

\* strbuf_reset_from()
LEMMA ResetFromKeeps ==
  ASSUME NEW b \in Buffer, NEW t \in PlainTexts
  PROVE  Exact(B!strbuf_reset_from(b, t), t) /\ B!strbuf_reset_from(b, t).baslen = Len(t)
<1> DEFINE a == [b EXCEPT !.len = 0]
           c == B!strbuf_concat2(a, t, 0)
<1>1. a \in Buffer /\ a.len = 0
  BY LengthKeeps
<1>2. Len(t) \in Nat
  BY TextFact
<1>3. B!strbuf_reset_from(b, t) = [c EXCEPT !.baslen = Len(t)]
  BY DEF B!strbuf_reset_from, B!strbuf_concat
<1> HIDE DEF a
<1>4. Exact(c, t)
  BY <1>1, FirstKeeps
<1> HIDE DEF c
<1>5. Exact([c EXCEPT !.baslen = Len(t)], t) /\ [c EXCEPT !.baslen = Len(t)].baslen = Len(t)
  BY <1>2, <1>4, BaseKeeps
<1> QED
  BY <1>3, <1>5

\* strbuf_reset() cuts a buffer to its initial text.
LEMMA ResetKeeps ==
  ASSUME NEW b, NEW t, Exact(b, t), b.baslen <= b.len
  PROVE  /\ Exact(B!strbuf_reset(b), SubSeq(t, 1, b.baslen)) /\ B!strbuf_reset(b).baslen = b.baslen
         /\ B!strbuf_reset(b).len = b.baslen
<1> DEFINE n == b.baslen
           u == SubSeq(t, 1, n)
<1>1. Holds(b, t) /\ b.len = Len(t)
  BY DEF Exact
<1>2. b \in Buffer /\ t \in PlainTexts /\ Len(t) \in Nat /\ Len(t) < Len(b.str) /\ Len(b.str) \in Nat /\ n \in Nat
  BY <1>1, HoldsFact, BufferFact
<1>3. n \in 0..Len(t) /\ n = b.baslen
  BY <1>1, <1>2
<1> HIDE DEF n
<1>4. u \in PlainTexts /\ Len(u) = n /\ Starts(b, u)
  BY <1>1, <1>3, HoldsFact
<1> HIDE DEF u
<1>5. b.len - n \in Int /\ b.len - (b.len - n) = Len(u) /\ Len(u) < Len(b.str)
  BY <1>1, <1>2, <1>3, <1>4
<1>6. Exact(B!strbuf_trunc(b, b.len - n), u) /\ B!strbuf_trunc(b, b.len - n).baslen = b.baslen
  BY <1>2, <1>4, <1>5, TruncKeeps
<1> QED
  BY <1>3, <1>4, <1>6 DEF B!strbuf_reset, Exact, n, u

\* strbuf_concat_basename()
LEMMA BasenameKeeps ==
  ASSUME NEW b \in Buffer, NEW p \in PlainTexts, Starts(b, p), b.len = Len(p), NEW t \in PlainTexts
  PROVE  /\ Exact(B!strbuf_concat_basename(b, t), p \o <<"/">> \o t)
         /\ B!strbuf_concat_basename(b, t).baslen = b.baslen
<1> DEFINE u == <<"/">> \o t
           n == Len(t) + 1
<1>1. u \in PlainTexts /\ Len(u) = n /\ <<"/">> \in PlainTexts /\ Len(t) \in Nat
  BY BeforeFact, TextFact
<1>2. b.len \in Int
  BY BufferFact
<1>3. B!strbuf_growlen(b, Len(u) + 0) = B!strbuf_growlen(b, Len(t) + 1)
  <2>1. Len(u) + 0 = Len(t) + 1
    BY <1>1
  <2> QED
    BY <2>1
<1>4. B!strbuf_concat_basename(b, t) = B!strbuf_concat2(b, u, 0)
  <2> DEFINE g == B!strbuf_growlen(b, n)
  <2>1. B!strbuf_concat_basename(b, t) = [g EXCEPT !.str = B!Put(@, b.len, u), !.len = @ + Len(t) + 1]
    BY DEF B!strbuf_concat_basename
  <2>2. B!strbuf_concat2(b, u, 0) = [g EXCEPT !.str = B!Put(@, b.len, u), !.len = @ + Len(u)]
    BY <1>3 DEF B!strbuf_concat2
  <2>3. g.len = b.len
    BY DEF B!strbuf_growlen, Buffer
  <2>4. g.len + Len(t) + 1 = g.len + Len(u)
    BY <1>1, <1>2, <2>3
  <2> HIDE DEF g, u
  <2> QED
    BY <2>1, <2>2, <2>4
<1> HIDE DEF u
<1>5. Exact(B!strbuf_concat2(b, u, 0), p \o u) /\ B!strbuf_concat2(b, u, 0).baslen = b.baslen
  BY <1>1, ConcatKeeps
<1>6. p \o <<"/">> \o t = p \o u
  BY <1>1, AssocFact DEF u
<1> QED
  BY <1>4, <1>5, <1>6

\* strbuf_concat_path()
LEMMA PathKeeps ==
  ASSUME NEW b \in Buffer, b.len = 0, NEW p \in PlainTexts, NEW t \in PlainTexts
  PROVE  /\ Exact(B!strbuf_concat_path(b, p, t), p \o <<"/">> \o t)
         /\ B!strbuf_concat_path(b, p, t).baslen = b.baslen
<1> DEFINE u == p \o <<"/">> \o t
           n == Len(p) + Len(t) + 1
<1>1. u \in PlainTexts /\ Len(u) = n /\ Len(t) \in Nat /\ Len(p) \in Nat
  <2>1. <<"/">> \in PlainTexts /\ Len(<<"/">>) = 1 /\ Len(t) \in Nat /\ Len(p) \in Nat
    BY BeforeFact, TextFact
  <2>2. p \o <<"/">> \in PlainTexts /\ Len(p \o <<"/">>) = Len(p) + 1
    BY <2>1, BehindFact
  <2>3. u \in PlainTexts /\ Len(u) = Len(p \o <<"/">>) + Len(t)
    BY <2>2, BehindFact
  <2> QED
    BY <2>1, <2>2, <2>3
<1>2. B!strbuf_growlen(b, Len(u) + 0) = B!strbuf_growlen(b, Len(p) + Len(t) + 1)
  <2>1. Len(u) + 0 = Len(p) + Len(t) + 1
    BY <1>1
  <2> QED
    BY <2>1
<1>3. B!strbuf_concat_path(b, p, t) = B!strbuf_concat2(b, u, 0)
  <2> DEFINE g == B!strbuf_growlen(b, n)
  <2>1. B!strbuf_concat_path(b, p, t) = [g EXCEPT !.str = B!Put(@, b.len, u), !.len = @ + Len(p) + Len(t) + 1]
    BY DEF B!strbuf_concat_path
  <2>2. B!strbuf_concat2(b, u, 0) = [g EXCEPT !.str = B!Put(@, b.len, u), !.len = @ + Len(u)]
    BY <1>2 DEF B!strbuf_concat2
  <2>3. g.len = b.len
    BY DEF B!strbuf_growlen, Buffer
  <2>4. g.len + Len(p) + Len(t) + 1 = g.len + Len(u)
    BY <1>1, <2>3
  <2> HIDE DEF g, u
  <2> QED
    BY <2>1, <2>2, <2>4
<1> HIDE DEF u
<1> QED
  BY <1>1, <1>3, FirstKeeps DEF u

\* strbuf_require_cap()
LEMMA CapKeeps ==
  ASSUME NEW b \in Buffer, NEW n \in Nat
  PROVE  /\ B!strbuf_require_cap(b, n) \in Buffer /\ B!strbuf_require_cap(b, n).len = b.len
         /\ B!strbuf_require_cap(b, n).baslen = b.baslen
<1>1. b.str \in Seq(Char)
  BY BufferFact
<1>2. B!Grown(b.str, n) \in Seq(Char)
  BY <1>1, GrownFact
<1> QED
  BY <1>2 DEF B!strbuf_require_cap, Buffer

\* A list is the record of its fields.
LEMMA StackFact ==
  ASSUME NEW l, NEW q, Stack(l, q)
  PROVE  /\ l.list \in Seq(Buffer) /\ Len(l.list) \in Nat /\ l.nl \in Nat /\ l.uninit \in Nat
         /\ l = [list |-> l.list, nl |-> l.nl, uninit |-> l.uninit]
         /\ q \in Seq(PlainTexts) /\ Len(q) = l.nl /\ l.nl <= l.uninit /\ l.uninit <= Len(l.list)
         /\ \A x \in 1..Len(l.list) : l.list[x] \in Buffer /\ l.list[x].baslen = 0
         /\ \A x \in 1..l.nl : Holds(l.list[x], q[x])
         /\ \A x \in l.nl + 1..Len(l.list) : l.list[x].str = <<>> \/ l.list[x].len = 0
<1>1. /\ l \in [list : Seq(Buffer), nl : Nat, uninit : Nat]
      /\ q \in Seq(PlainTexts) /\ l.nl = Len(q)
      /\ l.nl <= l.uninit /\ l.uninit <= Len(l.list)
      /\ \A x \in 1..Len(l.list) : l.list[x].baslen = 0
      /\ \A x \in 1..l.nl : Holds(l.list[x], q[x])
      /\ \A x \in l.nl + 1..Len(l.list) : l.list[x].str = <<>> \/ l.list[x].len = 0
  BY DEF Stack
<1>2. l.list \in Seq(Buffer) /\ l.nl \in Nat /\ l.uninit \in Nat
  BY <1>1
<1>3. l = [list |-> l.list, nl |-> l.nl, uninit |-> l.uninit]
  BY <1>1
<1>4. Len(l.list) \in Nat /\ \A x \in 1..Len(l.list) : l.list[x] \in Buffer
  BY <1>2
<1> QED
  BY <1>1, <1>2, <1>3, <1>4

\* And a record with these fields is a list.
LEMMA StackForm ==
  ASSUME NEW list \in Seq(Buffer), NEW nl \in Nat, NEW uninit \in Nat, NEW q \in Seq(PlainTexts),
         nl = Len(q), nl <= uninit, uninit <= Len(list),
         \A x \in 1..Len(list) : list[x].baslen = 0,
         \A x \in 1..nl : Holds(list[x], q[x]),
         \A x \in nl + 1..Len(list) : list[x].str = <<>> \/ list[x].len = 0
  PROVE  Stack([list |-> list, nl |-> nl, uninit |-> uninit], q)
<1> DEFINE l == [list |-> list, nl |-> nl, uninit |-> uninit]
<1>1. l \in [list : Seq(Buffer), nl : Nat, uninit : Nat] /\ l.list = list /\ l.nl = nl /\ l.uninit = uninit
  OBVIOUS
<1> HIDE DEF l
<1>2. Stack(l, q)
  BY <1>1 DEF Stack
<1> QED
  BY <1>2 DEF l

\* STRLIST_INIT
LEMMA StackInit == Stack(B!STRLIST_INIT, <<>>)
<1>1. <<>> \in Seq(Buffer) /\ <<>> \in Seq(PlainTexts) /\ Len(<<>>) = 0 /\ 0 \in Nat
  OBVIOUS
<1>2. \A x \in 1..0 : FALSE
  OBVIOUS
<1>3. \A x \in 0 + 1..0 : FALSE
  OBVIOUS
<1> QED
  BY <1>1, <1>2, <1>3 DEF B!STRLIST_INIT, Stack

\* strlist_grow1()
LEMMA GrowKeeps ==
  ASSUME NEW l, NEW q, Stack(l, q)
  PROVE  /\ Stack(B!strlist_grow1(l), q) /\ B!strlist_grow1(l).nl = l.nl
         /\ l.nl < Len(B!strlist_grow1(l).list)
<1> DEFINE cap == B!CapAlloc(Len(l.list), l.nl + 1)
           w == [x \in 1..cap |-> IF x <= l.uninit THEN l.list[x] ELSE B!Unmade]
           un == B!Unmade
<1>1. cap \in Nat /\ l.nl + 1 <= cap /\ Len(l.list) <= cap
  <2>1. Len(l.list) \in Nat /\ l.nl + 1 \in Nat
    BY StackFact
  <2> QED
    BY <2>1, CapFact
<1>2. B!strlist_grow1(l) = [list |-> w, nl |-> l.nl, uninit |-> l.uninit]
  <2>1. B!strlist_grow1(l) = [l EXCEPT !.list = w]
    BY Zenon DEF B!strlist_grow1
  <2>2. l = [list |-> l.list, nl |-> l.nl, uninit |-> l.uninit]
    BY StackFact
  <2> HIDE DEF w
  <2> QED
    BY <2>1, <2>2
<1>3. un \in Buffer /\ un.baslen = 0 /\ un.str = <<>>
  <2>1. un = [B!STRBUF_INIT EXCEPT !.len = -1]
    BY DEF B!Unmade
  <2> HIDE DEF un
  <2>2. -1 \in Int
    OBVIOUS
  <2> QED
    BY <2>1, <2>2, InitFact, LengthKeeps
<1> HIDE DEF cap, un
<1>4. \A x \in 1..cap : w[x] = IF x <= l.uninit THEN l.list[x] ELSE un
  BY Zenon DEF un
<1>5. w = [x \in 1..cap |-> w[x]]
  OBVIOUS
<1> HIDE DEF w
<1>6. \A x \in 1..cap : /\ x <= l.uninit => x \in 1..Len(l.list) /\ w[x] = l.list[x]
                        /\ ~(x <= l.uninit) => w[x] = un
  <2> TAKE x \in 1..cap
  <2>1. l.uninit \in Nat /\ Len(l.list) \in Nat /\ l.uninit <= Len(l.list)
    BY StackFact
  <2>2. x <= l.uninit => x \in 1..Len(l.list)
    BY <1>1, <2>1
  <2> QED
    BY <1>4, <2>2
<1>7. \A x \in 1..cap : w[x] \in Buffer /\ w[x].baslen = 0
  BY <1>3, <1>6, StackFact
<1>8. w \in Seq(Buffer) /\ Len(w) = cap
  <2>1. w \in [1..cap -> Buffer]
    BY <1>5, <1>7
  <2> QED
    BY <1>1, <2>1
<1>9. \A x \in 1..l.nl : Holds(w[x], q[x])
  <2> TAKE x \in 1..l.nl
  <2>1. x \in 1..cap /\ x <= l.uninit
    BY <1>1, StackFact
  <2> QED
    BY <1>6, <2>1, StackFact
<1>10. \A x \in l.nl + 1..cap : w[x].str = <<>> \/ w[x].len = 0
  <2> TAKE x \in l.nl + 1..cap
  <2>1. l.nl \in Nat
    BY StackFact
  <2>2. x \in 1..cap
    BY <1>1, <2>1
  <2>3. CASE x <= l.uninit
    <3>1. x \in 1..Len(l.list) /\ w[x] = l.list[x]
      BY <1>6, <2>2, <2>3
    <3>2. x \in l.nl + 1..Len(l.list)
      BY <2>1, <3>1
    <3> QED
      BY <3>1, <3>2, StackFact
  <2>4. CASE ~(x <= l.uninit)
    BY <1>3, <1>6, <2>2, <2>4
  <2> QED
    BY <2>3, <2>4
<1>11. l.nl \in Nat /\ l.uninit \in Nat /\ q \in Seq(PlainTexts) /\ l.nl = Len(q) /\ l.nl <= l.uninit /\ l.uninit <= cap
  BY <1>1, StackFact
<1> DEFINE g == [list |-> w, nl |-> l.nl, uninit |-> l.uninit]
<1>12. Stack(g, q)
  BY <1>7, <1>8, <1>9, <1>10, <1>11, StackForm
<1>13. g.nl = l.nl /\ g.list = w
  OBVIOUS
<1> HIDE DEF g
<1>14. l.nl < Len(g.list)
  BY <1>1, <1>8, <1>11, <1>13
<1> QED
  BY <1>2, <1>12, <1>13, <1>14 DEF g

\* strlist_push2() puts a text behind the others.
LEMMA PushKeeps ==
  ASSUME NEW l, NEW q, Stack(l, q), NEW t \in PlainTexts, NEW e \in Nat
  PROVE  Stack(B!strlist_push2(l, t, e), Append(q, t))
<1> DEFINE g == IF l.nl = Len(l.list) THEN B!strlist_grow1(l) ELSE l
           n == l.nl + 1
           b == IF g.list[n].str = <<>> THEN B!STRBUF_INIT ELSE g.list[n]
           c == B!strbuf_concat2(b, t, e)
           w == [g.list EXCEPT ![n] = c]
           un == IF g.uninit <= n THEN n ELSE g.uninit
           p == Append(q, t)
<1>1. Stack(g, q) /\ g.nl = l.nl /\ l.nl < Len(g.list)
  <2>1. CASE l.nl = Len(l.list)
    BY <2>1, GrowKeeps
  <2>2. CASE l.nl # Len(l.list)
    <3>1. l.nl \in Nat /\ Len(l.list) \in Nat /\ l.nl <= Len(l.list)
      <4>1. l.nl \in Nat /\ Len(l.list) \in Nat /\ l.uninit \in Nat /\ l.nl <= l.uninit /\ l.uninit <= Len(l.list)
        BY StackFact
      <4> QED
        BY <4>1
    <3> QED
      BY <2>2, <3>1
  <2> QED
    BY <2>1, <2>2
<1> HIDE DEF g
<1>2. B!strlist_push2(l, t, e) = [list |-> w, nl |-> n, uninit |-> un]
  <2>1. B!strlist_push2(l, t, e) = [g EXCEPT !.list[n] = c, !.nl = @ + 1, !.uninit = IF @ <= n THEN n ELSE @]
    BY Zenon DEF B!strlist_push2, g
  <2>2. [g EXCEPT !.list[n] = c, !.nl = @ + 1, !.uninit = IF @ <= n THEN n ELSE @] =
        [[[g EXCEPT !.list = w] EXCEPT !.nl = g.nl + 1] EXCEPT !.uninit = un]
    <3>1. g = [list |-> g.list, nl |-> g.nl, uninit |-> g.uninit]
      BY <1>1, StackFact
    <3> HIDE DEF c
    <3> QED
      BY <3>1
  <2> HIDE DEF w, un, n
  <2> DEFINE a1 == [g EXCEPT !.list = w]
             a2 == [a1 EXCEPT !.nl = g.nl + 1]
  <2>3. a1 = [list |-> w, nl |-> g.nl, uninit |-> g.uninit]
    <3>1. g = [list |-> g.list, nl |-> g.nl, uninit |-> g.uninit]
      BY <1>1, StackFact
    <3> QED
      BY <3>1
  <2> HIDE DEF a1
  <2>4. a2 = [list |-> w, nl |-> g.nl + 1, uninit |-> g.uninit]
    BY <2>3
  <2> HIDE DEF a2
  <2>5. [a2 EXCEPT !.uninit = un] = [list |-> w, nl |-> g.nl + 1, uninit |-> un]
    BY <2>4
  <2> QED
    BY <1>1, <2>1, <2>2, <2>5 DEF a1, a2, n
<1>3. /\ g.list \in Seq(Buffer) /\ Len(g.list) \in Nat /\ l.nl \in Nat /\ g.uninit \in Nat
      /\ Len(q) = l.nl /\ l.nl <= g.uninit /\ g.uninit <= Len(g.list) /\ q \in Seq(PlainTexts)
  BY <1>1, StackFact
<1>4. n \in 1..Len(g.list) /\ n \in l.nl + 1..Len(g.list) /\ n \in Nat /\ n = l.nl + 1
  BY <1>1, <1>3
<1> HIDE DEF n
<1>5. g.list[n] \in Buffer /\ g.list[n].baslen = 0 /\ (g.list[n].str = <<>> \/ g.list[n].len = 0)
  BY <1>1, <1>4, StackFact
<1>6. b \in Buffer /\ b.len = 0 /\ b.baslen = 0
  <2>1. CASE g.list[n].str = <<>>
    BY <2>1, InitFact
  <2>2. CASE g.list[n].str # <<>>
    BY <1>5, <2>2
  <2> QED
    BY <2>1, <2>2
<1> HIDE DEF b
<1>7. Exact(c, t) /\ c.baslen = 0
  BY <1>6, FirstKeeps
<1> HIDE DEF c
<1>8. Holds(c, t) /\ c \in Buffer
  BY <1>7, HoldsFact DEF Exact
<1>9. w \in Seq(Buffer) /\ Len(w) = Len(g.list) /\ w[n] = c /\ \A x \in 1..Len(g.list) : x # n => w[x] = g.list[x]
  BY <1>3, <1>4, <1>8
<1> HIDE DEF w
<1>10. un \in Nat /\ n <= un /\ un <= Len(w)
  BY <1>3, <1>4, <1>9
<1> HIDE DEF un
<1>11. p \in Seq(PlainTexts) /\ Len(p) = n /\ p[n] = t /\ \A x \in 1..l.nl : p[x] = q[x]
  <2>1. Len(q) + 1 = n
    BY <1>3, <1>4
  <2>2. p \in Seq(PlainTexts) /\ Len(p) = Len(q) + 1 /\ p[Len(q) + 1] = t /\ \A x \in 1..Len(q) : p[x] = q[x]
    BY <1>3
  <2> QED
    BY <1>3, <2>1, <2>2
<1> HIDE DEF p
<1>12. \A x \in 1..Len(w) : w[x].baslen = 0
  <2> TAKE x \in 1..Len(w)
  <2>1. CASE x = n
    BY <1>7, <1>9, <2>1
  <2>2. CASE x # n
    BY <1>1, <1>9, <2>2, StackFact
  <2> QED
    BY <2>1, <2>2
<1>13. \A x \in 1..n : Holds(w[x], p[x])
  <2> TAKE x \in 1..n
  <2>1. CASE x = n
    BY <1>8, <1>9, <1>11, <2>1
  <2>2. CASE x # n
    <3>1. x \in 1..g.nl /\ x \in 1..Len(g.list) /\ x \in 1..l.nl
      BY <1>1, <1>3, <1>4, <2>2
    <3>2. Holds(g.list[x], q[x])
      BY <1>1, <3>1, StackFact
    <3> QED
      BY <1>9, <1>11, <2>2, <3>1, <3>2
  <2> QED
    BY <2>1, <2>2
<1>14. \A x \in n + 1..Len(w) : w[x].str = <<>> \/ w[x].len = 0
  <2> TAKE x \in n + 1..Len(w)
  <2>1. x \in 1..Len(g.list) /\ x # n /\ x \in g.nl + 1..Len(g.list)
    BY <1>1, <1>3, <1>4, <1>9
  <2>2. g.list[x].str = <<>> \/ g.list[x].len = 0
    BY <1>1, <2>1, StackFact
  <2> QED
    BY <1>9, <2>1, <2>2
<1>15. Stack([list |-> w, nl |-> n, uninit |-> un], p)
  <2>1. n = Len(p)
    BY <1>11
  <2> QED
    BY <1>4, <1>9, <1>10, <1>11, <1>12, <1>13, <1>14, <2>1, StackForm
<1> QED
  BY <1>2, <1>15 DEF p

\* Users of buffers see the operators on sequences through the module's own instance.
LEMMA BufferInstance ==
  /\ \A s : B!Last(s) = Last(s) /\ B!Front(s) = Front(s)
  /\ \A s : B!FlattenSeq(s) = FlattenSeq(s)
  /\ \A S : B!Max(S) = Max(S)
<1>1. \A s : B!Last(s) = Last(s) /\ B!Front(s) = Front(s)
  BY DEF B!Last, Last, B!Front, Front
<1>2. \A s : B!FlattenSeq(s) = FlattenSeq(s)
  BY Zenon DEF FlattenSeq, B!FlattenSeq
<1>3. \A S : B!Max(S) = Max(S)
  BY DEF B!Max, Max
<1> QED
  BY <1>1, <1>2, <1>3

\* A buffer whose length is the initial text's, which is empty, holds what it held.
LEMMA UnusedFact ==
  ASSUME NEW b \in Buffer, b.baslen = 0
  PROVE  /\ B!strbuf_reset_length(b) \in Buffer /\ B!strbuf_reset_length(b).baslen = 0
         /\ B!strbuf_reset_length(b).len = 0
<1>1. [b EXCEPT !.len = 0] \in Buffer /\ [b EXCEPT !.len = 0].baslen = 0 /\ [b EXCEPT !.len = 0].len = 0
  BY LengthKeeps
<1> QED
  BY <1>1 DEF B!strbuf_reset_length

\* strlist_pop2() gives the last text, and leaves the others.
LEMMA PopKeeps ==
  ASSUME NEW l, NEW q, Stack(l, q), q # <<>>
  PROVE  Stack(B!strlist_pop2(l), Front(q)) /\ B!Popped(l) = Last(q) /\ Last(q) \in PlainTexts
<1> DEFINE n == l.nl
           c == B!strbuf_reset_length(l.list[n])
           w == [l.list EXCEPT ![n] = c]
           p == Front(q)
<1>1. /\ l.list \in Seq(Buffer) /\ Len(l.list) \in Nat /\ n \in Nat /\ l.uninit \in Nat
      /\ q \in Seq(PlainTexts) /\ Len(q) = n /\ n <= l.uninit /\ l.uninit <= Len(l.list)
  BY StackFact
<1>2. /\ p \in Seq(PlainTexts) /\ Len(p) = n - 1 /\ \A x \in 1..n - 1 : p[x] = q[x]
      /\ Last(q) \in PlainTexts /\ Last(q) = q[n] /\ n \in Nat \ {0}
  <2>1. /\ p \in Seq(PlainTexts) /\ Len(p) = Len(q) - 1 /\ \A x \in 1..(Len(q) - 1) : p[x] = q[x]
        /\ Last(q) \in PlainTexts /\ Last(q) = q[Len(q)] /\ Len(q) \in Nat \ {0}
    BY <1>1, FrontFact
  <2>2. Len(q) = n
    BY <1>1
  <2> QED
    BY <2>1, <2>2
<1>3. B!strlist_pop2(l) = [list |-> w, nl |-> n - 1, uninit |-> l.uninit]
  <2>1. B!strlist_pop2(l) = [l EXCEPT !.nl = @ - 1, !.list[n] = B!strbuf_reset_length(@)]
    BY Zenon DEF B!strlist_pop2
  <2>2. l = [list |-> l.list, nl |-> n, uninit |-> l.uninit]
    BY StackFact
  <2>3. [l EXCEPT !.nl = @ - 1, !.list[n] = B!strbuf_reset_length(@)] = [[l EXCEPT !.nl = n - 1] EXCEPT !.list = w]
    BY <2>2
  <2> HIDE DEF w, n
  <2> DEFINE a == [l EXCEPT !.nl = n - 1]
  <2>4. a = [list |-> l.list, nl |-> n - 1, uninit |-> l.uninit]
    BY <2>2
  <2> HIDE DEF a
  <2>5. [a EXCEPT !.list = w] = [list |-> w, nl |-> n - 1, uninit |-> l.uninit]
    BY <2>4
  <2> QED
    BY <2>1, <2>3, <2>5 DEF a, n
<1>4. n \in 1..Len(l.list) /\ n \in 1..l.nl
  BY <1>1, <1>2
<1>5. Holds(l.list[n], q[n]) /\ l.list[n] \in Buffer /\ l.list[n].baslen = 0
  BY <1>4, StackFact
<1>6. c \in Buffer /\ c.baslen = 0 /\ c.len = 0
  BY <1>5, UnusedFact
<1>7. B!Popped(l) = Last(q)
  BY <1>2, <1>5, VisibleFact DEF B!Popped
<1> HIDE DEF c, p
<1>8. w \in Seq(Buffer) /\ Len(w) = Len(l.list) /\ w[n] = c /\ \A x \in 1..Len(l.list) : x # n => w[x] = l.list[x]
  BY <1>1, <1>4, <1>6
<1> HIDE DEF w
<1>9. \A x \in 1..Len(w) : w[x].baslen = 0
  <2> TAKE x \in 1..Len(w)
  <2>1. CASE x = n
    BY <1>6, <1>8, <2>1
  <2>2. CASE x # n
    BY <1>8, <2>2, StackFact
  <2> QED
    BY <2>1, <2>2
<1>10. \A x \in 1..n - 1 : Holds(w[x], p[x])
  <2> TAKE x \in 1..n - 1
  <2>1. x \in 1..l.nl /\ x \in 1..Len(l.list) /\ x # n
    BY <1>1, <1>2
  <2>2. Holds(l.list[x], q[x])
    BY <2>1, StackFact
  <2> QED
    BY <1>2, <1>8, <2>1, <2>2
<1>11. \A x \in n - 1 + 1..Len(w) : w[x].str = <<>> \/ w[x].len = 0
  <2> TAKE x \in n - 1 + 1..Len(w)
  <2>1. CASE x = n
    BY <1>6, <1>8, <2>1
  <2>2. CASE x # n
    <3>1. x \in 1..Len(l.list) /\ x \in l.nl + 1..Len(l.list)
      BY <1>1, <1>2, <1>8, <2>2
    <3>2. l.list[x].str = <<>> \/ l.list[x].len = 0
      BY <3>1, StackFact
    <3> QED
      BY <1>8, <2>2, <3>1, <3>2
  <2> QED
    BY <2>1, <2>2
<1>12. n - 1 \in Nat /\ n - 1 <= l.uninit /\ l.uninit <= Len(w)
  BY <1>1, <1>2, <1>8
<1>13. Stack([list |-> w, nl |-> n - 1, uninit |-> l.uninit], p)
  BY <1>1, <1>2, <1>8, <1>9, <1>10, <1>11, <1>12, StackForm
<1> QED
  BY <1>2, <1>3, <1>7, <1>13 DEF p

\* strlist_reset() leaves nothing on the list.
LEMMA EmptyKeeps ==
  ASSUME NEW l, NEW q, Stack(l, q)
  PROVE  Stack(B!strlist_reset(l), <<>>)
<1> DEFINE w == [x \in DOMAIN l.list |-> IF x <= l.nl THEN B!strbuf_reset_length(l.list[x]) ELSE l.list[x]]
           m == Len(l.list)
<1>1. /\ l.list \in Seq(Buffer) /\ m \in Nat /\ l.nl \in Nat /\ l.uninit \in Nat
      /\ l.nl <= l.uninit /\ l.uninit <= m
  BY StackFact
<1>2. B!strlist_reset(l) = [list |-> w, nl |-> 0, uninit |-> l.uninit]
  <2>1. B!strlist_reset(l) = [l EXCEPT !.nl = 0, !.list = w]
    BY DEF B!strlist_reset
  <2>2. l = [list |-> l.list, nl |-> l.nl, uninit |-> l.uninit]
    BY StackFact
  <2> HIDE DEF w
  <2>3. [l EXCEPT !.nl = 0, !.list = w] = [[l EXCEPT !.nl = 0] EXCEPT !.list = w]
    BY <2>2
  <2> DEFINE a == [l EXCEPT !.nl = 0]
  <2>4. a = [list |-> l.list, nl |-> 0, uninit |-> l.uninit]
    BY <2>2
  <2> HIDE DEF a
  <2>5. [a EXCEPT !.list = w] = [list |-> w, nl |-> 0, uninit |-> l.uninit]
    BY <2>4
  <2> QED
    BY <2>1, <2>3, <2>5 DEF a
<1>3. DOMAIN l.list = 1..m
  BY <1>1
<1>4. w = [x \in 1..m |-> w[x]] /\ \A x \in 1..m : w[x] = IF x <= l.nl THEN B!strbuf_reset_length(l.list[x]) ELSE l.list[x]
  BY <1>3
<1> HIDE DEF w
<1>5. \A x \in 1..m : w[x] \in Buffer /\ w[x].baslen = 0 /\ (w[x].str = <<>> \/ w[x].len = 0)
  <2> TAKE x \in 1..m
  <2>1. l.list[x] \in Buffer /\ l.list[x].baslen = 0
    BY StackFact
  <2>2. CASE x <= l.nl
    <3>1. w[x] = B!strbuf_reset_length(l.list[x])
      BY <1>4, <2>2
    <3> QED
      BY <2>1, <3>1, UnusedFact
  <2>3. CASE ~(x <= l.nl)
    <3>1. x \in l.nl + 1..Len(l.list)
      BY <1>1, <2>3
    <3>2. l.list[x].str = <<>> \/ l.list[x].len = 0
      BY <3>1, StackFact
    <3> QED
      BY <1>4, <2>1, <2>3, <3>2
  <2> QED
    BY <2>2, <2>3
<1> HIDE DEF m
<1>6. w \in Seq(Buffer) /\ Len(w) = m
  <2>1. w \in [1..m -> Buffer]
    BY <1>4, <1>5
  <2> QED
    BY <1>1, <2>1
<1>7. <<>> \in Seq(PlainTexts) /\ Len(<<>>) = 0 /\ 0 \in Nat /\ 0 <= l.uninit /\ l.uninit <= Len(w)
  BY <1>1, <1>6
<1>8. \A x \in 1..Len(w) : w[x].baslen = 0
  BY <1>5, <1>6
<1>9. \A x \in 1..0 : Holds(w[x], <<>>[x])
  OBVIOUS
<1>10. \A x \in 0 + 1..Len(w) : w[x].str = <<>> \/ w[x].len = 0
  BY <1>5, <1>6
<1>11. Stack([list |-> w, nl |-> 0, uninit |-> l.uninit], <<>>)
  BY <1>1, <1>6, <1>7, <1>8, <1>9, <1>10, StackForm
<1> QED
  BY <1>2, <1>11

\* The first elements of a sequence, one more at a time.
LEMMA PrefixFact ==
  ASSUME NEW S, NEW s \in Seq(S)
  PROVE  /\ SubSeq(s, 1, 0) = <<>> /\ SubSeq(s, 1, Len(s)) = s
         /\ \A k \in 0..Len(s) - 1 : SubSeq(s, 1, k + 1) = Append(SubSeq(s, 1, k), s[k + 1])
<1>1. Len(s) \in Nat
  OBVIOUS
<1>2. SubSeq(s, 1, 0) = <<>>
  <2>1. SubSeq(s, 1, 0) \in Seq(S) /\ Len(SubSeq(s, 1, 0)) = 0
    BY <1>1, SubFact
  <2> QED
    BY <2>1
<1>3. SubSeq(s, 1, Len(s)) = s
  <2> DEFINE u == SubSeq(s, 1, Len(s))
  <2>1. u \in Seq(S) /\ Len(u) = (IF 1 <= Len(s) THEN Len(s) - 1 + 1 ELSE 0) /\ \A z \in 1..Len(s) - 1 + 1 : u[z] = s[1 + z - 1]
    BY <1>1, SubFact
  <2> HIDE DEF u
  <2>2. Len(u) = Len(s)
    BY <1>1, <2>1
  <2>3. \A z \in 1..Len(s) : u[z] = s[z]
    BY <1>1, <2>1
  <2> QED
    BY <2>1, <2>2, <2>3, SeqEqual DEF u
<1>4. ASSUME NEW k \in 0..Len(s) - 1
      PROVE  SubSeq(s, 1, k + 1) = Append(SubSeq(s, 1, k), s[k + 1])
  <2> DEFINE u == SubSeq(s, 1, k)
             v == SubSeq(s, 1, k + 1)
             e == s[k + 1]
             w == Append(u, e)
  <2>1. k \in Nat /\ k + 1 \in 1..Len(s) /\ k <= Len(s) /\ k + 1 <= Len(s) /\ k \in Int /\ k + 1 \in Int
    BY <1>1
  <2>2. u \in Seq(S) /\ Len(u) = (IF 1 <= k THEN k - 1 + 1 ELSE 0) /\ \A z \in 1..k - 1 + 1 : u[z] = s[1 + z - 1]
    BY <2>1, SubFact
  <2>3. v \in Seq(S) /\ Len(v) = (IF 1 <= k + 1 THEN k + 1 - 1 + 1 ELSE 0) /\ \A z \in 1..k + 1 - 1 + 1 : v[z] = s[1 + z - 1]
    BY <2>1, SubFact
  <2>4. e \in S
    BY <2>1
  <2> HIDE DEF u, v, e
  <2>5. Len(u) = k /\ \A z \in 1..k : u[z] = s[z]
    BY <2>1, <2>2
  <2>6. Len(v) = k + 1 /\ \A z \in 1..k + 1 : v[z] = s[z]
    BY <2>1, <2>3
  <2>7. w \in Seq(S) /\ Len(w) = k + 1 /\ w[k + 1] = e /\ \A z \in 1..k : w[z] = u[z]
    <3>1. w \in Seq(S) /\ Len(w) = Len(u) + 1 /\ w[Len(u) + 1] = e /\ \A z \in 1..Len(u) : w[z] = u[z]
      BY <2>2, <2>4
    <3> QED
      BY <2>5, <3>1
  <2> HIDE DEF w
  <2>8. \A z \in 1..Len(v) : v[z] = w[z]
    <3> TAKE z \in 1..Len(v)
    <3>1. CASE z = k + 1
      BY <2>1, <2>6, <2>7, <3>1 DEF e
    <3>2. CASE z # k + 1
      <4>1. z \in 1..k /\ z \in 1..k + 1
        BY <2>1, <2>6, <3>2
      <4> QED
        BY <2>5, <2>6, <2>7, <4>1
    <3> QED
      BY <3>1, <3>2
  <2>9. v = w
    BY <2>3, <2>6, <2>7, <2>8, SeqEqual
  <2> QED
    BY <2>9 DEF v, w, u, e
<1> QED
  BY <1>2, <1>3, <1>4

\* strlist_push() of one line after the other.
LEMMA PushAllKeeps ==
  ASSUME NEW l, Stack(l, <<>>), NEW lines \in Seq(PlainTexts)
  PROVE  Stack(B!PushAll(l, lines), lines)
<1> DEFINE n == Len(lines)
           D == {x \in [list : Seq(Buffer), nl : Nat, uninit : Nat] : \E q : Stack(x, q)}
           step == [x \in (1..n) \X D |-> B!strlist_push2(x[2], lines[x[1]], 0)]
<1>0. n = Len(lines) /\ n \in Nat /\ \A k \in 1..n : lines[k] \in PlainTexts
  OBVIOUS
<1> HIDE DEF n
<1>1. \A x, q : Stack(x, q) => x \in D
  BY DEF Stack
<1>2. ASSUME NEW k \in 1..n, NEW x \in D PROVE B!strlist_push2(x, lines[k], 0) \in D
  <2>1. PICK q : Stack(x, q)
    OBVIOUS
  <2>2. Stack(B!strlist_push2(x, lines[k], 0), Append(q, lines[k]))
    BY <1>0, <2>1, PushKeeps
  <2> QED
    BY <1>1, <2>2
<1>3. step \in [(1..n) \X D -> D] /\ \A k \in 1..n, x \in D : step[<<k, x>>] = B!strlist_push2(x, lines[k], 0)
  BY <1>2
<1>4. l \in D
  BY <1>1
<1> HIDE DEF D, step
<1>5. PICK u \in [0..n -> D] : Steps(u, l, n, step)
  BY <1>0, <1>3, <1>4, RecursionExists
<1> DEFINE F(g) == g = [k \in 0..n |-> IF k = 0 THEN l ELSE B!strlist_push2(g[k - 1], lines[k], 0)]
           c == CHOOSE g : F(g)
<1>6. F(u)
  <2>1. u = [k \in 0..n |-> u[k]]
    OBVIOUS
  <2>2. ASSUME NEW k \in 0..n
        PROVE  u[k] = IF k = 0 THEN l ELSE B!strlist_push2(u[k - 1], lines[k], 0)
    <3>1. CASE k = 0
      BY <1>5, <3>1 DEF Steps
    <3>2. CASE k # 0
      <4>1. k \in 1..n /\ k - 1 \in 0..n
        BY <1>0, <3>2
      <4>2. u[k - 1] \in D
        BY <4>1
      <4>3. u[k] = step[<<k, u[k - 1]>>]
        BY <1>5, <4>1 DEF Steps
      <4> QED
        BY <1>3, <3>2, <4>1, <4>2, <4>3
    <3> QED
      BY <3>1, <3>2
  <2> QED
    BY <2>1, <2>2
<1>7. F(c)
  BY <1>6, Zenon
<1>8. B!PushAll(l, lines) = c[n]
  BY Zenon DEF B!PushAll, n
<1>9. c[0] = l /\ \A k \in 0..n : k # 0 => c[k] = B!strlist_push2(c[k - 1], lines[k], 0)
  <2>1. \A k \in 0..n : c[k] = IF k = 0 THEN l ELSE B!strlist_push2(c[k - 1], lines[k], 0)
    BY <1>7
  <2>2. 0 \in 0..n
    BY <1>0
  <2> HIDE DEF F, c
  <2> QED
    BY <2>1, <2>2
<1> HIDE DEF F, c
<1> DEFINE T == {k \in Nat : k <= n => Stack(c[k], SubSeq(lines, 1, k))}
<1>10. 0 \in T
  BY <1>9, PrefixFact
<1>11. ASSUME NEW k \in Nat, k \in T PROVE k + 1 \in T
  <2> SUFFICES ASSUME k + 1 <= n PROVE Stack(c[k + 1], SubSeq(lines, 1, k + 1))
    OBVIOUS
  <2>1. k + 1 \in 0..n /\ k + 1 # 0 /\ (k + 1) - 1 = k /\ k \in 0..n - 1 /\ k + 1 \in 1..n /\ k <= n
    BY <1>0
  <2>2. Stack(c[k], SubSeq(lines, 1, k))
    BY <1>11, <2>1
  <2>3. c[k + 1] = B!strlist_push2(c[k], lines[k + 1], 0)
    <3>1. c[k + 1] = B!strlist_push2(c[(k + 1) - 1], lines[k + 1], 0)
      BY <1>9, <2>1
    <3> QED
      BY <2>1, <3>1
  <2>4. SubSeq(lines, 1, k + 1) = Append(SubSeq(lines, 1, k), lines[k + 1])
    <3>1. k \in 0..Len(lines) - 1
      BY <1>0, <2>1
    <3> QED
      BY <3>1, PrefixFact
  <2>5. lines[k + 1] \in PlainTexts
    BY <1>0, <2>1
  <2>6. Stack(B!strlist_push2(c[k], lines[k + 1], 0), Append(SubSeq(lines, 1, k), lines[k + 1]))
    BY <2>2, <2>5, PushKeeps
  <2> QED
    BY <2>3, <2>4, <2>6
<1> HIDE DEF T
<1>12. n \in T
  BY <1>0, <1>10, <1>11, NatSetInduction
<1>13. Stack(c[n], SubSeq(lines, 1, n))
  BY <1>0, <1>12 DEF T
<1>14. SubSeq(lines, 1, n) = lines
  BY <1>0, PrefixFact
<1> QED
  BY <1>8, <1>13, <1>14

\* One sequence more at the end of those that are put together.
LEMMA FlattenAppend ==
  ASSUME NEW D, NEW s \in Seq(Seq(D)), NEW y \in Seq(D)
  PROVE  FlattenSeq(Append(s, y)) = FlattenSeq(s) \o y
<1> DEFINE n == Len(s)
           a == Append(s, y)
<1>1. /\ a \in Seq(Seq(D)) /\ Len(a) = n + 1 /\ n \in Nat
      /\ \A x \in 1..n : a[x] = s[x]
      /\ a[n + 1] = y
  OBVIOUS
<1> HIDE DEF a
<1>2. PICK f \in [0..Len(s) -> Seq(D)] : Joins(f, s) /\ FlattenSeq(s) = f[Len(s)]
  BY FlattenFact
<1>3. PICK g \in [0..Len(a) -> Seq(D)] : Joins(g, a) /\ FlattenSeq(a) = g[Len(a)]
  BY <1>1, FlattenFact
<1>4. f[0] = <<>> /\ \A k \in 1..n : f[k] = f[k - 1] \o s[k]
  BY <1>2 DEF Joins
<1>5. g[0] = <<>> /\ \A k \in 1..n + 1 : g[k] = g[k - 1] \o a[k]
  BY <1>1, <1>3 DEF Joins
<1>6. FlattenSeq(s) = f[n] /\ FlattenSeq(a) = g[n + 1]
  BY <1>1, <1>2, <1>3
<1> HIDE DEF n
<1> DEFINE T == {k \in Nat : k <= n => f[k] = g[k]}
<1>7. 0 \in T
  BY <1>4, <1>5
<1>8. ASSUME NEW k \in Nat, k \in T PROVE k + 1 \in T
  <2> SUFFICES ASSUME k + 1 <= n PROVE f[k + 1] = g[k + 1]
    OBVIOUS
  <2>1. k + 1 \in 1..n /\ k + 1 \in 1..n + 1 /\ (k + 1) - 1 = k /\ k <= n
    BY <1>1
  <2>2. f[k] = g[k] /\ a[k + 1] = s[k + 1]
    BY <1>1, <1>8, <2>1
  <2>3. f[k + 1] = f[(k + 1) - 1] \o s[k + 1] /\ g[k + 1] = g[(k + 1) - 1] \o a[k + 1]
    BY <1>4, <1>5, <2>1
  <2> QED
    BY <2>1, <2>2, <2>3
<1> HIDE DEF T
<1>9. n \in T
  BY <1>1, <1>7, <1>8, NatSetInduction
<1>10. f[n] = g[n]
  BY <1>1, <1>9 DEF T
<1>11. g[n + 1] = g[(n + 1) - 1] \o a[n + 1] /\ (n + 1) - 1 = n
  <2>1. n + 1 \in 1..n + 1 /\ (n + 1) - 1 = n
    BY <1>1
  <2> QED
    BY <1>5, <2>1
<1> QED
  BY <1>1, <1>6, <1>10, <1>11 DEF a

\* One line more.
LEMMA JoinedMore ==
  ASSUME NEW ls \in Seq(PlainTexts), NEW t \in PlainTexts
  PROVE  /\ B!Joined(<<>>) = <<>>
         /\ ls = <<>> => B!Joined(Append(ls, t)) = t
         /\ ls # <<>> => B!Joined(Append(ls, t)) = B!Joined(ls) \o (<<" ">> \o t)
<1> DEFINE J(q) == [k \in DOMAIN q |-> IF k = 1 THEN q[k] ELSE <<" ">> \o q[k]]
           n == Len(ls)
           a == Append(ls, t)
           b == J(ls)
           y == IF ls = <<>> THEN t ELSE <<" ">> \o t
<1>1. \A q : B!Joined(q) = FlattenSeq(J(q))
  BY BufferInstance DEF B!Joined
<1>2. n \in Nat /\ a \in Seq(PlainTexts) /\ Len(a) = n + 1 /\ a[n + 1] = t /\ \A k \in 1..n : a[k] = ls[k]
  OBVIOUS
<1>3. DOMAIN ls = 1..n /\ DOMAIN a = 1..n + 1
  BY <1>2
<1>4. \A u \in PlainTexts : u \in Seq(Char) /\ <<" ">> \o u \in Seq(Char)
  <2>1. " " \in Char
    BY CharFact
  <2>4. \A x \in Char : <<x>> \in Seq(Char)
    OBVIOUS
  <2>2. <<" ">> \in Seq(Char)
    BY <2>1, <2>4, Zenon
  <2> TAKE u \in PlainTexts
  <2>3. u \in Seq(Char)
    BY TextFact
  <2> QED
    BY <2>2, <2>3, ConcatFact
<1>5. b = [k \in 1..n |-> b[k]] /\ \A k \in 1..n : b[k] = IF k = 1 THEN ls[k] ELSE <<" ">> \o ls[k]
  BY <1>3
<1>6. J(a) = [k \in 1..n + 1 |-> J(a)[k]] /\ \A k \in 1..n + 1 : J(a)[k] = IF k = 1 THEN a[k] ELSE <<" ">> \o a[k]
  BY <1>3
<1> DEFINE ja == J(a)
<1>7. ja = [k \in 1..n + 1 |-> ja[k]] /\ \A k \in 1..n + 1 : ja[k] = IF k = 1 THEN a[k] ELSE <<" ">> \o a[k]
  BY <1>6
<1> HIDE DEF b, ja, a
<1>8. y \in Seq(Char)
  BY <1>4
<1>9. \A k \in 1..n : b[k] \in Seq(Char)
  <2> TAKE k \in 1..n
  <2>1. ls[k] \in PlainTexts
    BY <1>2
  <2> QED
    BY <1>4, <1>5, <2>1
<1>10. b \in Seq(Seq(Char)) /\ Len(b) = n
  <2>1. b \in [1..n -> Seq(Char)]
    BY <1>5, <1>9
  <2> QED
    BY <1>2, <2>1
<1>11. n = 0 <=> ls = <<>>
  OBVIOUS
<1>12. ja[n + 1] = y
  <2>1. n + 1 \in 1..n + 1 /\ (n + 1 = 1 <=> n = 0)
    BY <1>2
  <2> QED
    BY <1>2, <1>7, <1>11, <2>1
<1>13. \A k \in 1..n : ja[k] = b[k]
  <2> TAKE k \in 1..n
  <2>1. k \in 1..n + 1 /\ a[k] = ls[k]
    BY <1>2
  <2> QED
    BY <1>5, <1>7, <2>1
<1> HIDE DEF y
<1> DEFINE c == Append(b, y)
<1>14. c \in Seq(Seq(Char)) /\ Len(c) = n + 1 /\ c[n + 1] = y /\ \A k \in 1..n : c[k] = b[k]
  <2>1. c \in Seq(Seq(Char)) /\ Len(c) = Len(b) + 1 /\ c[Len(b) + 1] = y /\ \A k \in 1..Len(b) : c[k] = b[k]
    BY <1>8, <1>10
  <2> QED
    BY <1>10, <2>1
<1> HIDE DEF c, y, n
<1>15. c = ja
  <2>1. c = [k \in 1..n + 1 |-> c[k]]
    BY <1>2, <1>14
  <2>2. \A k \in 1..n + 1 : c[k] = ja[k]
    <3> TAKE k \in 1..n + 1
    <3>1. CASE k = n + 1
      BY <1>12, <1>14, <3>1
    <3>2. CASE k # n + 1
      <4>1. k \in 1..n
        BY <1>2, <3>2
      <4> QED
        BY <1>13, <1>14, <4>1
    <3> QED
      BY <3>1, <3>2
  <2> QED
    BY <1>7, <2>1, <2>2
<1>16. FlattenSeq(ja) = FlattenSeq(b) \o y
  BY <1>8, <1>10, <1>15, FlattenAppend DEF c
<1>17. B!Joined(a) = B!Joined(ls) \o y
  BY <1>1, <1>16 DEF ja, b
<1>18. B!Joined(<<>>) = <<>>
  <2>1. J(<<>>) = <<>>
    OBVIOUS
  <2>2. <<>> \in Seq(Seq(Char)) /\ Len(<<>>) = 0
    OBVIOUS
  <2>3. PICK f \in [0..Len(<<>>) -> Seq(Char)] : Joins(f, <<>>) /\ FlattenSeq(<<>>) = f[Len(<<>>)]
    BY <2>2, FlattenFact
  <2>4. FlattenSeq(<<>>) = <<>>
    BY <2>2, <2>3 DEF Joins
  <2> QED
    BY <1>1, <2>1, <2>4
<1>19. ls = <<>> => B!Joined(ls) \o y = t
  <2>1. <<>> \o t = t
    BY AssocFact
  <2> QED
    BY <1>18, <2>1 DEF y
<1> QED
  BY <1>17, <1>18, <1>19 DEF a, y

\* A part of a text, from its place on: with simpler numbers.
LEMMA CutPart ==
  ASSUME NEW t \in PlainTexts, NEW x \in Nat \ {0}, NEW e \in x - 1..Len(t)
  PROVE  /\ SubSeq(t, x, e) \in PlainTexts /\ Len(SubSeq(t, x, e)) = e - x + 1
         /\ \A z \in 1..e - x + 1 : SubSeq(t, x, e)[z] = t[x + z - 1]
<1> DEFINE u == SubSeq(t, x, e)
           l == Len(t)
<1>1. l \in Nat /\ e \in Int /\ x \in Int /\ x >= 1 /\ e <= l
  <2>1. l \in Nat
    BY TextFact
  <2> QED
    BY <2>1
<1>2. u \in PlainTexts /\ Len(u) = (IF x <= e THEN e - x + 1 ELSE 0) /\ \A z \in 1..e - x + 1 : u[z] = t[x + z - 1]
  BY <1>1, PartFact
<1> HIDE DEF u, l
<1>3. Len(u) = e - x + 1
  BY <1>1, <1>2
<1> QED
  BY <1>2, <1>3 DEF u

\* A text in two parts, with a character between them.
LEMMA TwoParts ==
  ASSUME NEW t \in PlainTexts, NEW x \in 2..Len(t), NEW e \in x - 1..Len(t), NEW c, t[x - 1] = c
  PROVE  SubSeq(t, 1, x - 2) \o (<<c>> \o SubSeq(t, x, e)) = SubSeq(t, 1, e)
<1> DEFINE l == Len(t)
           a == SubSeq(t, 1, x - 2)
           u == SubSeq(t, x, e)
           b == <<c>> \o u
           d == SubSeq(t, 1, e)
           v == a \o b
<1>1. l \in Nat /\ x \in 2..l /\ e \in x - 1..l /\ t \in Seq(Char)
  <2>1. l \in Nat /\ t \in Seq(Char)
    BY TextFact
  <2> QED
    BY <2>1
<1> HIDE DEF l
<1>2. x \in Nat \ {0} /\ 1 \in Nat \ {0} /\ x - 2 \in 1 - 1..l /\ e \in 1 - 1..l /\ x - 1 \in 1..l
  BY <1>1
<1>3. a \in PlainTexts /\ Len(a) = x - 2 - 1 + 1 /\ \A z \in 1..x - 2 - 1 + 1 : a[z] = t[1 + z - 1]
  BY <1>2, CutPart DEF l
<1>4. u \in PlainTexts /\ Len(u) = e - x + 1 /\ \A z \in 1..e - x + 1 : u[z] = t[x + z - 1]
  BY <1>1, <1>2, CutPart DEF l
<1>5. d \in PlainTexts /\ Len(d) = e - 1 + 1 /\ \A z \in 1..e - 1 + 1 : d[z] = t[1 + z - 1]
  BY <1>2, CutPart DEF l
<1> HIDE DEF a, u, d
<1>6. c \in Char
  BY <1>1, <1>2 DEF l
<1>7. <<c>> \in Seq(Char) /\ Len(<<c>>) = 1 /\ <<c>>[1] = c
  BY <1>6
<1>8. a \in Seq(Char) /\ u \in Seq(Char) /\ d \in Seq(Char)
  BY <1>3, <1>4, <1>5, TextFact
<1>9. b \in Seq(Char) /\ Len(b) = 1 + Len(u) /\ (\A z \in 1..1 : b[z] = c) /\ \A z \in 1..Len(u) : b[1 + z] = u[z]
  <2>1. /\ b \in Seq(Char) /\ Len(b) = Len(<<c>>) + Len(u)
        /\ \A z \in 1..Len(<<c>>) : b[z] = <<c>>[z]
        /\ \A z \in 1..Len(u) : b[Len(<<c>>) + z] = u[z]
    BY <1>7, <1>8, ConcatFact
  <2>2. \A z \in 1..1 : z = 1
    OBVIOUS
  <2> HIDE DEF b
  <2> QED
    BY <1>7, <2>1, <2>2
<1> HIDE DEF b
<1>10. /\ v \in Seq(Char) /\ Len(v) = Len(a) + Len(b)
       /\ \A z \in 1..Len(a) : v[z] = a[z]
       /\ \A z \in 1..Len(b) : v[Len(a) + z] = b[z]
  <2>1. a \in Seq(Char) /\ b \in Seq(Char)
    BY <1>8, <1>9
  <2> QED
    BY <2>1, ConcatFact
<1> HIDE DEF v
<1>11. Len(a) = x - 2 /\ Len(u) = e - x + 1 /\ Len(b) = e - x + 2 /\ Len(d) = e /\ Len(v) = e
  <2>1. Len(a) = x - 2 /\ Len(u) = e - x + 1 /\ Len(d) = e
    BY <1>1, <1>3, <1>4, <1>5
  <2>2. Len(b) = 1 + (e - x + 1)
    BY <1>9, <2>1
  <2>3. Len(v) = (x - 2) + (1 + (e - x + 1))
    BY <1>10, <2>1, <2>2
  <2> QED
    BY <1>1, <2>1, <2>2, <2>3
<1>12. \A z \in 1..e : v[z] = d[z]
  <2> TAKE z \in 1..e
  <2>1. d[z] = t[z]
    BY <1>1, <1>5
  <2>2. CASE z <= x - 2
    <3>1. z \in 1..Len(a) /\ z \in 1..x - 2 - 1 + 1 /\ 1 + z - 1 = z
      BY <1>1, <1>11, <2>2
    <3> QED
      BY <1>3, <1>10, <2>1, <3>1
  <2>3. CASE z = x - 1
    <3>1. 1 \in 1..Len(b) /\ 1 \in 1..1 /\ Len(a) + 1 = z
      BY <1>1, <1>11, <2>3
    <3> QED
      BY <1>9, <1>10, <2>1, <2>3, <3>1, SMTT(30)
  <2>4. CASE z > x - 1
    <3> DEFINE y == z - x + 1
    <3>1. y \in 1..e - x + 1 /\ x + y - 1 = z /\ 1 + y \in 1..e - x + 2 /\ (x - 2) + (1 + y) = z
      BY <1>1, <2>4
    <3> HIDE DEF y
    <3>2. y \in 1..Len(u) /\ 1 + y \in 1..Len(b) /\ Len(a) + (1 + y) = z
      BY <1>11, <3>1
    <3>3. v[z] = b[1 + y]
      BY <1>10, <3>2
    <3>4. b[1 + y] = u[y]
      BY <1>9, <3>2
    <3>5. u[y] = t[z]
      BY <1>4, <3>1
    <3> QED
      BY <2>1, <3>3, <3>4, <3>5
  <2>5. z <= x - 2 \/ z = x - 1 \/ z > x - 1
    BY <1>1
  <2> QED
    BY <2>2, <2>3, <2>4, <2>5
<1>13. v = d
  BY <1>8, <1>10, <1>11, <1>12, SeqEqual
<1> QED
  BY <1>13 DEF v, b, a, u, d

\* How far a text has been read in lines, and what they hold.
Read(t, s) ==
  /\ s.ptr \in 1..Len(t) + 1 /\ s.lines \in Seq(PlainTexts)
  /\ \A x \in 1..Len(s.lines) : Len(s.lines[x]) <= LineWidth
  /\ s.lines = <<>> => s.ptr = 1
  /\ s.lines # <<>> /\ s.ptr <= Len(t) =>
       s.ptr > 1 /\ t[s.ptr - 1] = " " /\ B!Joined(s.lines) = SubSeq(t, 1, s.ptr - 2)
  /\ s.lines # <<>> /\ s.ptr > Len(t) => B!Joined(s.lines) = t

\* A line more holds the text up to its end.
LEMMA LineKeeps ==
  ASSUME NEW t \in PlainTexts, NEW s, Read(t, s), s.ptr <= Len(t), NEW e \in s.ptr - 1..Len(t), e - s.ptr + 1 <= LineWidth
  PROVE  LET ls == Append(s.lines, SubSeq(t, s.ptr, e)) IN
         /\ ls \in Seq(PlainTexts) /\ ls # <<>> /\ B!Joined(ls) = SubSeq(t, 1, e)
         /\ \A x \in 1..Len(ls) : Len(ls[x]) <= LineWidth
<1> DEFINE x0 == s.ptr
           u == SubSeq(t, x0, e)
           q == s.lines
           ls == Append(q, u)
           l == Len(t)
<1>0. q # <<>> => t[x0 - 1] = " "
  BY DEF Read
<1>1. /\ x0 \in 1..l + 1 /\ q \in Seq(PlainTexts) /\ x0 <= l
      /\ \A x \in 1..Len(q) : Len(q[x]) <= LineWidth
      /\ q = <<>> => x0 = 1
      /\ q # <<>> => x0 > 1 /\ B!Joined(q) = SubSeq(t, 1, x0 - 2)
  BY DEF Read
<1>2. l \in Nat /\ LineWidth \in Nat
  BY TextFact, BuffersAssumption
<1>3. e \in x0 - 1..l /\ e - x0 + 1 <= LineWidth
  OBVIOUS
<1> HIDE DEF x0, q, l
<1>4. x0 \in Nat \ {0}
  BY <1>1, <1>2
<1>5. u \in PlainTexts /\ Len(u) = e - x0 + 1
  BY <1>3, <1>4, CutPart DEF l
<1> HIDE DEF u
<1>6. /\ ls \in Seq(PlainTexts) /\ Len(ls) = Len(q) + 1 /\ Len(q) \in Nat
      /\ (\A x \in 1..Len(q) : ls[x] = q[x]) /\ ls[Len(q) + 1] = u
  BY <1>1, <1>5
<1>7. ls # <<>>
  BY <1>6
<1>8. B!Joined(ls) = SubSeq(t, 1, e)
  <2>1. CASE q = <<>>
    BY <1>1, <1>5, <2>1, JoinedMore DEF u
  <2>2. CASE q # <<>>
    <3>1. B!Joined(ls) = B!Joined(q) \o (<<" ">> \o u)
      BY <1>1, <1>5, <2>2, JoinedMore
    <3>2. x0 \in 2..l
      BY <1>1, <1>2, <2>2
    <3> DEFINE c == t[x0 - 1]
    <3>3. SubSeq(t, 1, x0 - 2) \o (<<c>> \o SubSeq(t, x0, e)) = SubSeq(t, 1, e)
      BY <1>3, <3>2, TwoParts DEF l
    <3>4. c = " " /\ B!Joined(q) = SubSeq(t, 1, x0 - 2)
      BY <1>0, <1>1, <2>2, Zenon
    <3> HIDE DEF c
    <3> QED
      BY <3>1, <3>3, <3>4, Zenon DEF u
  <2> QED
    BY <2>1, <2>2
<1> HIDE DEF ls
<1>9. \A x \in 1..Len(ls) : Len(ls[x]) <= LineWidth
  <2> TAKE x \in 1..Len(ls)
  <2>1. CASE x = Len(q) + 1
    BY <1>3, <1>5, <1>6, <2>1
  <2>2. CASE x # Len(q) + 1
    <3>1. x \in 1..Len(q)
      BY <1>6, <2>2
    <3> QED
      BY <1>1, <1>6, <3>1
  <2> QED
    BY <2>1, <2>2
<1> QED
  BY <1>6, <1>7, <1>8, <1>9 DEF ls, u, q, x0

\* A usage has no blank at its end, and one in every stretch longer than a line.
LEMMA UsageFact ==
  ASSUME NEW t \in Usage
  PROVE  /\ t \in PlainTexts /\ LineWidth \in Nat /\ Len(t) \in Nat
         /\ Len(t) > 0 => ~(t[Len(t)] = " ")
         /\ \A x \in 1..Len(t) - LineWidth : \E y \in x..x + LineWidth : t[y] = " "
<1>1. t \in PlainTexts /\ Len(t) \in Nat
  BY GivenFact, TextFact
<1>2. /\ LineWidth \in Nat
      /\ t # <<>> => ~(Last(t) = " ")
      /\ \A x \in 1..Len(t) - LineWidth : \E y \in x..x + LineWidth : t[y] = " "
  BY BuffersAssumption, Zenon
<1>3. Len(t) > 0 => t # <<>>
  BY <1>1
<1>4. Last(t) = t[Len(t)]
  BY DEF Last
<1> QED
  BY <1>1, <1>2, <1>3, <1>4, Zenon

\* A line of strlist_split_word()
LEMMA NextLineKeeps ==
  ASSUME NEW t \in Usage, NEW s \in [ptr : Nat, lines : Seq(PlainTexts)], Read(t, s)
  PROVE  LET r == B!NextLine(t, LineWidth, s) IN
         /\ r \in [ptr : Nat, lines : Seq(PlainTexts)] /\ Read(t, r)
         /\ s.ptr > Len(t) => r.ptr > Len(t)
         /\ s.ptr <= Len(t) => r.ptr > s.ptr
<1> DEFINE r == B!NextLine(t, LineWidth, s)
           l == Len(t)
           x0 == s.ptr
           I == {j \in x0..x0 + LineWidth : t[j] = " "}
           p == B!Max(I)
           Next1(e, n) == [ptr |-> n, lines |-> Append(s.lines, SubSeq(t, x0, e))]
<1>1. t \in PlainTexts /\ LineWidth \in Nat /\ l \in Nat
  BY UsageFact
<1>2. x0 \in 1..l + 1 /\ x0 \in Nat
  BY DEF Read
<1>3. r = IF x0 > l THEN s ELSE IF x0 + LineWidth > l THEN Next1(l, l + 1) ELSE Next1(p - 1, p + 1)
  BY Zenon DEF B!NextLine
<1>4. ASSUME NEW e, NEW n, Next1(e, n).lines \in Seq(PlainTexts), n \in Nat
      PROVE  Next1(e, n) \in [ptr : Nat, lines : Seq(PlainTexts)] /\ Next1(e, n).ptr = n
  BY <1>4
<1>5. CASE x0 > l
  <2>1. r = s
    BY <1>3, <1>5
  <2> QED
    BY <1>1, <1>2, <1>5, <2>1
<1>6. CASE ~(x0 > l) /\ x0 + LineWidth > l
  <2> DEFINE e == l
             ls == Append(s.lines, SubSeq(t, x0, e))
  <2>1. x0 <= l /\ e \in x0 - 1..l /\ e - x0 + 1 <= LineWidth
    BY <1>1, <1>2, <1>6
  <2>2. r = Next1(e, e + 1)
    BY <1>3, <1>6
  <2>3. /\ ls \in Seq(PlainTexts) /\ ls # <<>> /\ B!Joined(ls) = SubSeq(t, 1, e)
        /\ \A x \in 1..Len(ls) : Len(ls[x]) <= LineWidth
    BY <1>1, <2>1, LineKeeps
  <2>4. SubSeq(t, 1, l) = t
    <3>1. t \in Seq(Char)
      BY <1>1, TextFact
    <3> QED
      BY <3>1, PrefixFact
  <2>5. Next1(e, e + 1).lines = ls /\ Next1(e, e + 1).ptr = l + 1
    OBVIOUS
  <2>6. l + 1 \in Nat /\ l + 1 \in 1..l + 1 /\ l + 1 > l /\ l + 1 > x0 /\ ~(l + 1 <= l)
    BY <1>1, <2>1
  <2>7. r.lines = ls /\ r.ptr = l + 1
    BY <2>2, <2>5
  <2>8. r \in [ptr : Nat, lines : Seq(PlainTexts)]
    BY <2>2, <2>3, <2>6
  <2> HIDE DEF ls, r, e, l
  <2>9. B!Joined(ls) = t
    BY <2>3, <2>4 DEF e
  <2>10. Read(t, r)
    BY <2>3, <2>6, <2>7, <2>9 DEF Read, l
  <2> QED
    BY <2>1, <2>6, <2>7, <2>8, <2>10 DEF r, l
<1>7. CASE ~(x0 > l) /\ ~(x0 + LineWidth > l)
  <2> DEFINE e == p - 1
             ls == Append(s.lines, SubSeq(t, x0, e))
  <2>1. x0 <= l /\ x0 + LineWidth <= l /\ x0 \in 1..l - LineWidth
    BY <1>1, <1>2, <1>7
  <2>2. I \subseteq 1..l /\ I # {} /\ \A j \in I : j \in x0..x0 + LineWidth
    <3>1. \E y \in x0..x0 + LineWidth : t[y] = " "
      BY <2>1, UsageFact
    <3>2. I # {}
      BY <3>1, Zenon
    <3>3. \A j \in x0..x0 + LineWidth : j \in 1..l
      BY <1>1, <1>2, <2>1
    <3> QED
      BY <3>2, <3>3, Zenon
  <2>3. p = Max(I)
    BY BufferInstance
  <2>4. \A j \in I : t[j] = " "
    BY Zenon
  <2> HIDE DEF I, p
  <2>5. p \in I
    BY <1>1, <2>2, <2>3, MaxFact
  <2>6. p \in x0..x0 + LineWidth
    BY <2>2, <2>5
  <2>7. t[p] = " "
    BY <2>4, <2>5, Zenon
  <2>8. p # l
    <3>1. l > 0
      BY <1>1, <1>2, <2>1
    <3>2. ~(t[l] = " ")
      BY <3>1, UsageFact
    <3> QED
      BY <2>7, <3>2, Zenon
  <2>9. /\ e \in x0 - 1..l /\ e - x0 + 1 <= LineWidth /\ p + 1 \in Nat /\ p + 1 \in 1..l + 1 /\ p + 1 <= l
        /\ p + 1 > 1 /\ (p + 1) - 1 = p /\ (p + 1) - 2 = e /\ p + 1 > x0 /\ ~(p + 1 > l) /\ e + 2 = p + 1
    BY <1>1, <1>2, <2>1, <2>6, <2>8
  <2>10. /\ ls \in Seq(PlainTexts) /\ ls # <<>> /\ B!Joined(ls) = SubSeq(t, 1, e)
         /\ \A x \in 1..Len(ls) : Len(ls[x]) <= LineWidth
    BY <1>1, <2>1, <2>9, LineKeeps
  <2>11. r = Next1(e, p + 1)
    BY <1>3, <1>7
  <2>12. r.lines = ls /\ r.ptr = p + 1
    <3> DEFINE n == p + 1
               v == [ptr |-> n, lines |-> ls]
    <3>1. r = v
      BY <2>11
    <3> HIDE DEF r, n, ls
    <3>2. v.ptr = n /\ v.lines = ls
      OBVIOUS
    <3> QED
      BY <3>1, <3>2 DEF n
  <2>13. r \in [ptr : Nat, lines : Seq(PlainTexts)]
    BY <2>9, <2>10, <2>11
  <2> HIDE DEF ls, r, e, l
  <2> DEFINE y == r.ptr
  <2>14. y \in 1..l + 1 /\ y <= l /\ y > 1 /\ y - 1 = p /\ y - 2 = e /\ ~(y > l) /\ y > x0
    BY <2>9, <2>12
  <2>15. t[y - 1] = " "
    BY <2>7, <2>14, Zenon
  <2>16. B!Joined(r.lines) = SubSeq(t, 1, y - 2)
    BY <2>10, <2>12, <2>14
  <2>17. Read(t, r)
    <3>1. /\ r.lines \in Seq(PlainTexts) /\ r.lines # <<>>
          /\ \A x \in 1..Len(r.lines) : Len(r.lines[x]) <= LineWidth
      BY <2>10, <2>12
    <3>2. y \in 1..Len(t) + 1 /\ y > 1 /\ ~(y > Len(t))
      BY <2>14 DEF l
    <3> QED
      BY <2>15, <2>16, <3>1, <3>2, Zenon DEF Read
  <2> HIDE DEF y
  <2>18. ~(x0 > l) /\ y > x0
    BY <1>7, <2>14
  <2> QED
    BY <2>13, <2>17, <2>18 DEF y, r, l
<1> QED
  BY <1>5, <1>6, <1>7

\* strlist_split_word() reads all of a usage, in lines that fit.
LEMMA SplitKeeps ==
  ASSUME NEW t \in Usage
  PROVE  LET ls == B!strlist_split_word(t, LineWidth) IN
         /\ ls \in Seq(PlainTexts) /\ B!Joined(ls) = t
         /\ \A x \in 1..Len(ls) : Len(ls[x]) <= LineWidth
<1> DEFINE n == Len(t)
           D == {s \in [ptr : Nat, lines : Seq(PlainTexts)] : Read(t, s)}
           a == [ptr |-> 1, lines |-> <<>>]
           step == [x \in (1..n) \X D |-> B!NextLine(t, LineWidth, x[2])]
<1>0. n = Len(t) /\ n \in Nat /\ t \in PlainTexts
  BY UsageFact
<1> HIDE DEF n
<1>1. \A s \in D : s \in [ptr : Nat, lines : Seq(PlainTexts)] /\ Read(t, s)
  OBVIOUS
<1>2. \A s \in D : B!NextLine(t, LineWidth, s) \in D
  BY NextLineKeeps
<1>3. step \in [(1..n) \X D -> D] /\ \A k \in 1..n, s \in D : step[<<k, s>>] = B!NextLine(t, LineWidth, s)
  BY <1>2
<1>4. a \in D
  <2>1. a \in [ptr : Nat, lines : Seq(PlainTexts)] /\ a.ptr = 1 /\ a.lines = <<>>
    OBVIOUS
  <2>2. 1 \in 1..Len(t) + 1
    BY <1>0
  <2> HIDE DEF a
  <2>3. <<>> \in Seq(PlainTexts) /\ \A x \in 1..Len(<<>>) : Len(<<>>[x]) <= LineWidth
    OBVIOUS
  <2>4. Read(t, a)
    BY <2>1, <2>2, <2>3, Zenon DEF Read
  <2> QED
    BY <2>1, <2>4
<1> HIDE DEF D, step
<1>5. PICK u \in [0..n -> D] : Steps(u, a, n, step)
  BY <1>0, <1>3, <1>4, RecursionExists
<1> DEFINE F(g) == g = [k \in 0..n |-> IF k = 0 THEN a ELSE B!NextLine(t, LineWidth, g[k - 1])]
           c == CHOOSE g : F(g)
<1>6. F(u)
  <2>1. u = [k \in 0..n |-> u[k]]
    OBVIOUS
  <2>2. ASSUME NEW k \in 0..n
        PROVE  u[k] = IF k = 0 THEN a ELSE B!NextLine(t, LineWidth, u[k - 1])
    <3>1. CASE k = 0
      BY <1>5, <3>1 DEF Steps
    <3>2. CASE k # 0
      <4>1. k \in 1..n /\ k - 1 \in 0..n
        BY <1>0, <3>2
      <4>2. u[k - 1] \in D
        BY <4>1
      <4>3. u[k] = step[<<k, u[k - 1]>>]
        BY <1>5, <4>1 DEF Steps
      <4> QED
        BY <1>3, <3>2, <4>1, <4>2, <4>3
    <3> QED
      BY <3>1, <3>2
  <2> QED
    BY <2>1, <2>2
<1>7. F(c)
  BY <1>6, Zenon
<1>8. B!strlist_split_word(t, LineWidth) = c[n].lines
  BY Zenon DEF B!strlist_split_word, n
<1>9. c[0] = a /\ \A k \in 0..n : k # 0 => c[k] = B!NextLine(t, LineWidth, c[k - 1])
  <2>1. \A k \in 0..n : c[k] = IF k = 0 THEN a ELSE B!NextLine(t, LineWidth, c[k - 1])
    BY <1>7
  <2>2. 0 \in 0..n
    BY <1>0
  <2> HIDE DEF F, c
  <2> QED
    BY <2>1, <2>2
<1>10. a.ptr = 1
  OBVIOUS
<1> HIDE DEF F, c, a
<1> DEFINE T == {k \in Nat : k <= n => c[k] \in D /\ c[k].ptr \in Nat /\ c[k].ptr > k}
<1>11. 0 \in T
  BY <1>4, <1>9, <1>10
<1>12. ASSUME NEW k \in Nat, k \in T PROVE k + 1 \in T
  <2> SUFFICES ASSUME k + 1 <= n PROVE c[k + 1] \in D /\ c[k + 1].ptr \in Nat /\ c[k + 1].ptr > k + 1
    OBVIOUS
  <2>1. k + 1 \in 0..n /\ k + 1 # 0 /\ (k + 1) - 1 = k /\ k <= n
    BY <1>0
  <2> DEFINE s == c[k]
             r == B!NextLine(t, LineWidth, s)
  <2>2. s \in D /\ s.ptr \in Nat /\ s.ptr > k
    BY <1>12, <2>1
  <2>3. c[k + 1] = r
    <3>1. c[k + 1] = B!NextLine(t, LineWidth, c[(k + 1) - 1])
      BY <1>9, <2>1
    <3> QED
      BY <2>1, <3>1
  <2> HIDE DEF s
  <2>4. s \in [ptr : Nat, lines : Seq(PlainTexts)] /\ Read(t, s)
    BY <1>1, <2>2
  <2>5. /\ r \in [ptr : Nat, lines : Seq(PlainTexts)] /\ Read(t, r)
        /\ s.ptr > Len(t) => r.ptr > Len(t)
        /\ s.ptr <= Len(t) => r.ptr > s.ptr
    BY <2>4, NextLineKeeps
  <2> HIDE DEF r
  <2>6. r \in D
    BY <2>5 DEF D
  <2>7. r.ptr \in Nat
    BY <2>5
  <2>8. r.ptr > k + 1
    BY <1>0, <2>2, <2>5, <2>7
  <2> QED
    BY <2>3, <2>6, <2>7, <2>8
<1> HIDE DEF T
<1>13. n \in T
  BY <1>0, <1>11, <1>12, NatSetInduction
<1> DEFINE s == c[n]
<1>14. s \in D /\ s.ptr \in Nat /\ s.ptr > n
  BY <1>0, <1>13 DEF T
<1> HIDE DEF s
<1>15. Read(t, s)
  BY <1>1, <1>14
<1>16. /\ s.ptr \in 1..Len(t) + 1 /\ s.lines \in Seq(PlainTexts)
       /\ \A x \in 1..Len(s.lines) : Len(s.lines[x]) <= LineWidth
       /\ s.lines = <<>> => s.ptr = 1
       /\ s.lines # <<>> /\ s.ptr > Len(t) => B!Joined(s.lines) = t
  BY <1>15, Zenon DEF Read
<1>17. B!Joined(s.lines) = t
  <2>1. CASE s.lines # <<>>
    BY <1>0, <1>14, <1>16, <2>1
  <2>2. CASE s.lines = <<>>
    <3>1. n = 0
      BY <1>0, <1>14, <1>16, <2>2
    <3>2. t = <<>>
      <4>1. t \in Seq(Char)
        BY <1>0, TextFact
      <4>2. Len(t) = 0
        BY <1>0, <3>1
      <4> QED
        BY <4>1, <4>2
    <3>3. B!Joined(<<>>) = <<>>
      BY <1>0, <1>16, JoinedMore
    <3> QED
      BY <2>2, <3>2, <3>3
  <2> QED
    BY <2>1, <2>2
<1> QED
  BY <1>8, <1>16, <1>17 DEF s

\* A buffer that holds a text exactly.
LEMMA ExactFact ==
  ASSUME NEW b, NEW t, Exact(b, t)
  PROVE  /\ b \in Buffer /\ t \in PlainTexts /\ Holds(b, t) /\ Starts(b, t) /\ b.len = Len(t)
         /\ Len(t) \in Nat /\ Len(b.str) \in Nat /\ b.baslen \in Nat /\ Len(t) < Len(b.str) /\ B!Visible(b) = t
<1>1. Holds(b, t) /\ b.len = Len(t)
  BY DEF Exact
<1>2. b \in Buffer /\ t \in PlainTexts /\ Starts(b, t) /\ Len(t) \in Nat /\ Len(t) < Len(b.str)
  BY <1>1, HoldsFact
<1>3. Len(b.str) \in Nat /\ b.baslen \in Nat
  BY <1>2, BufferFact
<1> QED
  BY <1>1, <1>2, <1>3, VisibleFact

\* Every user starts with an empty buffer and an empty list.
LEMMA BufferInit == B!Init => BufferInv
<1> SUFFICES ASSUME B!Init PROVE BufferInv
  OBVIOUS
<1>1. user \in Owners
  BY BuffersAssumption DEF B!Init, Owners
<1>2. phase = "start" /\ sb = B!STRBUF_INIT /\ sl = B!STRLIST_INIT /\ pushed = <<>>
  BY DEF B!Init
<1>3. Stack(sl, pushed)
  BY <1>2, StackInit
<1>4. sb \in Buffer /\ sb.baslen = 0 /\ sb.len = 0
  BY <1>2, InitFact
<1> QED
  BY <1>1, <1>2, <1>3, <1>4 DEF BufferInv, Walks, Names, Asks, Sources, Seeks, Usages

\* fileiter() and what it does with the entries of a directory.
LEMMA WalkNext ==
  ASSUME BufferInv, B!StartWalk \/ B!WalkEntry \/ B!WalkPush \/ B!WalkReset \/ B!WalkPop \/ B!WalkUp
  PROVE  BufferInv'
<1>0. /\ user = "walk" /\ user' = user
      /\ phase' \in {"dir", "entry", "up"}
  BY DEF B!StartWalk, B!WalkEntry, B!WalkPush, B!WalkReset, B!WalkPop, B!WalkUp, B!Goes
<1>1. /\ sb \in Buffer /\ Stack(sl, pushed) /\ Walks(phase, sb, meant)
      /\ \A x \in DOMAIN pushed : pushed[x] # <<>>
  BY <1>0 DEF BufferInv
<1>2. SUFFICES sb' \in Buffer /\ Stack(sl', pushed') /\ Walks(phase', sb', meant')
               /\ \A x \in DOMAIN pushed' : pushed'[x] # <<>>
  BY <1>0 DEF BufferInv, Owners
<1>3. CASE B!StartWalk
  <2>1. PICK dir \in Root : sb' = B!strbuf_reset_from(sb, dir) /\ meant' = dir
    BY <1>3 DEF B!StartWalk, B!Becomes
  <2>2. phase' = "dir" /\ sl' = sl /\ pushed' = pushed
    BY <1>3 DEF B!StartWalk, B!Goes, B!NoList
  <2>3. dir \in PlainTexts
    BY GivenFact
  <2>4. Exact(sb', meant') /\ sb'.baslen = Len(dir)
    BY <1>1, <2>1, <2>3, ResetFromKeeps
  <2>5. Len(dir) \in Nat \ {0}
    <3>1. dir # <<>> /\ dir \in Seq(Char)
      BY <2>3, BuffersAssumption, TextFact
    <3> QED
      BY <3>1
  <2>6. sb' \in Buffer /\ sb'.len = Len(dir)
    BY <2>1, <2>4, ExactFact
  <2>7. sb'.baslen \in 1..sb'.len
    BY <2>4, <2>5, <2>6
  <2> QED
    BY <1>1, <2>2, <2>4, <2>6, <2>7 DEF Walks
<1>4. CASE B!WalkEntry
  <2>1. /\ phase = "dir" /\ phase' = "entry" /\ sl' = sl /\ pushed' = pushed
    BY <1>4 DEF B!WalkEntry, B!Goes, B!NoList
  <2> DEFINE slashed == IF sb.str[sb.len] = "/" THEN sb ELSE B!strbuf_concat(sb, <<"/">>)
             m == IF B!Last(meant) = "/" THEN meant ELSE Append(meant, "/")
  <2>2. PICK t \in Base : sb' = B!strbuf_concat(slashed, t) /\ meant' = m \o t
    BY <1>4, Zenon DEF B!WalkEntry, B!Becomes
  <2>3. Exact(sb, meant) /\ sb.baslen \in 1..sb.len
    BY <1>1, <2>1 DEF Walks
  <2>4. meant \in PlainTexts /\ Len(meant) = sb.len /\ Starts(sb, meant) /\ Len(meant) \in Nat /\ sb.baslen \in Nat
    BY <2>3, ExactFact
  <2>5. sb.str[sb.len] = B!Last(meant)
    <3>1. sb.len \in 1..Len(meant)
      BY <2>3, <2>4
    <3>2. B!Last(meant) = meant[sb.len]
      BY <2>4 DEF B!Last
    <3> QED
      BY <2>4, <3>1, <3>2 DEF Starts
  <2>6. t \in PlainTexts /\ <<"/">> \in PlainTexts
    BY GivenFact, BeforeFact
  <2>7. Exact(slashed, m) /\ slashed.baslen = sb.baslen /\ sb.len <= Len(m)
    <3>1. CASE B!Last(meant) = "/"
      BY <2>3, <2>4, <2>5, <3>1
    <3>2. CASE B!Last(meant) # "/"
      <4>1. Exact(B!strbuf_concat2(sb, <<"/">>, 0), meant \o <<"/">>) /\ B!strbuf_concat2(sb, <<"/">>, 0).baslen = sb.baslen
        BY <1>1, <2>4, <2>6, ConcatKeeps
      <4>2. slashed = B!strbuf_concat2(sb, <<"/">>, 0)
        BY <2>5, <3>2 DEF B!strbuf_concat
      <4>3. m = meant \o <<"/">> /\ Len(m) = Len(meant) + 1
        <5>1. meant \in Seq(Char) /\ "/" \in Char
          BY <2>4, TextFact, CharFact
        <5>2. Append(meant, "/") = meant \o <<"/">> /\ Len(Append(meant, "/")) = Len(meant) + 1
          BY <5>1
        <5> QED
          BY <3>2, <5>2
      <4> HIDE DEF slashed, m
      <4>4. sb.len <= Len(m)
        BY <2>4, <4>3
      <4> QED
        BY <4>1, <4>2, <4>3, <4>4
    <3> QED
      BY <3>1, <3>2
  <2> HIDE DEF slashed, m
  <2>8. slashed \in Buffer /\ m \in PlainTexts /\ Starts(slashed, m) /\ slashed.len = Len(m) /\ Len(m) \in Nat
    BY <2>7, ExactFact
  <2>9. Exact(sb', meant') /\ sb'.baslen = sb.baslen
    BY <2>2, <2>6, <2>7, <2>8, ConcatKeeps DEF B!strbuf_concat
  <2>10. sb' \in Buffer /\ sb'.len = Len(meant')
    BY <2>9, ExactFact
  <2>11. Len(meant') = Len(m) + Len(t) /\ Len(t) \in Nat
    BY <2>2, <2>6, <2>8, BehindFact, TextFact
  <2>12. sb'.baslen \in 1..sb'.len
    BY <2>3, <2>4, <2>7, <2>8, <2>9, <2>10, <2>11
  <2> QED
    BY <1>1, <2>1, <2>9, <2>10, <2>12 DEF Walks
<1>5. CASE B!WalkPush
  <2>1. /\ phase = "entry" /\ phase' = "entry" /\ sb' = sb /\ meant' = meant
        /\ sl' = B!strlist_push2(sl, B!Visible(sb), 2) /\ pushed' = Append(pushed, meant)
    BY <1>5 DEF B!WalkPush, B!Goes
  <2>2. Exact(sb, meant) /\ sb.baslen \in 1..sb.len
    BY <1>1, <2>1 DEF Walks
  <2>3. meant \in PlainTexts /\ B!Visible(sb) = meant /\ sb.len = Len(meant) /\ Len(meant) \in Nat
    BY <2>2, ExactFact
  <2>4. meant # <<>>
    <3>1. Len(meant) # 0
      BY <2>2, <2>3
    <3> QED
      BY <3>1
  <2>5. Stack(sl', pushed')
    BY <1>1, <2>1, <2>3, PushKeeps
  <2>6. \A x \in DOMAIN pushed' : pushed'[x] # <<>>
    <3>1. pushed \in Seq(PlainTexts)
      BY <1>1, StackFact
    <3> DEFINE p == Append(pushed, meant)
               n == Len(pushed)
    <3>2. n \in Nat /\ DOMAIN p = 1..n + 1 /\ p[n + 1] = meant /\ \A x \in 1..n : p[x] = pushed[x] /\ x \in DOMAIN pushed
      BY <2>3, <3>1
    <3> HIDE DEF p, n
    <3>3. \A x \in 1..n + 1 : x = n + 1 \/ x \in 1..n
      BY <3>2
    <3> QED
      BY <1>1, <2>1, <2>4, <3>2, <3>3 DEF p
  <2> QED
    BY <1>1, <2>1, <2>5, <2>6
<1>6. CASE B!WalkReset
  <2>1. /\ phase = "entry" /\ phase' = "dir" /\ sl' = sl /\ pushed' = pushed
        /\ sb' = B!strbuf_reset(sb) /\ meant' = SubSeq(meant, 1, sb.baslen)
    BY <1>6 DEF B!WalkReset, B!Goes, B!NoList, B!Becomes
  <2>2. Exact(sb, meant) /\ sb.baslen \in 1..sb.len
    BY <1>1, <2>1 DEF Walks
  <2>3. sb.len \in Nat
    BY <2>2, ExactFact
  <2>4. sb.baslen <= sb.len /\ sb.baslen \in 1..sb.baslen
    BY <2>2, <2>3
  <2>5. Exact(sb', meant') /\ sb'.baslen = sb.baslen /\ sb'.len = sb.baslen
    BY <2>1, <2>2, <2>4, ResetKeeps
  <2>6. sb' \in Buffer
    BY <2>5, ExactFact
  <2> QED
    BY <1>1, <2>1, <2>4, <2>5, <2>6 DEF Walks
<1>7. CASE B!WalkPop
  <2>1. /\ phase' = "dir" /\ pushed # <<>>
        /\ sb' = B!strbuf_reset_from(sb, B!Popped(sl)) /\ meant' = B!Last(pushed)
        /\ sl' = B!strlist_pop2(sl) /\ pushed' = B!Front(pushed)
    BY <1>7 DEF B!WalkPop, B!Goes, B!Becomes
  <2>2. Stack(sl', pushed') /\ B!Popped(sl) = meant' /\ meant' \in PlainTexts /\ pushed' = Front(pushed) /\ meant' = Last(pushed)
    BY <1>1, <2>1, PopKeeps, BufferInstance
  <2>3. Exact(sb', meant') /\ sb'.baslen = Len(meant')
    BY <1>1, <2>1, <2>2, ResetFromKeeps
  <2>4. pushed \in Seq(PlainTexts)
    BY <1>1, StackFact
  <2>5. /\ Front(pushed) \in Seq(PlainTexts) /\ Len(Front(pushed)) = Len(pushed) - 1
        /\ \A x \in 1..Len(pushed) - 1 : Front(pushed)[x] = pushed[x]
        /\ Last(pushed) = pushed[Len(pushed)] /\ Len(pushed) \in Nat \ {0}
    BY <2>1, <2>4, FrontFact
  <2>6. meant' # <<>>
    <3>1. Len(pushed) \in DOMAIN pushed
      BY <2>4, <2>5
    <3> QED
      BY <1>1, <2>2, <2>5, <3>1
  <2>7. Len(meant') \in Nat \ {0}
    <3>1. meant' \in Seq(Char)
      BY <2>2, TextFact
    <3> QED
      BY <2>6, <3>1
  <2>8. \A x \in DOMAIN pushed' : pushed'[x] # <<>>
    <3> TAKE x \in DOMAIN pushed'
    <3>1. x \in 1..Len(pushed) - 1
      BY <2>2, <2>5
    <3>2. x \in DOMAIN pushed
      BY <2>4, <2>5, <3>1
    <3> QED
      BY <1>1, <2>2, <2>5, <3>1, <3>2
  <2>9. sb' \in Buffer /\ sb'.len = Len(meant')
    BY <2>3, ExactFact
  <2>10. sb'.baslen \in 1..sb'.len
    BY <2>3, <2>7, <2>9
  <2> QED
    BY <2>1, <2>2, <2>3, <2>8, <2>9, <2>10 DEF Walks
<1>8. CASE B!WalkUp
  <2>1. /\ phase \in {"dir", "up"} /\ phase' = "up" /\ sl' = sl /\ pushed' = pushed
        /\ B!strbuf_strrsep(meant) > 1
        /\ sb' = B!strbuf_to_dirname(sb) /\ meant' = SubSeq(meant, 1, B!strbuf_strrsep(meant) - 1)
    BY <1>8 DEF B!WalkUp, B!Goes, B!NoList, B!Becomes
  <2>2. Exact(sb, meant)
    BY <1>1, <2>1 DEF Walks
  <2>3. Exact(sb', meant')
    BY <2>1, <2>2, DirnameKeeps
  <2>4. sb' \in Buffer
    BY <2>3, ExactFact
  <2> QED
    BY <1>1, <2>1, <2>3, <2>4 DEF Walks
<1> QED
  BY <1>3, <1>4, <1>5, <1>6, <1>7, <1>8

\* Names behind a prefix.
LEMMA NamesNext ==
  ASSUME BufferInv, B!StartNames \/ B!NextName
  PROVE  BufferInv'
<1>0. user = "names" /\ user' = user /\ phase' = "name" /\ sl' = sl /\ pushed' = pushed
  BY DEF B!StartNames, B!NextName, B!Goes, B!NoList
<1>1. sb \in Buffer /\ Stack(sl, pushed) /\ Names(phase, sb, meant)
  BY <1>0 DEF BufferInv
<1>2. SUFFICES sb' \in Buffer /\ Names(phase', sb', meant')
  BY <1>0, <1>1 DEF BufferInv, Owners
<1>3. CASE B!StartNames
  <2>1. PICK prefix \in Root, ext \in {0, 2} : sb' = B!strbuf_from2(prefix, ext) /\ meant' = prefix
    BY <1>3 DEF B!StartNames, B!Becomes
  <2>2. prefix \in PlainTexts /\ ext \in Nat
    BY GivenFact
  <2>3. Exact(sb', meant') /\ sb'.baslen = Len(meant')
    BY <2>1, <2>2, FromKeeps
  <2>4. /\ sb' \in Buffer /\ Holds(sb', meant') /\ sb'.len = Len(meant') /\ Len(meant') \in Nat
        /\ Len(meant') < Len(sb'.str)
    BY <2>3, ExactFact
  <2>5. sb'.baslen <= Len(meant') /\ Len(meant') <= sb'.len /\ sb'.len < Len(sb'.str)
    BY <2>3, <2>4
  <2> QED
    BY <1>0, <2>4, <2>5 DEF Names
<1>4. CASE B!NextName
  <2> DEFINE p == SubSeq(meant, 1, sb.baslen)
  <2>1. PICK t \in Base \cup {<<>>} : sb' = B!strbuf_concatat_base(sb, t) /\ meant' = p \o t
    BY <1>4 DEF B!NextName, B!Becomes
  <2>2. phase = "name"
    BY <1>4 DEF B!NextName, B!Goes
  <2>3. Holds(sb, meant) /\ sb.baslen <= Len(meant) /\ Len(meant) <= sb.len /\ sb.len < Len(sb.str)
    BY <1>1, <2>2 DEF Names
  <2>4. Len(meant) \in Nat /\ sb.baslen \in Nat /\ sb.len \in Int
    BY <1>1, <2>3, HoldsFact, BufferFact
  <2>5. sb.baslen \in 0..Len(meant) /\ sb.baslen <= sb.len
    BY <2>3, <2>4
  <2>6. p \in PlainTexts /\ Len(p) = sb.baslen /\ Starts(sb, p)
    BY <2>3, <2>5, HoldsFact
  <2>7. t \in PlainTexts
    <3>1. <<>> \in PlainTexts
      BY ClearedFact, InitFact
    <3> QED
      BY <3>1, GivenFact
  <2> HIDE DEF p
  <2>8. /\ Holds(sb', meant') /\ sb'.baslen = sb.baslen
        /\ Len(meant') <= sb'.len /\ sb'.len < Len(sb'.str)
    BY <1>1, <2>1, <2>3, <2>5, <2>6, <2>7, ConcatAtKeeps
  <2>9. sb' \in Buffer
    BY <2>8, HoldsFact
  <2>10. Len(meant') = Len(p) + Len(t) /\ Len(t) \in Nat
    BY <2>1, <2>6, <2>7, BehindFact, TextFact
  <2>11. sb'.baslen <= Len(meant')
    BY <2>4, <2>6, <2>8, <2>10
  <2> QED
    BY <1>0, <2>8, <2>9, <2>11 DEF Names
<1> QED
  BY <1>3, <1>4

\* cmd_query_path()
LEMMA QueryNext ==
  ASSUME BufferInv, B!StartQuery \/ B!QueryPath
  PROVE  BufferInv'
<1>0. user = "query" /\ user' = user /\ phase' \in {"asked", "name"} /\ sl' = sl /\ pushed' = pushed
  BY DEF B!StartQuery, B!QueryPath, B!Goes, B!NoList
<1>1. sb \in Buffer /\ Stack(sl, pushed) /\ Asks(phase, sb, meant, drifted) /\ (phase = "start" => sb = B!STRBUF_INIT)
  BY <1>0 DEF BufferInv
<1>2. SUFFICES sb' \in Buffer /\ Asks(phase', sb', meant', drifted')
  BY <1>0, <1>1 DEF BufferInv, Owners
<1>3. CASE B!StartQuery
  <2>1. phase = "start" /\ phase' = "asked" /\ sb' = B!strbuf_require_cap(sb, 3)
    BY <1>3 DEF B!StartQuery, B!Goes, B!Becomes
  <2>2. sb.len = 0 /\ sb.baslen = 0
    BY <1>1, <2>1, InitFact
  <2>3. sb' \in Buffer /\ sb'.len = 0 /\ sb'.baslen = 0
    BY <1>1, <2>1, <2>2, CapKeeps
  <2> QED
    BY <2>1, <2>3 DEF Asks
<1>4. CASE B!QueryPath
  <2>1. PICK path \in Root :
          LET b == B!strbuf_concatat_base(sb, path)
          IN  /\ sb' = B!strbuf_normalize_path(b) /\ meant' = B!Normal(path)
              /\ drifted' = (drifted \/ b.len # Len(path))
    BY <1>4 DEF B!QueryPath, B!Becomes
  <2> DEFINE b == B!strbuf_concatat_base(sb, path)
             c == B!strbuf_normalize_path(b)
             v == B!Visible(c)
  <2>2. phase \in {"asked", "name"} /\ phase' = "name"
    BY <1>4 DEF B!QueryPath, B!Goes
  <2>3. path \in PlainTexts /\ path # <<>>
    BY GivenFact, BuffersAssumption
  <2>4. sb.baslen = 0 /\ 0 <= sb.len /\ (sb.len = 0 \/ sb.len < Len(sb.str))
    <3>1. CASE phase = "asked"
      BY <1>1, <3>1 DEF Asks
    <3>2. CASE phase = "name"
      <4> DEFINE t == B!Visible(sb)
      <4>1. sb.baslen = 0 /\ Holds(sb, t) /\ Len(t) <= sb.len /\ sb.len < Len(sb.str)
        BY <1>1, <3>2 DEF Asks
      <4>2. Len(t) \in Nat /\ sb.len \in Int
        BY <1>1, <4>1, HoldsFact, BufferFact
      <4> HIDE DEF t
      <4> QED
        BY <4>1, <4>2
    <3> QED
      BY <2>2, <3>1, <3>2
  <2>5. Starts(sb, <<>>) /\ <<>> \in PlainTexts /\ Len(<<>>) = 0
    BY <1>1, ClearedFact
  <2>6. Holds(b, <<>> \o path) /\ b.baslen = 0 /\ Len(<<>> \o path) <= b.len /\ b.len < Len(b.str)
    BY <1>1, <2>3, <2>4, <2>5, ConcatAtKeeps
  <2>7. <<>> \o path = path
    BY <2>3, AssocFact
  <2>8. Holds(b, path) /\ b.baslen = 0 /\ Len(path) <= b.len /\ b.len < Len(b.str)
    BY <2>6, <2>7
  <2>9. b.len # 0
    <3>1. path \in Seq(Char) /\ b.len \in Int
      BY <2>3, <2>8, TextFact, HoldsFact, BufferFact
    <3>2. Len(path) > 0
      BY <2>3, <3>1
    <3> HIDE DEF b
    <3> QED
      BY <2>8, <3>1, <3>2
  <2> HIDE DEF b
  <2>10. /\ b.len = Len(path) => Exact(c, B!Normal(path))
         /\ c.baslen = IF b.baslen = b.len THEN c.len ELSE b.baslen
         /\ \E u : Holds(c, u) /\ Len(u) <= c.len /\ c.len < Len(c.str)
    BY <2>8, NormalKeeps
  <2> HIDE DEF c
  <2>11. c.baslen = 0
    BY <2>8, <2>9, <2>10
  <2>12. PICK u : Holds(c, u) /\ Len(u) <= c.len /\ c.len < Len(c.str)
    BY <2>10
  <2>13. v = u /\ c \in Buffer
    BY <2>12, VisibleFact, HoldsFact
  <2>14. drifted' \/ (v = B!Normal(path) /\ c.len = Len(v))
    <3>1. CASE b.len = Len(path)
      <4>1. Exact(c, B!Normal(path))
        BY <2>10, <3>1
      <4> QED
        BY <4>1, ExactFact
    <3>2. CASE b.len # Len(path)
      BY <2>1, <3>2 DEF b
    <3> QED
      BY <3>1, <3>2
  <2>15. sb' = c /\ meant' = B!Normal(path)
    BY <2>1 DEF c, b
  <2> QED
    BY <2>2, <2>11, <2>12, <2>13, <2>14, <2>15 DEF Asks
<1> QED
  BY <1>3, <1>4

\* copy_multisrc()
LEMMA SourcesNext ==
  ASSUME BufferInv, B!StartSources \/ B!NextSource \/ B!NextSourceBase
  PROVE  BufferInv'
<1>0. user = "sources" /\ user' = user /\ phase' \in {"base", "name"} /\ sl' = sl /\ pushed' = pushed
  BY DEF B!StartSources, B!NextSource, B!NextSourceBase, B!Goes, B!NoList
<1>1. sb \in Buffer /\ Stack(sl, pushed) /\ Sources(phase, sb, meant)
  BY <1>0 DEF BufferInv
<1>2. SUFFICES sb' \in Buffer /\ Sources(phase', sb', meant')
  BY <1>0, <1>1 DEF BufferInv, Owners
<1>3. CASE B!StartSources
  <2>1. PICK dest \in Root : sb' = B!strbuf_normalize_path(B!strbuf_from2(dest, 0)) /\ meant' = B!Normal(dest)
    BY <1>3 DEF B!StartSources, B!Becomes
  <2>2. phase' = "base"
    BY <1>3 DEF B!StartSources, B!Goes
  <2> DEFINE b == B!strbuf_from2(dest, 0)
  <2>3. dest \in PlainTexts
    BY GivenFact
  <2>4. Exact(b, dest) /\ b.baslen = Len(dest)
    BY <2>3, FromKeeps
  <2> HIDE DEF b
  <2>5. Holds(b, dest) /\ b.len = Len(dest) /\ Len(dest) \in Nat /\ Len(dest) < Len(b.str)
    BY <2>4, ExactFact
  <2>6. Len(dest) <= b.len /\ b.len < Len(b.str) /\ b.baslen = b.len
    BY <2>4, <2>5
  <2>7. /\ Exact(B!strbuf_normalize_path(b), B!Normal(dest))
        /\ B!strbuf_normalize_path(b).baslen = B!strbuf_normalize_path(b).len
    BY <2>5, <2>6, NormalKeeps
  <2>8. Exact(sb', meant') /\ sb'.baslen = sb'.len
    BY <2>1, <2>7 DEF b
  <2>9. sb' \in Buffer /\ meant' \in PlainTexts /\ Starts(sb', meant') /\ sb'.len = Len(meant')
    BY <2>8, ExactFact
  <2> QED
    BY <2>2, <2>8, <2>9 DEF Sources
<1>4. CASE B!NextSource
  <2>1. PICK t \in Base : sb' = B!strbuf_concat_basename(sb, t) /\ meant' = meant \o <<"/">> \o t
    BY <1>4 DEF B!NextSource, B!Becomes
  <2>2. phase = "base" /\ phase' = "name"
    BY <1>4 DEF B!NextSource, B!Goes
  <2>3. Starts(sb, meant) /\ meant \in PlainTexts /\ sb.len = Len(meant) /\ sb.baslen = sb.len
    BY <1>1, <2>2 DEF Sources
  <2>4. t \in PlainTexts
    BY GivenFact
  <2>5. Exact(sb', meant') /\ sb'.baslen = sb.baslen
    BY <1>1, <2>1, <2>3, <2>4, BasenameKeeps
  <2>6. sb' \in Buffer /\ sb'.len = Len(meant')
    BY <2>5, ExactFact
  <2>7. Len(meant') = Len(meant) + (Len(t) + 1) /\ Len(t) \in Nat /\ Len(meant) \in Nat
    <3>1. <<"/">> \in PlainTexts /\ <<"/">> \o t \in PlainTexts /\ Len(<<"/">> \o t) = Len(t) + 1
      BY <2>4, BeforeFact
    <3>2. Len(t) \in Nat /\ Len(meant) \in Nat
      BY <2>3, <2>4, TextFact
    <3>3. meant' = meant \o (<<"/">> \o t)
      BY <2>1, <2>3, <2>4, <3>1, AssocFact, SMTT(30)
    <3> DEFINE u == <<"/">> \o t
    <3> HIDE DEF u
    <3>4. Len(meant \o u) = Len(meant) + Len(u)
      BY <2>3, <3>1, BehindFact DEF u
    <3> QED
      BY <3>1, <3>2, <3>3, <3>4 DEF u
  <2>8. sb'.baslen <= sb'.len
    BY <2>3, <2>5, <2>6, <2>7
  <2> QED
    BY <2>2, <2>5, <2>6, <2>8 DEF Sources
<1>5. CASE B!NextSourceBase
  <2>1. sb' = B!strbuf_reset_length(sb) /\ meant' = SubSeq(meant, 1, sb.baslen) /\ phase = "name" /\ phase' = "base"
    BY <1>5 DEF B!NextSourceBase, B!Becomes, B!Goes
  <2>2. Exact(sb, meant) /\ sb.baslen <= sb.len
    BY <1>1, <2>1 DEF Sources
  <2>3. Holds(sb, meant) /\ sb.len = Len(meant) /\ Len(meant) \in Nat /\ sb.baslen \in Nat
    BY <2>2, ExactFact
  <2>4. sb.baslen \in 0..Len(meant) /\ sb.baslen \in Int
    BY <2>2, <2>3
  <2>5. meant' \in PlainTexts /\ Len(meant') = sb.baslen /\ Starts(sb, meant')
    BY <2>1, <2>3, <2>4, HoldsFact
  <2>6. sb' \in Buffer /\ sb'.len = sb.baslen /\ sb'.str = sb.str /\ sb'.baslen = sb.baslen
    <3>1. sb' = [sb EXCEPT !.len = sb.baslen]
      BY <2>1 DEF B!strbuf_reset_length
    <3> QED
      BY <1>1, <2>4, <3>1, LengthKeeps
  <2>7. Starts(sb', meant')
    BY <2>5, <2>6 DEF Starts
  <2> QED
    BY <2>1, <2>5, <2>6, <2>7 DEF Sources
<1> QED
  BY <1>3, <1>4, <1>5

\* check_unique_process()
LEMMA SeeksNext ==
  ASSUME BufferInv, B!PidFile \/ B!NextPidFile
  PROVE  BufferInv'
<1>0. user = "pid" /\ user' = user /\ phase' \in {"base", "name"} /\ sl' = sl /\ pushed' = pushed
  BY DEF B!PidFile, B!NextPidFile, B!Goes, B!NoList
<1>1. sb \in Buffer /\ Stack(sl, pushed) /\ Seeks(phase, sb, meant)
  BY <1>0 DEF BufferInv
<1>2. SUFFICES sb' \in Buffer /\ Seeks(phase', sb', meant')
  BY <1>0, <1>1 DEF BufferInv, Owners
<1>3. CASE B!PidFile
  <2>1. PICK dir \in Root, t \in Base : sb' = B!strbuf_concat_path(sb, dir, t) /\ meant' = dir \o <<"/">> \o t
    BY <1>3 DEF B!PidFile, B!Becomes
  <2>2. phase # "name" /\ phase' = "name"
    BY <1>3 DEF B!PidFile, B!Goes
  <2>3. sb.len = 0 /\ sb.baslen = 0
    BY <1>1, <2>2 DEF Seeks
  <2>4. dir \in PlainTexts /\ t \in PlainTexts
    BY GivenFact
  <2>5. Exact(sb', meant') /\ sb'.baslen = 0
    BY <1>1, <2>1, <2>3, <2>4, PathKeeps
  <2>6. sb' \in Buffer
    BY <2>5, ExactFact
  <2> QED
    BY <2>2, <2>5, <2>6 DEF Seeks
<1>4. CASE B!NextPidFile
  <2>1. sb' = B!strbuf_reset(sb) /\ phase = "name" /\ phase' = "base"
    BY <1>4 DEF B!NextPidFile, B!Becomes, B!Goes
  <2>2. Exact(sb, meant) /\ sb.baslen = 0
    BY <1>1, <2>1 DEF Seeks
  <2>3. sb.baslen <= sb.len
    <3>1. sb.len \in Nat
      BY <2>2, ExactFact
    <3> QED
      BY <2>2, <3>1
  <2>4. Exact(B!strbuf_reset(sb), SubSeq(meant, 1, sb.baslen)) /\ sb'.baslen = 0 /\ sb'.len = 0
    BY <2>1, <2>2, <2>3, ResetKeeps
  <2>5. sb' \in Buffer
    BY <2>1, <2>4, ExactFact
  <2> QED
    BY <2>1, <2>4, <2>5 DEF Seeks
<1> QED
  BY <1>3, <1>4

\* The lines of a usage.
LEMMA UsagesNext ==
  ASSUME BufferInv, B!SplitUsage \/ B!NextUsage
  PROVE  BufferInv'
<1>0. user = "usage" /\ user' = user /\ phase' \in {"start", "lines"} /\ sb' = sb
  BY DEF B!SplitUsage, B!NextUsage, B!Goes
<1>1. sb \in Buffer /\ Stack(sl, pushed) /\ Usages(phase, pushed, meant)
  BY <1>0 DEF BufferInv
<1>2. SUFFICES Stack(sl', pushed') /\ Usages(phase', pushed', meant')
  BY <1>0, <1>1 DEF BufferInv, Owners
<1>3. CASE B!SplitUsage
  <2>1. PICK t \in Usage :
          LET lines == B!strlist_split_word(t, LineWidth)
          IN  meant' = t /\ pushed' = lines /\ sl' = B!PushAll(sl, lines)
    BY <1>3 DEF B!SplitUsage
  <2>2. phase = "start" /\ phase' = "lines"
    BY <1>3 DEF B!SplitUsage, B!Goes
  <2>3. Stack(sl, <<>>)
    BY <1>1, <2>2 DEF Usages
  <2>4. /\ pushed' \in Seq(PlainTexts) /\ B!Joined(pushed') = meant'
        /\ \A x \in 1..Len(pushed') : Len(pushed'[x]) <= LineWidth
    BY <2>1, SplitKeeps
  <2>5. Stack(sl', pushed')
    BY <2>1, <2>3, <2>4, PushAllKeeps
  <2>6. DOMAIN pushed' = 1..Len(pushed')
    BY <2>4
  <2> QED
    BY <2>2, <2>4, <2>5, <2>6 DEF Usages
<1>4. CASE B!NextUsage
  <2>1. sl' = B!strlist_reset(sl) /\ pushed' = <<>> /\ phase' = "start"
    BY <1>4 DEF B!NextUsage, B!Goes
  <2>2. Stack(sl', <<>>)
    BY <1>1, <2>1, EmptyKeeps
  <2> QED
    BY <2>1, <2>2 DEF Usages
<1> QED
  BY <1>3, <1>4

\* No step disturbs a buffer or a list.
LEMMA BufferNext == BufferInv /\ [B!Next]_buffer => BufferInv'
<1> SUFFICES ASSUME BufferInv, [B!Next]_buffer PROVE BufferInv'
  OBVIOUS
<1>1. CASE UNCHANGED buffer
  BY <1>1 DEF buffer, BufferInv
<1>2. CASE B!Next
  <2>1. CASE B!StartWalk \/ B!WalkEntry \/ B!WalkPush \/ B!WalkReset \/ B!WalkPop \/ B!WalkUp
    BY <2>1, WalkNext
  <2>2. CASE B!StartNames \/ B!NextName
    BY <2>2, NamesNext
  <2>3. CASE B!StartQuery \/ B!QueryPath
    BY <2>3, QueryNext
  <2>4. CASE B!StartSources \/ B!NextSource \/ B!NextSourceBase
    BY <2>4, SourcesNext
  <2>5. CASE B!PidFile \/ B!NextPidFile
    BY <2>5, SeeksNext
  <2>6. CASE B!SplitUsage \/ B!NextUsage
    BY <2>6, UsagesNext
  <2>7. CASE B!Done
    BY <1>1, <2>7 DEF B!Done, B!vars, buffer
  <2> QED
    BY <1>2, <2>1, <2>2, <2>3, <2>4, <2>5, <2>6, <2>7 DEF B!Next
<1> QED
  BY <1>1, <1>2

\* What the invariant says of a reader.
LEMMA BufferMeant == BufferInv => B!TextAsMeant
<1> SUFFICES ASSUME BufferInv PROVE B!TextAsMeant
  OBVIOUS
<1>0. user \in Owners /\ sb \in Buffer /\ Stack(sl, pushed)
  BY DEF BufferInv
<1>1. ASSUME phase \in B!Shown
      PROVE  (~drifted => B!Visible(sb) = meant) /\ Len(B!Visible(sb)) <= sb.len /\ sb.len < Len(sb.str)
  <2>1. phase \in {"dir", "entry", "name", "up"}
    BY <1>1 DEF B!Shown
  <2>2. ASSUME Exact(sb, meant)
        PROVE  B!Visible(sb) = meant /\ Len(B!Visible(sb)) <= sb.len /\ sb.len < Len(sb.str)
    <3>1. /\ B!Visible(sb) = meant /\ sb.len = Len(meant) /\ Len(meant) \in Nat
          /\ Len(meant) < Len(sb.str)
      BY <2>2, ExactFact
    <3> QED
      BY <3>1
  <2>3. CASE user = "walk"
    BY <2>1, <2>2, <2>3 DEF BufferInv, Walks
  <2>4. CASE user = "names"
    <3>1. Holds(sb, meant) /\ Len(meant) <= sb.len /\ sb.len < Len(sb.str)
      BY <2>1, <2>4 DEF BufferInv, Names
    <3> QED
      BY <3>1, VisibleFact
  <2>5. CASE user = "query"
    BY <2>1, <2>5 DEF BufferInv, Asks
  <2>6. CASE user = "sources"
    BY <2>1, <2>2, <2>6 DEF BufferInv, Sources
  <2>7. CASE user = "pid"
    BY <2>1, <2>2, <2>7 DEF BufferInv, Seeks
  <2>8. CASE user = "usage"
    BY <2>1, <2>8 DEF BufferInv, Usages
  <2> QED
    BY <1>0, <2>3, <2>4, <2>5, <2>6, <2>7, <2>8 DEF Owners
<1>2. sl.nl = Len(pushed) /\ \A x \in 1..sl.nl : Holds(sl.list[x], pushed[x])
  BY <1>0 DEF Stack
<1>3. \A x \in DOMAIN pushed : B!Visible(sl.list[x]) = pushed[x]
  <2>1. DOMAIN pushed = 1..sl.nl
    <3>1. pushed \in Seq(PlainTexts)
      BY <1>0, StackFact
    <3> QED
      BY <1>2, <3>1
  <2> QED
    BY <1>2, <2>1, VisibleFact
<1>4. ASSUME phase = "lines"
      PROVE  B!Joined(pushed) = meant /\ \A x \in DOMAIN pushed : Len(pushed[x]) <= LineWidth
  BY <1>0, <1>4 DEF BufferInv, Owners, Walks, Names, Asks, Sources, Seeks, Usages
<1> QED
  BY <1>1, <1>2, <1>3, <1>4 DEF B!TextAsMeant

\* The text a user of a buffer reads is the one it has put together, whatever the length says
\* and whatever the memory held before, and a list gives back what was put on it.
THEOREM TextsAreMeant == TextsSpec => []TextAsMeant
<1> DEFINE J == user = "none" \/ BufferInv
<1>1. TextsInit => J
  BY BufferInit DEF TextsInit, NoBuffer
<1>2. J /\ [TextsNext]_<<vars, buffer, message>> => J'
  <2> SUFFICES ASSUME J, [TextsNext]_<<vars, buffer, message>> PROVE J'
    OBVIOUS
  <2>1. CASE UNCHANGED buffer
    BY <2>1 DEF buffer, BufferInv
  <2>2. CASE B!Next
    <3>1. CASE user = "none"
      <4>1. user' = "none"
        BY <2>2, <3>1 DEF B!Next, B!StartWalk, B!WalkEntry, B!WalkPush, B!WalkReset, B!WalkPop, B!WalkUp,
           B!StartNames, B!NextName, B!StartQuery, B!QueryPath, B!StartSources, B!NextSource, B!NextSourceBase,
           B!PidFile, B!NextPidFile, B!SplitUsage, B!NextUsage, B!Done, B!vars
      <4> QED
        BY <4>1
    <3>2. CASE BufferInv
      BY <2>2, <3>2, BufferNext
    <3> QED
      BY <3>1, <3>2
  <2> QED
    BY <2>1, <2>2 DEF TextsNext
<1>3. J => TextAsMeant
  BY BufferMeant DEF TextAsMeant
<1> QED
  BY <1>1, <1>2, <1>3, PTL DEF TextsSpec

-----------------------------------------------------------------------------
(* What a command line means. *)

\* The entries of the tables that are options.
dotsav_o == APOPT_FILENAME(<<"d", "o">>)
log_o == APOPT_FILENAME(<<"l", "o">>)
thrd_o == Option("uint", "n", FALSE, <<"t", "h">>)
force_o == Option("countup", "f", FALSE, <<"f", "o">>)
dir_o == Option("switch", "", TRUE, <<"d", "i">>)
file_o == Option("switch", "", TRUE, <<"f", "i">>)
from_o == Option("countup", "s", FALSE, <<"f", "r">>)
OptionsOf(c) ==
  IF c = "main" THEN {dotsav_o, log_o}
  ELSE IF c = "copy" THEN {thrd_o, force_o}
  ELSE IF c = "sizeof" THEN {dir_o, file_o, from_o}
  ELSE {}
Subs(c) ==
  IF c = "main" THEN {"backup", "copy", "help", "query", "sizeof", "version"}
  ELSE IF c = "query" THEN {"path", "limit"} ELSE {}

\* Tables of any entries.
LEMMA Table1Fact ==
  ASSUME NEW a
  PROVE  Range(<<a>>) = {a} /\ <<a>> \in Seq({a})
<1>1. Range(<<a>>) = {a}
  BY DEF Range
<1> QED
  BY <1>1

LEMMA Table2Fact ==
  ASSUME NEW a, NEW b
  PROVE  Range(<<a, b>>) = {a, b} /\ <<a, b>> \in Seq({a, b})
<1>1. Range(<<a, b>>) = {a, b}
  BY DEF Range
<1> QED
  BY <1>1

LEMMA Table3Fact ==
  ASSUME NEW a, NEW b, NEW d
  PROVE  Range(<<a, b, d>>) = {a, b, d} /\ <<a, b, d>> \in Seq({a, b, d})
<1>1. Range(<<a, b, d>>) = {a, b, d}
  BY DEF Range
<1> QED
  BY <1>1

LEMMA Table9Fact ==
  ASSUME NEW a, NEW b, NEW d, NEW e, NEW f, NEW g, NEW h, NEW p, NEW q
  PROVE  Range(<<a, b, d, e, f, g, h, p, q>>) = {a, b, d, e, f, g, h, p, q} /\ <<a, b, d, e, f, g, h, p, q>> \in Seq({a, b, d, e, f, g, h, p, q})
<1>1. Range(<<a, b, d, e, f, g, h, p, q>>) = {a, b, d, e, f, g, h, p, q}
  BY DEF Range
<1> QED
  BY <1>1

\* The entries of each table.
EntriesOf(c) ==
  IF c = "main" THEN {dotsav_o, log_o, Group, Sub("backup"), Sub("copy"), Sub("help"), Sub("query"), Sub("sizeof"), Sub("version")}
  ELSE IF c = "copy" THEN {thrd_o, force_o}
  ELSE IF c = "sizeof" THEN {dir_o, file_o, from_o}
  ELSE IF c = "query" THEN {Sub("path"), Sub("limit")}
  ELSE {Group}

LEMMA RangeFact ==
  ASSUME NEW c
  PROVE  option_table(c) \in Seq(EntriesOf(c)) /\ Range(option_table(c)) = EntriesOf(c)
<1>1. CASE c = "main"
  <2>1. option_table(c) = <<dotsav_o, log_o, Group, Sub("backup"), Sub("copy"), Sub("help"), Sub("query"), Sub("sizeof"), Sub("version")>>
    BY <1>1 DEF option_table, main_option, dotsav_o, log_o
  <2>2. EntriesOf(c) = {dotsav_o, log_o, Group, Sub("backup"), Sub("copy"), Sub("help"), Sub("query"), Sub("sizeof"), Sub("version")}
    BY <1>1 DEF EntriesOf
  <2>3. Range(<<dotsav_o, log_o, Group, Sub("backup"), Sub("copy"), Sub("help"), Sub("query"), Sub("sizeof"), Sub("version")>>) = {dotsav_o, log_o, Group, Sub("backup"), Sub("copy"), Sub("help"), Sub("query"), Sub("sizeof"), Sub("version")} /\ <<dotsav_o, log_o, Group, Sub("backup"), Sub("copy"), Sub("help"), Sub("query"), Sub("sizeof"), Sub("version")>> \in Seq({dotsav_o, log_o, Group, Sub("backup"), Sub("copy"), Sub("help"), Sub("query"), Sub("sizeof"), Sub("version")})
    BY Table9Fact, Zenon
  <2> QED
    BY <2>1, <2>2, <2>3, Zenon
<1>2. CASE c = "copy"
  <2>1. option_table(c) = <<thrd_o, force_o>>
    BY <1>2 DEF option_table, copy_option, thrd_o, force_o
  <2>2. EntriesOf(c) = {thrd_o, force_o}
    BY <1>2 DEF EntriesOf
  <2>3. Range(<<thrd_o, force_o>>) = {thrd_o, force_o} /\ <<thrd_o, force_o>> \in Seq({thrd_o, force_o})
    BY Table2Fact, Zenon
  <2> QED
    BY <2>1, <2>2, <2>3, Zenon
<1>3. CASE c = "sizeof"
  <2>1. option_table(c) = <<dir_o, file_o, from_o>>
    BY <1>3 DEF option_table, sizeof_option, dir_o, file_o, from_o
  <2>2. EntriesOf(c) = {dir_o, file_o, from_o}
    BY <1>3 DEF EntriesOf
  <2>3. Range(<<dir_o, file_o, from_o>>) = {dir_o, file_o, from_o} /\ <<dir_o, file_o, from_o>> \in Seq({dir_o, file_o, from_o})
    BY Table3Fact, Zenon
  <2> QED
    BY <2>1, <2>2, <2>3, Zenon
<1>4. CASE c = "query"
  <2>1. option_table(c) = <<Sub("path"), Sub("limit")>>
    BY <1>4 DEF option_table, query_option
  <2>2. EntriesOf(c) = {Sub("path"), Sub("limit")}
    BY <1>4 DEF EntriesOf
  <2>3. Range(<<Sub("path"), Sub("limit")>>) = {Sub("path"), Sub("limit")} /\ <<Sub("path"), Sub("limit")>> \in Seq({Sub("path"), Sub("limit")})
    BY Table2Fact, Zenon
  <2> QED
    BY <2>1, <2>2, <2>3, Zenon
<1>5. CASE c \notin {"main", "copy", "sizeof", "query"}
  <2>1. option_table(c) = <<Group>>
    BY <1>5 DEF option_table, path_option
  <2>2. EntriesOf(c) = {Group}
    BY <1>5 DEF EntriesOf
  <2>3. Range(<<Group>>) = {Group} /\ <<Group>> \in Seq({Group})
    BY Table1Fact, Zenon
  <2> QED
    BY <2>1, <2>2, <2>3, Zenon
<1> QED
  BY <1>1, <1>2, <1>3, <1>4, <1>5

\* What the options are called.
LEMMA FieldsFact ==
  /\ dotsav_o.type = "string" /\ dotsav_o.short = "" /\ dotsav_o.neg = FALSE /\ dotsav_o.name = <<"d", "o">>
  /\ log_o.type = "string" /\ log_o.short = "" /\ log_o.neg = FALSE /\ log_o.name = <<"l", "o">>
  /\ thrd_o.type = "uint" /\ thrd_o.short = "n" /\ thrd_o.neg = FALSE /\ thrd_o.name = <<"t", "h">>
  /\ force_o.type = "countup" /\ force_o.short = "f" /\ force_o.neg = FALSE /\ force_o.name = <<"f", "o">>
  /\ dir_o.type = "switch" /\ dir_o.short = "" /\ dir_o.neg = TRUE /\ dir_o.name = <<"d", "i">>
  /\ file_o.type = "switch" /\ file_o.short = "" /\ file_o.neg = TRUE /\ file_o.name = <<"f", "i">>
  /\ from_o.type = "countup" /\ from_o.short = "s" /\ from_o.neg = FALSE /\ from_o.name = <<"f", "r">>
  /\ Group.type = "group" /\ Group.short = "" /\ Group.neg = FALSE /\ Group.name = <<"t", "i">>
  /\ \A x : Sub(x).type = "subcmd" /\ Sub(x).short = "" /\ Sub(x).neg = FALSE /\ Sub(x).name = <<x>>
BY DEF dotsav_o, log_o, thrd_o, force_o, dir_o, file_o, from_o, Group, Sub, Option, APOPT_FILENAME

\* The options of each command.
LEMMA OptionsFact == ASSUME NEW c PROVE Options(c) = OptionsOf(c)
<1>1. Options(c) = {o \in EntriesOf(c) : o.type \notin {"group", "subcmd"}}
  BY RangeFact DEF Options
<1>2. CASE c = "main"
  <2>1. OptionsOf(c) = {dotsav_o, log_o} /\ \A o \in EntriesOf(c) : o \in {dotsav_o, log_o, Group} \/ \E x : o = Sub(x)
    BY <1>2 DEF OptionsOf, EntriesOf
  <2>2. dotsav_o \in EntriesOf(c) /\ log_o \in EntriesOf(c)
    BY <1>2 DEF EntriesOf
  <2> QED
    BY <1>1, <2>1, <2>2, FieldsFact, ZenonT(60)
<1>3. CASE c = "copy"
  BY <1>1, <1>3, FieldsFact DEF EntriesOf, OptionsOf
<1>4. CASE c = "sizeof"
  BY <1>1, <1>4, FieldsFact DEF EntriesOf, OptionsOf
<1>5. CASE c \notin {"main", "copy", "sizeof"}
  <2>1. OptionsOf(c) = {} /\ \A o \in EntriesOf(c) : o = Group \/ \E x : o = Sub(x)
    BY <1>5 DEF OptionsOf, EntriesOf
  <2> QED
    BY <1>1, <2>1, FieldsFact, ZenonT(60)
<1> QED
  BY <1>2, <1>3, <1>4, <1>5

Options7 == {dotsav_o, log_o, thrd_o, force_o, dir_o, file_o, from_o}
Names7 == {<<"d", "o">>, <<"l", "o">>, <<"t", "h">>, <<"f", "o">>, <<"f", "r">>, <<"d", "i">>, <<"f", "i">>}

\* Names are pairs; titles and commands are no options.
LEMMA TupleFact ==
  /\ \A a, b : Len(<<a, b>>) = 2 /\ <<a, b>>[1] = a /\ <<a, b>>[2] = b
  /\ \A a : Len(<<a>>) = 1 /\ <<a>>[1] = a
OBVIOUS

LEMMA NamePairs ==
  /\ \A o \in Options7 : Len(o.name) = 2
  /\ dotsav_o.name[1] = "d" /\ log_o.name[1] = "l" /\ thrd_o.name[1] = "t" /\ force_o.name[1] = "f"
  /\ dir_o.name[1] = "d" /\ file_o.name[1] = "f" /\ from_o.name[1] = "f"
  /\ dotsav_o.name[2] = "o" /\ log_o.name[2] = "o" /\ thrd_o.name[2] = "h" /\ force_o.name[2] = "o"
  /\ dir_o.name[2] = "i" /\ file_o.name[2] = "i" /\ from_o.name[2] = "r"
<1>1. \A a, b : Len(<<a, b>>) = 2 /\ <<a, b>>[1] = a /\ <<a, b>>[2] = b
  BY TupleFact
<1>2. /\ dotsav_o.name = <<"d", "o">> /\ log_o.name = <<"l", "o">> /\ thrd_o.name = <<"t", "h">>
      /\ force_o.name = <<"f", "o">> /\ dir_o.name = <<"d", "i">> /\ file_o.name = <<"f", "i">>
      /\ from_o.name = <<"f", "r">>
  BY FieldsFact, Zenon
<1>3. \A o \in Options7 : Len(o.name) = 2
  <2> SUFFICES ASSUME NEW o \in Options7 PROVE \E a, b : o.name = <<a, b>>
    BY <1>1
  <2>1. o \in {dotsav_o, log_o, thrd_o, force_o, dir_o, file_o, from_o}
    BY DEF Options7
  <2> QED
    BY <1>2, <2>1, Zenon
<1>4. /\ dotsav_o.name[1] = "d" /\ log_o.name[1] = "l" /\ thrd_o.name[1] = "t" /\ force_o.name[1] = "f"
      /\ dir_o.name[1] = "d" /\ file_o.name[1] = "f" /\ from_o.name[1] = "f"
  BY <1>1, <1>2
<1>5. /\ dotsav_o.name[2] = "o" /\ log_o.name[2] = "o" /\ thrd_o.name[2] = "h" /\ force_o.name[2] = "o"
      /\ dir_o.name[2] = "i" /\ file_o.name[2] = "i" /\ from_o.name[2] = "r"
  BY <1>1, <1>2
<1> QED
  BY <1>3, <1>4, <1>5

LEMMA EntriesFact ==
  ASSUME NEW c
  PROVE  /\ \A o \in EntriesOf(c) :
              \/ o \in OptionsOf(c)
              \/ o = Group /\ OptionsOf(c) \in {{}, {dotsav_o, log_o}}
              \/ \E x \in Subs(c) : o = Sub(x)
         /\ OptionsOf(c) \subseteq EntriesOf(c)
<1>1. CASE c = "main"
  BY <1>1 DEF EntriesOf, OptionsOf, Subs
<1>2. CASE c = "copy"
  BY <1>2 DEF EntriesOf, OptionsOf, Subs
<1>3. CASE c = "sizeof"
  BY <1>3 DEF EntriesOf, OptionsOf, Subs
<1>4. CASE c = "query"
  BY <1>4 DEF EntriesOf, OptionsOf, Subs
<1>5. CASE c \notin {"main", "copy", "sizeof", "query"}
  BY <1>5 DEF EntriesOf, OptionsOf, Subs
<1> QED
  BY <1>1, <1>2, <1>3, <1>4, <1>5

\* No two options have the same name, in whatever tables.
LEMMA NamesFact ==
  /\ \A o1, o2 \in Options7 : o1.name = o2.name => o1 = o2
  /\ \A o \in Options7 :
       /\ o.type \in {"switch", "countup", "uint", "string"} /\ o.name \in Names7
       /\ o.neg \in BOOLEAN /\ (o.neg => o.type = "switch")
       /\ \A x : o.name # <<x>>
       /\ o.name # <<"t", "i">>
  /\ \A c : OptionsOf(c) \subseteq Options7
<1>1. \A o1, o2 \in Options7 : o1.name = o2.name => o1 = o2
  <2> SUFFICES ASSUME NEW o1 \in Options7, NEW o2 \in Options7, o1.name = o2.name PROVE o1 = o2
    OBVIOUS
  <2>1. o1 \in {dotsav_o, log_o, thrd_o, force_o, dir_o, file_o, from_o} /\ o2 \in {dotsav_o, log_o, thrd_o, force_o, dir_o, file_o, from_o}
    BY DEF Options7
  <2>2. o1.name[1] = o2.name[1] /\ o1.name[2] = o2.name[2]
    OBVIOUS
  <2> QED
    BY <2>1, <2>2, NamePairs
<1>2. \A o \in Options7 :
       /\ o.type \in {"switch", "countup", "uint", "string"} /\ o.name \in Names7
       /\ o.neg \in BOOLEAN /\ (o.neg => o.type = "switch")
  BY FieldsFact DEF Options7, Names7
<1>3. ASSUME NEW o \in Options7, NEW x PROVE o.name # <<x>>
  <2>1. Len(o.name) = 2 /\ Len(<<x>>) = 1
    BY NamePairs, TupleFact
  <2> QED
    BY <2>1
<1>4. ASSUME NEW o \in Options7 PROVE o.name # <<"t", "i">>
  <2>1. o \in {dotsav_o, log_o, thrd_o, force_o, dir_o, file_o, from_o}
    BY DEF Options7
  <2>2. o.name[1] # "t" \/ o.name[2] # "i"
    BY <2>1, NamePairs
  <2> QED
    BY <2>2, TupleFact
<1>5. \A c : OptionsOf(c) \subseteq Options7
  BY DEF OptionsOf, Options7
<1> QED
  BY <1>1, <1>2, <1>3, <1>4, <1>5

\* The first entry of some is one of them.
LEMMA FirstFact ==
  ASSUME NEW is, is \subseteq DOMAIN option
  PROVE  /\ is = {} => FirstOption(is) = {}
         /\ is # {} => \E y \in is : FirstOption(is) = {option[y]}
<1>1. CASE is = {}
  BY <1>1 DEF FirstOption
<1>2. CASE is # {}
  <2>1. is \subseteq Nat
    BY RangeFact DEF option
  <2>2. PICK y \in is : \A j \in is : y <= j
    BY <1>2, <2>1, LeastOfAll
  <2>3. {j \in is : \A k \in is : j <= k} = {y}
    BY <2>1, <2>2
  <2>4. FirstOption(is) = {option[j] : j \in {y}}
    BY <2>3, Zenon DEF FirstOption
  <2> QED
    BY <1>2, <2>4
<1> QED
  BY <1>1, <1>2

\* The letter of an option is that of the first entry, and of no other option.
LEMMA LetterFact ==
  ASSUME NEW x, x # ""
  PROVE  LET found == FirstOption({y \in DOMAIN option : option[y].short = x}) IN
         /\ found = Letter(cmd, x)
         /\ found = {} \/ \E o \in Options(cmd) : found = {o} /\ ~o.neg
<1> DEFINE is == {y \in DOMAIN option : option[y].short = x}
           found == FirstOption(is)
<1>1. /\ \A y \in DOMAIN option : option[y] \in EntriesOf(cmd)
      /\ \A o \in EntriesOf(cmd) : \E y \in DOMAIN option : o = option[y]
  BY RangeFact DEF option, Range
<1>2. \A o \in EntriesOf(cmd) : o.short = x => o \in OptionsOf(cmd) /\ ~o.neg
  <2>1. \A o \in OptionsOf(cmd) : o.short = x => ~o.neg
    BY FieldsFact DEF OptionsOf
  <2> QED
    <3> SUFFICES ASSUME NEW o \in EntriesOf(cmd), o.short = x PROVE o \in OptionsOf(cmd) /\ ~o.neg
      OBVIOUS
    <3>1. o # Group /\ \A y : o # Sub(y)
      BY FieldsFact
    <3> QED
      BY <2>1, <3>1, EntriesFact
<1>3. \A o1, o2 \in OptionsOf(cmd) : o1.short = x /\ o2.short = x => o1 = o2
  BY FieldsFact, ZenonT(60) DEF OptionsOf
<1>4. OptionsOf(cmd) \subseteq EntriesOf(cmd)
  BY EntriesFact
<1>5. Letter(cmd, x) = {o \in OptionsOf(cmd) : o.short = x}
  BY OptionsFact DEF Letter
<1>6. CASE is = {}
  <2>1. found = {}
    BY <1>6, FirstFact
  <2> QED
    <3>1. \A o \in OptionsOf(cmd) : o.short # x
      BY <1>1, <1>4, <1>6
    <3> QED
      BY <1>5, <2>1, <3>1
<1>7. CASE is # {}
  <2>1. PICK y \in is : found = {option[y]}
    BY <1>7, FirstFact
  <2>2. option[y] \in OptionsOf(cmd) /\ option[y].short = x /\ ~option[y].neg
    BY <1>1, <1>2
  <2>3. Letter(cmd, x) = {option[y]}
    BY <1>3, <1>5, <2>2
  <2> QED
    BY <2>1, <2>2, <2>3, OptionsFact
<1> QED
  BY <1>6, <1>7

\* Prefixes of names.
LEMMA BeginFact ==
  ASSUME NEW t, IsText(t), NEW a, NEW b
  PROVE  /\ t = <<>> => IsPrefix(t, <<a, b>>)
         /\ t # <<>> /\ IsPrefix(t, <<a, b>>) => t[1] = a
         /\ t = <<a, b>> => IsPrefix(t, <<a, b>>)
<1> DEFINE n == <<a, b>>
           S == Range(t) \cup {a, b}
<1>1. t \in Seq(S) /\ n \in Seq(S) /\ Len(n) = 2 /\ n[1] = a
  <2>1. n \in Seq({a, b}) /\ Len(n) = 2 /\ n[1] = a
    BY Table2Fact, TupleFact
  <2>2. t \in Seq(Range(t))
    BY DEF IsText
  <2> QED
    BY <2>1, <2>2
<1> HIDE DEF n, S
<1>2. t = <<>> => IsPrefix(t, n)
  BY <1>1 DEF IsPrefix
<1>3. t = n => IsPrefix(t, n)
  <2>1. IsPrefix(n, n)
    BY <1>1 DEF IsPrefix
  <2> QED
    BY <2>1, Zenon
<1>4. ASSUME t # <<>>, IsPrefix(t, n) PROVE t[1] = a
  <2>1. Len(t) >= 1 /\ Len(t) \in Nat /\ Len(t) <= Len(n) /\ SubSeq(t, 1, Len(t)) = SubSeq(n, 1, Len(t))
    BY <1>1, <1>4 DEF IsPrefix
  <2>2. SubSeq(t, 1, Len(t))[1] = t[1] /\ SubSeq(n, 1, Len(t))[1] = n[1]
    BY <1>1, <2>1
  <2> QED
    BY <1>1, <2>1, <2>2
<1> QED
  BY <1>2, <1>3, <1>4 DEF n

\* The places of the entries.
LEMMA PlacesFact ==
  ASSUME NEW c
  PROVE  LET f == option_table(c) IN
         /\ c = "main" => /\ DOMAIN f = 1..9 /\ f[1] = dotsav_o /\ f[2] = log_o /\ f[3] = Group
                          /\ \A j \in 4..9 : f[j].type = "subcmd"
         /\ c = "copy" => DOMAIN f = 1..2 /\ f[1] = thrd_o /\ f[2] = force_o
         /\ c = "sizeof" => DOMAIN f = 1..3 /\ f[1] = dir_o /\ f[2] = file_o /\ f[3] = from_o
         /\ c = "query" => \A j \in DOMAIN f : f[j].type = "subcmd"
         /\ c \notin {"main", "copy", "sizeof", "query"} => DOMAIN f = {1} /\ f[1] = Group
<1>1. /\ \A a, b : DOMAIN <<a, b>> = 1..2 /\ <<a, b>>[1] = a /\ <<a, b>>[2] = b
      /\ \A a : DOMAIN <<a>> = {1} /\ <<a>>[1] = a
  OBVIOUS
<1>2. \A a, b, d : DOMAIN <<a, b, d>> = 1..3 /\ <<a, b, d>>[1] = a /\ <<a, b, d>>[2] = b /\ <<a, b, d>>[3] = d
  OBVIOUS
<1>3. CASE c = "main"
  <2> DEFINE s == <<dotsav_o, log_o, Group, Sub("backup"), Sub("copy"), Sub("help"), Sub("query"), Sub("sizeof"), Sub("version")>>
  <2>1. option_table(c) = s
    BY <1>3 DEF option_table, main_option, dotsav_o, log_o
  <2>2. /\ DOMAIN s = 1..9 /\ s[1] = dotsav_o /\ s[2] = log_o /\ s[3] = Group
        /\ \A j \in 4..9 : s[j] \in {Sub("backup"), Sub("copy"), Sub("help"), Sub("query"), Sub("sizeof"), Sub("version")}
    OBVIOUS
  <2> HIDE DEF s
  <2>3. ASSUME NEW j \in 4..9 PROVE s[j].type = "subcmd"
    <3>1. \E x : s[j] = Sub(x)
      BY <2>2, Zenon
    <3> QED
      BY <3>1, FieldsFact
  <2> QED
    BY <1>3, <2>1, <2>2, <2>3
<1>4. CASE c = "copy"
  <2>1. option_table(c) = <<thrd_o, force_o>>
    BY <1>4 DEF option_table, copy_option, thrd_o, force_o
  <2> QED
    BY <1>1, <1>4, <2>1
<1>5. CASE c = "sizeof"
  <2>1. option_table(c) = <<dir_o, file_o, from_o>>
    BY <1>5 DEF option_table, sizeof_option, dir_o, file_o, from_o
  <2> QED
    BY <1>2, <1>5, <2>1
<1>6. CASE c = "query"
  <2>1. \A o \in EntriesOf(c) : o.type = "subcmd"
    BY <1>6, FieldsFact DEF EntriesOf
  <2>2. \A j \in DOMAIN option_table(c) : option_table(c)[j] \in EntriesOf(c)
    BY RangeFact
  <2> QED
    BY <1>6, <2>1, <2>2
<1>7. CASE c \notin {"main", "copy", "sizeof", "query"}
  <2>1. option_table(c) = <<Group>>
    BY <1>7 DEF option_table, path_option
  <2> QED
    BY <1>1, <1>7, <2>1
<1> QED
  BY <1>3, <1>4, <1>5, <1>6, <1>7

\* Of two entries that a word may name, the names begin with different pieces.
Named(o, no) == o.type \notin {"subcmd", "membinfo"} /\ o.neg = no

LEMMA GroupName == Len(Group.name) = 2 /\ Group.name[1] = "t" /\ Group.name[2] = "i"
<1>1. Group.name = <<"t", "i">>
  BY FieldsFact, Zenon
<1> QED
  BY <1>1, TupleFact

LEMMA NamedFact ==
  ASSUME NEW c, NEW no \in BOOLEAN, NEW j \in DOMAIN option_table(c), NEW k \in DOMAIN option_table(c),
         Named(option_table(c)[j], no), Named(option_table(c)[k], no),
         option_table(c)[j].name[1] = option_table(c)[k].name[1]
  PROVE  j = k
<1>1. CASE c = "main"
  <2>1. j \in 1..3 /\ k \in 1..3
    BY <1>1, PlacesFact DEF Named
  <2> QED
    BY <1>1, <2>1, PlacesFact, NamePairs, GroupName
<1>2. CASE c = "copy"
  BY <1>2, PlacesFact, NamePairs
<1>3. CASE c = "sizeof"
  <2>1. j \in 1..3 /\ k \in 1..3 /\ option_table(c)[1] = dir_o /\ option_table(c)[2] = file_o /\ option_table(c)[3] = from_o
    BY <1>3, PlacesFact
  <2>2. dir_o.neg = TRUE /\ file_o.neg = TRUE /\ from_o.neg = FALSE
    BY FieldsFact, Zenon
  <2>3. dir_o.name[1] = "d" /\ file_o.name[1] = "f"
    BY NamePairs
  <2>4. option_table(c)[j].neg = no /\ option_table(c)[k].neg = no
    BY DEF Named
  <2>5. j = 1 \/ j = 2 \/ j = 3
    BY <2>1
  <2>6. k = 1 \/ k = 2 \/ k = 3
    BY <2>1
  <2> QED
    BY <2>1, <2>2, <2>3, <2>4, <2>5, <2>6
<1>4. CASE c = "query"
  BY <1>4, PlacesFact DEF Named
<1>5. CASE c \notin {"main", "copy", "sizeof", "query"}
  BY <1>5, PlacesFact
<1> QED
  BY <1>1, <1>2, <1>3, <1>4, <1>5

\* The entry that a word names is the only option it can mean.
LEMMA LongFact ==
  ASSUME NEW w, IsText(w.text), w.no \in BOOLEAN
  PROVE  \/ Meant(w) = {} /\ Cardinality(Fitting(cmd, w)) # 1
         \/ \E o \in Options(cmd) : Meant(w) = {o} /\ Fitting(cmd, w) = {o} /\ o.neg = w.no
         \/ Meant(w) = {Group} /\ Fitting(cmd, w) = {}
<1> DEFINE t == w.text
           A == Abbreviated(w)
           E == {y \in DOMAIN option : IsNamed(option[y], w) /\ option[y].name = t}
           fits == {o \in OptionsOf(cmd) : o.neg = w.no /\ IsPrefix(t, o.name)}
           exact == {o \in fits : o.name = t}
<1>1. /\ Fitting(cmd, w) = IF exact # {} THEN exact ELSE fits
      /\ Meant(w) = IF FirstOption(E) # {} THEN FirstOption(E)
                    ELSE IF Cardinality(A) = 1 THEN {option[y] : y \in A} ELSE {}
  BY OptionsFact, Zenon DEF Fitting, Meant
<1>2. /\ \A y \in DOMAIN option : option[y] \in EntriesOf(cmd)
      /\ \A o \in EntriesOf(cmd) : \E y \in DOMAIN option : o = option[y]
      /\ DOMAIN option \subseteq Nat
  BY RangeFact DEF option, Range
<1>3. /\ \A y \in DOMAIN option :
           Named(option[y], w.no) => option[y] = Group \/ option[y] \in OptionsOf(cmd)
      /\ \A o \in OptionsOf(cmd) : o.neg = w.no => Named(o, w.no)
  <2>1. \A o \in EntriesOf(cmd) : o.type # "subcmd" => o = Group \/ o \in OptionsOf(cmd)
    BY EntriesFact, FieldsFact, ZenonT(60)
  <2>2. \A o \in OptionsOf(cmd) : o.type \notin {"subcmd", "membinfo"}
    BY NamesFact
  <2> QED
    BY <1>2, <2>1, <2>2 DEF Named
<1>4. A = {y \in DOMAIN option : Named(option[y], w.no) /\ IsPrefix(t, option[y].name)}
  BY DEF Abbreviated, IsNamed, Named
<1>5. E = {y \in DOMAIN option : Named(option[y], w.no) /\ option[y].name = t}
  BY DEF IsNamed, Named
<1>6. \A o \in OptionsOf(cmd) \cup {Group} : \E a, b : o.name = <<a, b>> /\ o.name[1] = a
  <2>1. \A o \in Options7 \cup {Group} : \E a, b : o.name = <<a, b>>
    BY FieldsFact, ZenonT(60) DEF Options7
  <2> QED
    BY <2>1, TupleFact, NamesFact
<1>7. \A o \in OptionsOf(cmd) \cup {Group} :
        /\ t = <<>> => IsPrefix(t, o.name) /\ o.name # t
        /\ t # <<>> /\ IsPrefix(t, o.name) => t[1] = o.name[1]
        /\ o.name = t => IsPrefix(t, o.name)
  <2> TAKE o \in OptionsOf(cmd) \cup {Group}
  <2>1. PICK a, b : o.name = <<a, b>> /\ o.name[1] = a
    BY <1>6
  <2>2. <<a, b>> # <<>>
    OBVIOUS
  <2> QED
    <3>1. /\ t = <<>> => IsPrefix(t, <<a, b>>)
          /\ t # <<>> /\ IsPrefix(t, <<a, b>>) => t[1] = a
          /\ t = <<a, b>> => IsPrefix(t, <<a, b>>)
      BY BeginFact
    <3> HIDE DEF t
    <3> QED
      BY <2>1, <2>2, <3>1, Zenon
<1>8. E \subseteq A
  BY <1>3, <1>4, <1>5, <1>7
<1>9. Group \in OptionsOf(cmd) => FALSE
  BY OptionsFact, FieldsFact DEF Options
<1> HIDE DEF A, E, t
<1>10. CASE t # <<>>
  <2>1. \A y, z \in A : y = z
    <3> SUFFICES ASSUME NEW y \in A, NEW z \in A PROVE y = z
      OBVIOUS
    <3>1. option[y].name[1] = t[1] /\ option[z].name[1] = t[1]
      BY <1>3, <1>4, <1>7, <1>10
    <3> QED
      BY <1>4, <3>1, NamedFact DEF option
  <2>2. CASE A = {}
    <3>1. Meant(w) = {}
      <4>1. FirstOption(E) = {}
        BY <1>5, <1>8, <2>2, FirstFact
      <4>2. Cardinality(A) # 1
        BY <2>2, FS_EmptySet
      <4> QED
        BY <1>1, <4>1, <4>2
    <3>2. fits = {}
      BY <1>2, <1>3, <1>4, <2>2, EntriesFact
    <3>3. Fitting(cmd, w) = {}
      BY <1>1, <3>2
    <3> QED
      BY <3>1, <3>3, FS_EmptySet
  <2>3. CASE A # {}
    <3>0. PICK y \in A : TRUE
      BY <2>3
    <3>1. A = {y}
      BY <2>1
    <3> DEFINE o == option[y]
    <3>2. Meant(w) = {o}
      <4>1. CASE E = {}
        <5>1. FirstOption(E) = {}
          BY <4>1, FirstFact
        <5>2. Cardinality(A) = 1
          BY <3>1, FS_Singleton
        <5>3. {option[z] : z \in A} = {o}
          BY <3>1
        <5> QED
          BY <1>1, <5>1, <5>2, <5>3
      <4>2. CASE E # {}
        <5>1. E = {y}
          BY <1>8, <3>1, <4>2
        <5>2. FirstOption(E) = {o}
          BY <1>5, <5>1, FirstFact
        <5> QED
          BY <1>1, <5>2
      <4> QED
        BY <4>1, <4>2
    <3>3. y \in DOMAIN option /\ Named(o, w.no) /\ IsPrefix(t, o.name)
      BY <1>4, <3>1
    <3>4. \A p \in fits : p = o
      <4> SUFFICES ASSUME NEW p \in fits PROVE p = o
        OBVIOUS
      <4>1. PICK z \in DOMAIN option : p = option[z]
        BY <1>2, EntriesFact
      <4>2. z \in A
        BY <1>3, <1>4, <4>1
      <4> QED
        BY <3>1, <4>1, <4>2
    <3>5. CASE o = Group
      <4>1. fits = {}
        BY <1>9, <3>4, <3>5
      <4> QED
        BY <1>1, <3>2, <3>5, <4>1
    <3>6. CASE o # Group
      <4>1. o \in OptionsOf(cmd) /\ o.neg = w.no
        BY <1>3, <3>3, <3>6 DEF Named
      <4>2. fits = {o}
        BY <3>3, <3>4, <4>1
      <4>3. Fitting(cmd, w) = {o}
        BY <1>1, <4>2
      <4> QED
        BY <3>2, <4>1, <4>3, OptionsFact
    <3> QED
      BY <3>5, <3>6
  <2> QED
    BY <2>2, <2>3
<1>11. CASE t = <<>>
  <2>1. A = {y \in DOMAIN option : Named(option[y], w.no)}
    BY <1>3, <1>4, <1>7, <1>11
  <2>2. E = {}
    BY <1>3, <1>5, <1>7, <1>11
  <2>3. FirstOption(E) = {}
    BY <2>2, FirstFact
  <2>4. fits = {o \in OptionsOf(cmd) : o.neg = w.no} /\ exact = {}
    BY <1>7, <1>11
  <2>5. Fitting(cmd, w) = {o \in OptionsOf(cmd) : o.neg = w.no}
    BY <1>1, <2>4
  <2>6. Meant(w) = IF Cardinality(A) = 1 THEN {option[y] : y \in A} ELSE {}
    BY <1>1, <2>3
  <2> HIDE DEF fits, exact
  <2>7. \A a, b : a # b => Cardinality({a, b}) # 1
    <3> SUFFICES ASSUME NEW a, NEW b, a # b, Cardinality({a, b}) = 1 PROVE FALSE
      OBVIOUS
    <3>1. IsFiniteSet({a}) /\ Cardinality({a}) = 1
      BY FS_Singleton
    <3>2. Cardinality({a} \cup {b}) = Cardinality({a}) + 1
      BY <3>1, FS_AddElement
    <3>3. {a} \cup {b} = {a, b}
      OBVIOUS
    <3> QED
      BY <3>1, <3>2, <3>3
  <2>8. CASE OptionsOf(cmd) = {} \/ (w.no /\ cmd # "sizeof")
    <3>1. Fitting(cmd, w) = {}
      <4>1. \A o \in {dotsav_o, log_o, thrd_o, force_o} : o.neg = FALSE
        BY FieldsFact
      <4>2. cmd # "sizeof" => OptionsOf(cmd) \subseteq {dotsav_o, log_o, thrd_o, force_o}
        BY DEF OptionsOf
      <4> QED
        BY <2>5, <2>8, <4>1, <4>2
    <3>2. {option[y] : y \in A} \subseteq {Group}
      BY <1>3, <2>1, <2>5, <3>1 DEF Named
    <3>3. Meant(w) = {} \/ Meant(w) = {Group}
      <4>1. CASE A = {}
        <5>1. {option[y] : y \in A} = {}
          BY <4>1
        <5> QED
          BY <2>6, <5>1
      <4>2. CASE A # {}
        <5>1. {option[y] : y \in A} = {Group}
          BY <3>2, <4>2
        <5> QED
          BY <2>6, <5>1
      <4> QED
        BY <4>1, <4>2
    <3> QED
      BY <3>1, <3>3, FS_EmptySet
  <2>9. CASE cmd \in {"main", "copy"} /\ ~w.no
    <3>1. PICK o1, o2 : OptionsOf(cmd) = {o1, o2} /\ o1 # o2 /\ o1.neg = FALSE /\ o2.neg = FALSE
      <4>1. dotsav_o # log_o /\ thrd_o # force_o
        BY NamePairs
      <4> QED
        BY <2>9, <4>1, FieldsFact DEF OptionsOf
    <3>2. Fitting(cmd, w) = {o1, o2}
      BY <2>5, <2>9, <3>1
    <3>3. Cardinality(A) # 1
      <4> SUFFICES ASSUME Cardinality(A) = 1 PROVE FALSE
        OBVIOUS
      <4>1. \E y : A = {y}
        <5>1. IsFiniteSet(1..Len(option)) /\ A \subseteq 1..Len(option)
          BY <1>4, RangeFact, FS_Interval DEF option
        <5> QED
          BY <5>1, FS_Subset, FS_Singleton
      <4>2. o1 \in {option[y] : y \in A} /\ o2 \in {option[y] : y \in A}
        <5>1. \A o \in OptionsOf(cmd) : o.neg = w.no => o \in {option[y] : y \in A}
          BY <1>2, <1>3, <2>1, EntriesFact
        <5> QED
          BY <2>9, <3>1, <5>1
      <4> QED
        BY <3>1, <4>1, <4>2
    <3> QED
      BY <2>6, <2>7, <3>1, <3>2, <3>3
  <2>10. CASE cmd = "sizeof"
    <3>1. option[1] = dir_o /\ option[2] = file_o /\ option[3] = from_o /\ DOMAIN option = 1..3
      BY <2>10, PlacesFact DEF option
    <3>2. /\ dir_o.neg = TRUE /\ file_o.neg = TRUE /\ from_o.neg = FALSE
          /\ dir_o.type = "switch" /\ file_o.type = "switch" /\ from_o.type = "countup"
      BY FieldsFact
    <3>3. OptionsOf(cmd) = {dir_o, file_o, from_o}
      BY <2>10 DEF OptionsOf
    <3>4. CASE w.no = TRUE
      <4>1. Fitting(cmd, w) = {dir_o, file_o} /\ dir_o # file_o
        BY <2>5, <3>2, <3>3, <3>4, NamePairs
      <4>2. A = {1, 2}
        <5>1. Named(option[1], w.no) /\ Named(option[2], w.no) /\ ~Named(option[3], w.no)
          BY <3>1, <3>2, <3>4 DEF Named
        <5>2. \A y \in DOMAIN option : y = 1 \/ y = 2 \/ y = 3
          BY <3>1
        <5> QED
          BY <2>1, <3>1, <5>1, <5>2
      <4> QED
        BY <2>6, <2>7, <4>1, <4>2
    <3>5. CASE w.no = FALSE
      <4>1. Fitting(cmd, w) = {from_o}
        BY <2>5, <3>2, <3>3, <3>5
      <4>2. A = {3}
        <5>1. ~Named(option[1], w.no) /\ ~Named(option[2], w.no) /\ Named(option[3], w.no)
          BY <3>1, <3>2, <3>5 DEF Named
        <5>2. \A y \in DOMAIN option : y = 1 \/ y = 2 \/ y = 3
          BY <3>1
        <5> QED
          BY <2>1, <3>1, <5>1, <5>2
      <4>3. {option[y] : y \in A} = {from_o}
        BY <3>1, <4>2
      <4>4. Meant(w) = {from_o}
        BY <2>6, <4>2, <4>3, FS_Singleton
      <4> QED
        BY <3>2, <3>3, <3>5, <4>1, <4>4, OptionsFact
    <3> QED
      BY <3>4, <3>5
  <2> QED
    BY <2>8, <2>9, <2>10 DEF OptionsOf
<1> QED
  BY <1>10, <1>11

\* Words are well formed.
LEMMA WordsFact == \A w \in Words : IsWord(w) /\ IsText(w.text) /\ w.k \in {"text", "short", "long"}
<1>1. \A w \in Typed : IsWord(w)
  BY ArguParAssumption DEF Typed
<1>2. IsWord(Short(<<"h">>))
  <2>1. IsText(<<"h">>)
    <3>1. Range(<<"h">>) = {"h"} /\ <<"h">> \in Seq({"h"})
      BY Table1Fact, Zenon
    <3> QED
      BY <3>1 DEF IsText
  <2> QED
    BY <2>1 DEF IsWord, Short
<1>3. \A w \in Words : IsWord(w)
  BY <1>1, <1>2 DEF Words
<1> QED
  BY <1>3 DEF IsWord

\* Which words are values: each that an option before it wants and that is none of its own.
LEMMA ValueFact ==
  ASSUME NEW c, NEW S, NEW line \in Seq(S)
  PROVE  /\ ~IsValue(c, line)[1] \/ Len(line) = 0
         /\ \A j \in 1..Len(line) - 1 :
              IsValue(c, line)[j + 1] <=> WantsNext(c, line[j]) /\ ~IsValue(c, line)[j]
<1> DEFINE n == Len(line)
           wants(k) == IF WantsNext(c, line[k - 1]) THEN TRUE ELSE FALSE
           step == [x \in (1..n) \X BOOLEAN |-> x[1] > 1 /\ WantsNext(c, line[x[1] - 1]) /\ ~x[2]]
<1>0. n \in Nat /\ n = Len(line)
  OBVIOUS
<1> HIDE DEF n
<1>1. step \in [(1..n) \X BOOLEAN -> BOOLEAN]
  OBVIOUS
<1>2. \A k \in 1..n, b \in BOOLEAN : step[<<k, b>>] = (k > 1 /\ WantsNext(c, line[k - 1]) /\ ~b)
  OBVIOUS
<1> HIDE DEF step
<1>3. PICK u \in [0..n -> BOOLEAN] : Steps(u, FALSE, n, step)
  BY <1>0, <1>1, RecursionExists
<1> DEFINE F(g) == g = [k \in 0..n |-> k > 1 /\ WantsNext(c, line[k - 1]) /\ ~g[k - 1]]
           v == CHOOSE g : F(g)
<1>4. F(u)
  <2>1. u = [k \in 0..n |-> u[k]]
    OBVIOUS
  <2>2. ASSUME NEW k \in 0..n
        PROVE  u[k] = (k > 1 /\ WantsNext(c, line[k - 1]) /\ ~u[k - 1])
    <3>1. CASE k = 0
      <4>1. u[k] = FALSE
        BY <1>3, <3>1 DEF Steps
      <4>2. ~(k > 1)
        BY <3>1
      <4> QED
        BY <4>1, <4>2
    <3>2. CASE k # 0
      <4>1. k \in 1..n /\ k - 1 \in 0..n
        BY <1>0, <3>2
      <4>2. u[k - 1] \in BOOLEAN
        BY <4>1
      <4>3. u[k] = step[<<k, u[k - 1]>>]
        BY <1>3, <4>1 DEF Steps
      <4> QED
        BY <1>2, <4>1, <4>2, <4>3
    <3> QED
      BY <3>1, <3>2
  <2> QED
    BY <2>1, <2>2
<1>5. F(v)
  BY <1>4, Zenon
<1>6. IsValue(c, line) = v
  BY Zenon DEF IsValue, n
<1>7. \A k \in 0..n : v[k] = (k > 1 /\ WantsNext(c, line[k - 1]) /\ ~v[k - 1])
  BY <1>5
<1> HIDE DEF F, v
<1>8. ~v[1] \/ n = 0
  <2> SUFFICES ASSUME n # 0 PROVE ~v[1]
    OBVIOUS
  <2>1. 1 \in 0..n /\ ~(1 > 1)
    BY <1>0
  <2> QED
    BY <1>7, <2>1
<1>9. ASSUME NEW j \in 1..n - 1 PROVE v[j + 1] <=> WantsNext(c, line[j]) /\ ~v[j]
  <2>1. j + 1 \in 0..n /\ j + 1 > 1 /\ (j + 1) - 1 = j
    BY <1>0
  <2> QED
    BY <1>7, <2>1
<1> QED
  BY <1>6, <1>8, <1>9 DEF n

\* How many letters of a word are options without a value.
LEMMA FlagsFact ==
  ASSUME NEW c, NEW t, IsText(t)
  PROVE  /\ Flags(c, t) \in 0..Len(t) /\ Len(t) \in Nat
         /\ \A j \in 1..Flags(c, t) : Flag(c, t[j])
         /\ Flags(c, t) < Len(t) => ~Flag(c, t[Flags(c, t) + 1])
<1>1. Len(t) \in Nat
  <2>1. t \in Seq(Range(t))
    BY DEF IsText
  <2> HIDE DEF IsText
  <2> QED
    BY <2>1, LenProperties
<1> DEFINE Ends == {k \in 0..Len(t) : k = Len(t) \/ ~Flag(c, t[k + 1])}
<1>2. Len(t) \in Ends /\ Ends \subseteq Nat
  BY <1>1
<1>3. PICK k \in Ends : \A y \in Ends : k <= y
  BY <1>2, LeastOfAll
<1>4. ASSUME NEW j \in 1..k PROVE Flag(c, t[j])
  <2>1. j - 1 \in 0..Len(t) /\ j - 1 < k /\ j - 1 # Len(t) /\ (j - 1) + 1 = j
    BY <1>1
  <2>2. j - 1 \notin Ends
    <3> HIDE DEF Ends
    <3>1. \A y \in Ends : k <= y
      BY <1>3
    <3>2. k \in Nat
      BY <1>2, <1>3
    <3> QED
      BY <2>1, <3>1, <3>2
  <2> QED
    BY <2>1, <2>2
<1>5. k \in 0..Len(t) /\ (\A j \in 1..k : Flag(c, t[j])) /\ (k < Len(t) => ~Flag(c, t[k + 1]))
  BY <1>1, <1>4
<1>6. \E y \in 0..Len(t) : (\A j \in 1..y : Flag(c, t[j])) /\ (y < Len(t) => ~Flag(c, t[y + 1]))
  BY <1>5
<1> QED
  BY <1>1, <1>6, Zenon DEF Flags

\* What is put together from the first words, and from one more.
Upto(f, n) == [j \in 1..n |-> f[j]]

LEMMA FlattenUpto ==
  ASSUME NEW D, NEW N \in Nat, NEW f \in [1..N -> Seq(D)], NEW n \in 0..N
  PROVE  /\ FlattenSeq(Upto(f, n)) \in Seq(D)
         /\ n = 0 => FlattenSeq(Upto(f, n)) = <<>>
         /\ n < N => FlattenSeq(Upto(f, n + 1)) = FlattenSeq(Upto(f, n)) \o f[n + 1]
<1> DEFINE s == [j \in 1..n |-> f[j]]
           m == [j \in 1..n + 1 |-> f[j]]
<1>1. s \in Seq(Seq(D)) /\ Len(s) = n
  OBVIOUS
<1>2. PICK g \in [0..Len(s) -> Seq(D)] : Joins(g, s) /\ FlattenSeq(s) = g[Len(s)]
  BY <1>1, FlattenFact
<1>3. FlattenSeq(s) \in Seq(D) /\ (n = 0 => FlattenSeq(s) = <<>>)
  BY <1>1, <1>2 DEF Joins
<1>4. ASSUME n < N PROVE FlattenSeq(m) = FlattenSeq(s) \o f[n + 1]
  <2>1. f[n + 1] \in Seq(D)
    BY <1>4
  <2>2. m = Append(s, f[n + 1])
    BY <1>1, <1>4
  <2> QED
    BY <1>1, <2>1, <2>2, FlattenAppend
<1>5. s = Upto(f, n) /\ m = Upto(f, n + 1)
  BY DEF Upto
<1> HIDE DEF s, m
<1> QED
  BY <1>3, <1>4, <1>5

\* The uses of a word: those of its letters without values, and the one with a value.
Letters(c, t, k) == [j \in 1..k |-> Use(Letter(c, t[j]), {}, FALSE)]
Following(line, j) == IF j < Len(line) THEN {line[j + 1]} ELSE {}
LastLetter(c, line, j) ==
  LET t == line[j].text
      k == Flags(c, t)
  IN  Use(Letter(c, t[k + 1]), IF k + 1 = Len(t) THEN Following(line, j) ELSE {Text(SubSeq(t, k + 2, Len(t)))}, FALSE)
LongUse(c, line, j) ==
  LET w == line[j] IN
  Use(Fitting(c, w), IF w.val # {} THEN {Text(v) : v \in w.val} ELSE IF WantsNext(c, w) THEN Following(line, j) ELSE {}, w.no)
UsesOf(c, line) == UNION {Range(WordUses(c, line, j)) : j \in 1..Len(line)}

\* A sequence is one of its own elements.
LEMMA OwnRange == ASSUME NEW S, NEW s \in Seq(S) PROVE s \in Seq(Range(s))
BY DEF Range

LEMMA LettersFact ==
  ASSUME NEW c, NEW t, NEW k \in Nat
  PROVE  /\ Letters(c, t, k) \in Seq(Range(Letters(c, t, k))) /\ Len(Letters(c, t, k)) = k
         /\ Letters(c, t, k + 1) = Append(Letters(c, t, k), Use(Letter(c, t[k + 1]), {}, FALSE))
         /\ k = 0 => Letters(c, t, k) = <<>>
<1> DEFINE u(j) == Use(Letter(c, t[j]), {}, FALSE)
           s == [j \in 1..k |-> u(j)]
           S == {u(j) : j \in 1..k + 1}
<1>1. Letters(c, t, k) = s
  BY DEF Letters
<1>2. \A j \in 1..k + 1 : u(j) \in S
  OBVIOUS
<1>3. Letters(c, t, k + 1) = [j \in 1..k + 1 |-> u(j)]
  BY DEF Letters
<1> HIDE DEF u, S
<1>4. s \in Seq(S) /\ Len(s) = k
  BY <1>2
<1>5. [j \in 1..k + 1 |-> u(j)] = Append(s, u(k + 1))
  BY <1>2
<1>6. k = 0 => s = <<>>
  OBVIOUS
<1> HIDE DEF s
<1> QED
  BY <1>1, <1>3, <1>4, <1>5, <1>6, OwnRange DEF u

LEMMA WordUsesFact ==
  ASSUME NEW c, NEW line \in Seq(Words), NEW j \in 1..Len(line)
  PROVE  LET w == line[j]
             k == Flags(c, w.text)
         IN
         /\ w.k = "text" \/ IsValue(c, line)[j] => WordUses(c, line, j) = <<>>
         /\ w.k = "short" /\ ~IsValue(c, line)[j] =>
              WordUses(c, line, j) =
                IF k = Len(w.text) THEN Letters(c, w.text, k) ELSE Append(Letters(c, w.text, k), LastLetter(c, line, j))
         /\ w.k = "long" /\ ~IsValue(c, line)[j] => WordUses(c, line, j) = <<LongUse(c, line, j)>>
         /\ WordUses(c, line, j) \in Seq(UsesOf(c, line))
<1> DEFINE w == line[j]
           k == Flags(c, w.text)
           value == IsValue(c, line)[j]
           rest == IF k = Len(w.text) THEN <<>> ELSE <<LastLetter(c, line, j)>>
           l == Letters(c, w.text, k)
<1>1. w \in Words
  OBVIOUS
<1>2. k \in 0..Len(w.text) /\ k \in Nat
  BY <1>1, WordsFact, FlagsFact
<1>3. WordUses(c, line, j) =
        IF w.k = "text" \/ value THEN <<>> ELSE IF w.k = "short" THEN l \o rest ELSE <<LongUse(c, line, j)>>
  BY Zenon DEF WordUses, Letters, LastLetter, LongUse, Following
<1>4. l \in Seq(Range(l))
  BY <1>2, LettersFact
<1> HIDE DEF w, k, value, l
<1>5. l \o rest = IF k = Len(w.text) THEN l ELSE Append(l, LastLetter(c, line, j))
  <2>1. l \o <<>> = l /\ \A e : l \o <<e>> = Append(l, e)
    BY <1>4
  <2> QED
    BY <2>1
<1>6. l \o rest \in Seq(Range(l) \cup {LastLetter(c, line, j)})
  <2> DEFINE e == LastLetter(c, line, j)
  <2> HIDE DEF e
  <2>1. l \in Seq(Range(l) \cup {e}) /\ <<>> \in Seq(Range(l) \cup {e}) /\ <<e>> \in Seq(Range(l) \cup {e})
    BY <1>4
  <2>2. rest \in Seq(Range(l) \cup {e})
    BY <2>1 DEF e
  <2> HIDE DEF rest
  <2> QED
    BY <2>1, <2>2, ConcatProperties DEF e
<1> HIDE DEF rest
<1>7. w.k = "text" \/ value => WordUses(c, line, j) = <<>>
  BY <1>3
<1>8. w.k = "short" /\ ~value => WordUses(c, line, j) = l \o rest
  <2>1. w.k = "short" => w.k # "text"
    OBVIOUS
  <2> QED
    BY <1>3, <2>1, Zenon
<1>9. w.k = "long" /\ ~value => WordUses(c, line, j) = <<LongUse(c, line, j)>>
  <2>1. w.k = "long" => w.k # "text" /\ w.k # "short"
    OBVIOUS
  <2> QED
    BY <1>3, <2>1, Zenon
<1>10. \E S : WordUses(c, line, j) \in Seq(S)
  <2>1. <<>> \in Seq({}) /\ <<LongUse(c, line, j)>> \in Seq({LongUse(c, line, j)})
    <3> DEFINE e == LongUse(c, line, j)
    <3> HIDE DEF e
    <3>1. <<>> \in Seq({}) /\ <<e>> \in Seq({e})
      OBVIOUS
    <3> QED
      BY <3>1 DEF e
  <2>2. w.k \in {"text", "short", "long"}
    BY <1>1, WordsFact DEF w
  <2> QED
    BY <1>6, <1>7, <1>8, <1>9, <2>1, <2>2, Zenon
<1>11. WordUses(c, line, j) \in Seq(UsesOf(c, line))
  <2> DEFINE s == WordUses(c, line, j)
  <2>1. s \in Seq(Range(s))
    BY <1>10, OwnRange
  <2>2. Range(s) \subseteq UsesOf(c, line)
    BY DEF UsesOf
  <2> HIDE DEF s
  <2> QED
    BY <2>1, <2>2 DEF s
<1> QED
  BY <1>5, <1>7, <1>8, <1>9, <1>11 DEF w, k, value, l

\* The uses of the first words.
LEMMA UsesFact ==
  ASSUME NEW c, NEW line \in Seq(Words), NEW n \in 0..Len(line)
  PROVE  /\ Uses(c, line, n) \in Seq(UsesOf(c, line))
         /\ n = 0 => Uses(c, line, n) = <<>>
         /\ n < Len(line) => Uses(c, line, n + 1) = Uses(c, line, n) \o WordUses(c, line, n + 1)
<1> DEFINE f == [j \in 1..Len(line) |-> WordUses(c, line, j)]
           D == UsesOf(c, line)
<1>1. f \in [1..Len(line) -> Seq(D)]
  BY WordUsesFact
<1>2. \A m \in 0..Len(line) : Uses(c, line, m) = FlattenSeq(Upto(f, m))
  <2> TAKE m \in 0..Len(line)
  <2>1. Upto(f, m) = [j \in 1..m |-> WordUses(c, line, j)]
    BY DEF Upto
  <2> QED
    BY <2>1, Zenon DEF Uses
<1>3. n < Len(line) => f[n + 1] = WordUses(c, line, n + 1) /\ n + 1 \in 0..Len(line)
  OBVIOUS
<1>4. Len(line) \in Nat
  OBVIOUS
<1> HIDE DEF f, D
<1>5. /\ FlattenSeq(Upto(f, n)) \in Seq(D)
      /\ n = 0 => FlattenSeq(Upto(f, n)) = <<>>
      /\ n < Len(line) => FlattenSeq(Upto(f, n + 1)) = FlattenSeq(Upto(f, n)) \o f[n + 1]
  BY <1>1, <1>4, FlattenUpto
<1>6. Uses(c, line, n) = FlattenSeq(Upto(f, n))
  BY <1>2
<1>7. n < Len(line) => Uses(c, line, n + 1) = FlattenSeq(Upto(f, n + 1))
  BY <1>2, <1>3
<1> QED
  BY <1>3, <1>5, <1>6, <1>7, Zenon DEF D

\* The operands among the first words.
LEMMA OperandsFact ==
  ASSUME NEW c, NEW line \in Seq(Words), NEW n \in 0..Len(line)
  PROVE  /\ Operands(c, line, n) \in Seq(Words)
         /\ n = 0 => Operands(c, line, n) = <<>>
         /\ n < Len(line) =>
              Operands(c, line, n + 1) =
                IF line[n + 1].k = "text" /\ ~IsValue(c, line)[n + 1]
                THEN Append(Operands(c, line, n), line[n + 1]) ELSE Operands(c, line, n)
<1> DEFINE e(j) == IF line[j].k = "text" /\ ~IsValue(c, line)[j] THEN <<line[j]>> ELSE <<>>
           f == [j \in 1..Len(line) |-> e(j)]
<1>1. \A j \in 1..Len(line) : e(j) \in Seq(Words)
  OBVIOUS
<1>2. \A m \in 0..Len(line) : Operands(c, line, m) = FlattenSeq(Upto(f, m))
  <2> TAKE m \in 0..Len(line)
  <2>1. Upto(f, m) = [j \in 1..m |-> e(j)]
    <3> HIDE DEF e
    <3> QED
      BY DEF Upto
  <2> QED
    BY <2>1, Zenon DEF Operands
<1>3. n < Len(line) => f[n + 1] = e(n + 1) /\ n + 1 \in 0..Len(line)
  <2> HIDE DEF e
  <2> QED
    OBVIOUS
<1>4. Len(line) \in Nat
  OBVIOUS
<1>5. f \in [1..Len(line) -> Seq(Words)]
  <2> HIDE DEF e
  <2> QED
    BY <1>1
<1> DEFINE a == Operands(c, line, n)
<1> HIDE DEF f
<1>6. /\ FlattenSeq(Upto(f, n)) \in Seq(Words)
      /\ n = 0 => FlattenSeq(Upto(f, n)) = <<>>
      /\ n < Len(line) => FlattenSeq(Upto(f, n + 1)) = FlattenSeq(Upto(f, n)) \o f[n + 1]
  BY <1>4, <1>5, FlattenUpto
<1>7. a = FlattenSeq(Upto(f, n))
  BY <1>2
<1>8. n < Len(line) => Operands(c, line, n + 1) = FlattenSeq(Upto(f, n + 1))
  BY <1>2, <1>3
<1>9. a \in Seq(Words) /\ (n = 0 => a = <<>>) /\ (n < Len(line) => Operands(c, line, n + 1) = a \o e(n + 1))
  <2> HIDE DEF e, a
  <2> QED
    BY <1>3, <1>6, <1>7, <1>8, Zenon
<1> HIDE DEF a
<1>10. a \o <<>> = a /\ \A x : a \o <<x>> = Append(a, x)
  BY <1>9
<1> QED
  BY <1>9, <1>10 DEF a

\* What one more use sets.
Naming(q, o) == {j \in DOMAIN q : q[j].opts = {o}}

LEMMA SettingForm ==
  ASSUME NEW q, NEW o
  PROVE  /\ o.type = "countup" => MeantSetting(q, o) = Cardinality(Naming(q, o))
         /\ o.type = "switch" =>
              MeantSetting(q, o) = IF Naming(q, o) = {} \/ ~q[Max(Naming(q, o))].unset THEN 1 ELSE 0
         /\ o.type \notin {"countup", "switch"} =>
              MeantSetting(q, o) = IF Naming(q, o) = {} THEN {} ELSE q[Max(Naming(q, o))].v
<1>1. MeantSetting(q, o) =
        CASE o.type = "countup" -> Cardinality(Naming(q, o))
          [] o.type = "switch" -> IF Naming(q, o) = {} \/ ~q[Max(Naming(q, o))].unset THEN 1 ELSE 0
          [] OTHER -> IF Naming(q, o) = {} THEN {} ELSE q[Max(Naming(q, o))].v
  BY Zenon DEF MeantSetting, Naming
<1>2. o.type = "switch" => o.type # "countup"
  OBVIOUS
<1> QED
  BY <1>1, <1>2, Zenon

LEMMA SettingMore ==
  ASSUME NEW D, NEW q \in Seq(D), NEW u, NEW o
  PROVE  LET r == Append(q, u) IN
         /\ u.opts # {o} => MeantSetting(r, o) = MeantSetting(q, o)
         /\ u.opts = {o} =>
              /\ o.type = "countup" => MeantSetting(r, o) = MeantSetting(q, o) + 1
              /\ o.type = "switch" => MeantSetting(r, o) = IF ~u.unset THEN 1 ELSE 0
              /\ o.type \notin {"countup", "switch"} => MeantSetting(r, o) = u.v
<1> DEFINE r == Append(q, u)
           n == Len(q)
           a == Naming(q, o)
           b == Naming(r, o)
<1>1. n \in Nat /\ DOMAIN q = 1..n /\ DOMAIN r = 1..n + 1 /\ r[n + 1] = u /\ \A j \in 1..n : r[j] = q[j]
  <2>1. q \in Seq(D \cup {u}) /\ u \in D \cup {u}
    OBVIOUS
  <2> QED
    BY <2>1, AppendProperties
<1> HIDE DEF r, n
<1>2. a \subseteq 1..n /\ IsFiniteSet(a) /\ n + 1 \notin a
  <2>1. a \subseteq 1..n
    BY <1>1 DEF Naming
  <2>2. IsFiniteSet(1..n)
    BY <1>1, FS_Interval
  <2>3. IsFiniteSet(a)
    BY <2>1, <2>2, FS_Subset
  <2> HIDE DEF a
  <2> QED
    BY <1>1, <2>1, <2>3
<1>3. CASE u.opts # {o}
  <2>1. a = b
    BY <1>1, <1>3 DEF Naming
  <2>2. a # {} => r[Max(a)] = q[Max(a)]
    <3> SUFFICES ASSUME a # {} PROVE r[Max(a)] = q[Max(a)]
      OBVIOUS
    <3> HIDE DEF a
    <3>1. Max(a) \in a
      BY <1>1, <1>2, MaxFact
    <3> QED
      BY <1>1, <1>2, <3>1
  <2>3. MeantSetting(r, o) = MeantSetting(q, o)
    <3> HIDE DEF a, b
    <3>1. CASE o.type = "countup"
      BY <2>1, <3>1, SettingForm, Zenon DEF a, b
    <3>2. CASE o.type = "switch"
      BY <2>1, <2>2, <3>2, SettingForm, Zenon DEF a, b
    <3>3. CASE o.type \notin {"countup", "switch"}
      BY <2>1, <2>2, <3>3, SettingForm, Zenon DEF a, b
    <3> QED
      BY <3>1, <3>2, <3>3
  <2> QED
    BY <1>3, <2>3 DEF r
<1>4. CASE u.opts = {o}
  <2>1. b = a \cup {n + 1}
    BY <1>1, <1>4 DEF Naming
  <2>2. b # {} /\ b \subseteq 1..n + 1
    <3> HIDE DEF a, b
    <3> QED
      BY <1>1, <1>2, <2>1
  <2>3. Max(b) = n + 1
    <3> HIDE DEF a, b
    <3>1. Max(b) \in b /\ \A y \in b : y <= Max(b)
      <4>1. n + 1 \in Nat
        BY <1>1
      <4> QED
        BY <2>2, <4>1, MaxFact
    <3>2. n + 1 \in b /\ \A y \in b : y \in Int /\ y <= n + 1
      BY <1>1, <2>1, <2>2
    <3>3. Max(b) >= n + 1 /\ Max(b) <= n + 1 /\ Max(b) \in Int
      BY <3>1, <3>2
    <3> QED
      BY <1>1, <3>3
  <2>4. Cardinality(b) = Cardinality(a) + 1
    <3> HIDE DEF a, b
    <3> QED
      BY <1>2, <2>1, FS_AddElement
  <2>5. r[Max(b)] = u
    BY <1>1, <2>3
  <2> HIDE DEF a, b
  <2>6. o.type = "countup" => MeantSetting(r, o) = MeantSetting(q, o) + 1
    BY <2>4, SettingForm, Zenon DEF a, b
  <2>7. o.type = "switch" => MeantSetting(r, o) = IF ~u.unset THEN 1 ELSE 0
    BY <2>2, <2>5, SettingForm, Zenon DEF b
  <2>8. o.type \notin {"countup", "switch"} => MeantSetting(r, o) = u.v
    BY <2>2, <2>5, SettingForm, Zenon DEF b
  <2> QED
    BY <1>4, <2>6, <2>7, <2>8 DEF r
<1> QED
  BY <1>3, <1>4 DEF r

\* Before any.
Unset(o) == IF o.type = "countup" THEN 0 ELSE IF o.type = "switch" THEN 1 ELSE {}

LEMMA SettingFirst == ASSUME NEW o PROVE MeantSetting(<<>>, o) = Unset(o)
<1>1. Naming(<<>>, o) = {}
  BY DEF Naming
<1>2. Cardinality({}) = 0
  BY FS_EmptySet
<1>3. CASE o.type = "countup"
  BY <1>1, <1>2, <1>3, SettingForm DEF Unset
<1>4. CASE o.type = "switch"
  BY <1>1, <1>4, SettingForm DEF Unset
<1>5. CASE o.type \notin {"countup", "switch"}
  BY <1>1, <1>5, SettingForm DEF Unset
<1> QED
  BY <1>3, <1>4, <1>5

\* Where the options end.
LEMMA StopFact ==
  ASSUME NEW c, NEW line \in Seq(Words), NEW m \in 1..Len(line) + 1, \A j \in 1..m - 1 : ~Stops(c, line, j)
  PROVE  /\ m = Len(line) + 1 \/ Stops(c, line, m) => Stop(c, line) = m
         /\ m <= Len(line) /\ ~Stops(c, line, m) => Stop(c, line) > m /\ Stop(c, line) \in 1..Len(line) + 1
<1> DEFINE n == Len(line)
           Ends == {j \in 1..n : Stops(c, line, j)} \cup {n + 1}
<1>1. n \in Nat /\ m \in 1..n + 1
  OBVIOUS
<1>2. Stop(c, line) = Min(Ends)
  BY Zenon DEF Stop
<1>3. Ends \subseteq 1..n + 1 /\ Ends # {} /\ \A j \in Ends : j >= m
  OBVIOUS
<1>4. m = n + 1 \/ Stops(c, line, m) => m \in Ends
  OBVIOUS
<1>5. m <= n /\ ~Stops(c, line, m) => m \notin Ends
  OBVIOUS
<1> HIDE DEF Ends, n
<1>6. \E x \in Ends : \A y \in Ends : x <= y
  <2>1. Ends \subseteq Nat
    BY <1>1, <1>3
  <2> QED
    BY <1>3, <2>1, LeastOfAll
<1>7. Min(Ends) \in Ends /\ \A y \in Ends : Min(Ends) <= y
  BY <1>6, Zenon DEF Min
<1> DEFINE x == Min(Ends)
<1>8. x \in Ends /\ \A y \in Ends : x <= y
  BY <1>7
<1> HIDE DEF x
<1>9. x \in 1..n + 1 /\ x >= m /\ m \in Int
  BY <1>1, <1>3, <1>8
<1>10. m \in Ends => x = m
  <2> SUFFICES ASSUME m \in Ends PROVE x = m
    OBVIOUS
  <2>1. x <= m
    BY <1>8
  <2> QED
    BY <1>1, <1>9, <2>1
<1>11. m \notin Ends => x > m
  <2>1. m \notin Ends => x # m
    BY <1>8
  <2> QED
    BY <1>1, <1>9, <2>1
<1> QED
  BY <1>2, <1>4, <1>5, <1>9, <1>10, <1>11 DEF n, x

\* The uses of each word are among those of the words.
LEMMA UsesIn ==
  ASSUME NEW c, NEW line \in Seq(Words), NEW n \in 0..Len(line), NEW j \in 1..n
  PROVE  Range(WordUses(c, line, j)) \subseteq Range(Uses(c, line, n))
<1> DEFINE D == UsesOf(c, line)
           T == {m \in Nat : m >= j /\ m <= Len(line) => Range(WordUses(c, line, j)) \subseteq Range(Uses(c, line, m))}
<1>0. Len(line) \in Nat /\ j \in 1..Len(line) /\ n \in Nat /\ j \in Nat
  OBVIOUS
<1>1. 0 \in T
  BY <1>0
<1>2. ASSUME NEW m \in Nat, m \in T PROVE m + 1 \in T
  <2> SUFFICES ASSUME m + 1 >= j, m + 1 <= Len(line)
               PROVE  Range(WordUses(c, line, j)) \subseteq Range(Uses(c, line, m + 1))
    OBVIOUS
  <2> DEFINE p == Uses(c, line, m)
             w == WordUses(c, line, m + 1)
  <2>1. m \in 0..Len(line) /\ m < Len(line) /\ m + 1 \in 1..Len(line)
    BY <1>0
  <2>2. p \in Seq(D) /\ w \in Seq(D) /\ Uses(c, line, m + 1) = p \o w
    BY <2>1, UsesFact, WordUsesFact
  <2>3. m >= j => Range(WordUses(c, line, j)) \subseteq Range(p)
    BY <1>2, <2>1
  <2> HIDE DEF p, w, D
  <2>4. Range(p) \subseteq Range(p \o w) /\ Range(w) \subseteq Range(p \o w)
    <3>1. /\ p \o w \in Seq(D) /\ Len(p \o w) = Len(p) + Len(w) /\ Len(p) \in Nat /\ Len(w) \in Nat
          /\ \A x \in 1..Len(p) : (p \o w)[x] = p[x]
          /\ \A x \in 1..Len(w) : (p \o w)[Len(p) + x] = w[x]
      BY <2>2, ConcatProperties
    <3>2. ASSUME NEW x \in 1..Len(p) PROVE p[x] \in Range(p \o w)
      <4>1. x \in 1..Len(p \o w)
        BY <3>1
      <4> QED
        BY <3>1, <4>1 DEF Range
    <3>3. ASSUME NEW x \in 1..Len(w) PROVE w[x] \in Range(p \o w)
      <4> DEFINE y == Len(p) + x
      <4>1. y \in 1..Len(p \o w)
        BY <3>1
      <4>2. (p \o w)[y] = w[x]
        BY <3>1
      <4> HIDE DEF y
      <4>3. y \in DOMAIN (p \o w)
        BY <3>1, <4>1
      <4> QED
        BY <4>2, <4>3 DEF Range
    <3>4. \A e \in Range(p) : \E x \in 1..Len(p) : e = p[x]
      BY <2>2 DEF Range
    <3>5. \A e \in Range(w) : \E x \in 1..Len(w) : e = w[x]
      BY <2>2 DEF Range
    <3> QED
      BY <3>2, <3>3, <3>4, <3>5
  <2>5. CASE m >= j
    BY <2>2, <2>3, <2>4, <2>5
  <2>6. CASE ~(m >= j)
    <3>1. j = m + 1
      BY <1>0, <2>6
    <3> QED
      BY <2>2, <2>4, <3>1 DEF w
  <2> QED
    BY <2>5, <2>6
<1> HIDE DEF T
<1>3. n \in T
  BY <1>0, <1>1, <1>2, NatSetInduction
<1> QED
  BY <1>0, <1>3 DEF T

\* What is known of the options while a command reads its words: those of the commands that have
\* not run are as they were.
Settings ==
  /\ DOMAIN set = Names7
  /\ \A c \in {"copy", "sizeof"} : c # cmd => \A o \in OptionsOf(c) : set[o.name] = Unset(o)
  /\ subcmd # "main"

LEMMA SetOther ==
  ASSUME Settings, NEW o \in OptionsOf(cmd), NEW v, set' = [set EXCEPT ![o.name] = v], UNCHANGED cmd,
         subcmd' # "main"
  PROVE  Settings'
<1>1. DOMAIN set' = Names7
  BY DEF Settings
<1>2. ASSUME NEW c \in {"copy", "sizeof"}, c # cmd, NEW p \in OptionsOf(c) PROVE set'[p.name] = Unset(p)
  <2>1. OptionsOf(c) \subseteq Options7 /\ OptionsOf(cmd) \subseteq Options7
    BY NamesFact
  <2>2. o # p
    BY <1>2, NamePairs DEF OptionsOf
  <2>3. o.name # p.name /\ p.name \in Names7
    BY <2>1, <2>2, NamesFact
  <2>4. set[p.name] = Unset(p)
    BY <1>2 DEF Settings
  <2> QED
    BY <2>3, <2>4 DEF Settings
<1> QED
  BY <1>1, <1>2 DEF Settings

LEMMA InitSettings == Init => Settings
<1> SUFFICES ASSUME Init PROVE Settings
  OBVIOUS
<1>1. subcmd = "" /\ subcmd # "main"
  BY DEF Init
<1>2. set = [n \in Names7 |->
               IF n \in {<<"f", "o">>, <<"f", "r">>} THEN 0 ELSE IF n \in {<<"d", "i">>, <<"f", "i">>} THEN 1 ELSE {}]
  BY DEF Init, Names7
<1>3. /\ thrd_o.name = <<"t", "h">> /\ force_o.name = <<"f", "o">> /\ from_o.name = <<"f", "r">>
      /\ dir_o.name = <<"d", "i">> /\ file_o.name = <<"f", "i">>
  BY FieldsFact, Zenon
<1>4. /\ thrd_o.name \notin {<<"f", "o">>, <<"f", "r">>, <<"d", "i">>, <<"f", "i">>}
      /\ dir_o.name \notin {<<"f", "o">>, <<"f", "r">>}
      /\ file_o.name \notin {<<"f", "o">>, <<"f", "r">>}
  <2>1. <<"f", "o">> = force_o.name /\ <<"f", "r">> = from_o.name /\ <<"d", "i">> = dir_o.name /\ <<"f", "i">> = file_o.name
    BY <1>3
  <2>2. thrd_o.name \notin {force_o.name, from_o.name, dir_o.name, file_o.name}
    BY NamePairs
  <2>3. dir_o.name \notin {force_o.name, from_o.name} /\ file_o.name \notin {force_o.name, from_o.name}
    BY NamePairs
  <2> QED
    BY <2>1, <2>2, <2>3, Zenon
<1>5. /\ thrd_o.name \in Names7 /\ force_o.name \in Names7 /\ from_o.name \in Names7
      /\ dir_o.name \in Names7 /\ file_o.name \in Names7
  BY NamesFact DEF Options7
<1>6. DOMAIN set = Names7
  BY <1>2
<1>7. /\ set[thrd_o.name] = {} /\ set[force_o.name] = 0 /\ set[from_o.name] = 0
      /\ set[dir_o.name] = 1 /\ set[file_o.name] = 1
  <2>1. force_o.name \in {<<"f", "o">>, <<"f", "r">>} /\ from_o.name \in {<<"f", "o">>, <<"f", "r">>}
    BY <1>3
  <2>2. dir_o.name \in {<<"d", "i">>, <<"f", "i">>} /\ file_o.name \in {<<"d", "i">>, <<"f", "i">>}
    BY <1>3
  <2>3. thrd_o.name \notin {<<"f", "o">>, <<"f", "r">>} /\ thrd_o.name \notin {<<"d", "i">>, <<"f", "i">>}
    BY <1>4
  <2> QED
    BY <1>2, <1>4, <1>5, <2>1, <2>2, <2>3, Zenon
<1>8. ASSUME NEW c \in {"copy", "sizeof"}, NEW o \in OptionsOf(c) PROVE set[o.name] = Unset(o)
  <2>1. o \in {thrd_o, force_o, from_o, dir_o, file_o}
    BY DEF OptionsOf
  <2>2. /\ thrd_o.type = "uint" /\ force_o.type = "countup" /\ from_o.type = "countup"
        /\ dir_o.type = "switch" /\ file_o.type = "switch"
    BY FieldsFact, Zenon
  <2> QED
    BY <1>7, <2>1, <2>2 DEF Unset
<1> QED
  BY <1>1, <1>6, <1>8 DEF Settings

\* What a dispatched option does.
LEMMA DispatchForm ==
  ASSUME NEW o, NEW v, v = {} \/ \E w : v = {w}, NEW unset \in BOOLEAN, NEW rest, NEW n, result = "parsing",
         dispatch_optarg(o, v, unset, rest, n)
  PROVE  \/ UNCHANGED set /\ result' \in {"wild", "bug"}
         \/ /\ UNCHANGED set /\ result' = "error"
            /\ o.type = "uint" /\ \E w \in v : ~Number(w)
         \/ /\ o.type \notin {"group", "subcmd"}
            /\ o.type = "uint" => \A w \in v : Number(w)
            /\ \E b :
                 /\ set' = [set EXCEPT ![o.name] = b]
                 /\ o.type = "switch" => b = IF ~unset THEN 1 ELSE 0
                 /\ o.type = "countup" /\ ~unset => b = set[o.name] + 1
                 /\ o.type \in {"uint", "string"} /\ ~unset => b = v
            /\ next' = rest /\ argc' = argc - n /\ at' = at + n
            /\ UNCHANGED <<mem, outc, result>>
<1> DEFINE became ==
             CASE o.type = "switch"  -> IF unset THEN 0 ELSE 1
               [] o.type = "countup" -> IF unset THEN 0 ELSE set[o.name] + 1
               [] o.type = "uint"    -> IF unset THEN {Text(<<"0">>)} ELSE v
               [] o.type = "string"  -> v
<1>1. (CASE o.type = "group" -> ExitWith("wild")
        [] o.type = "subcmd" -> ExitWith("bug")
        [] o.type = "uint" /\ v = {Text(<<>>)} -> ExitWith("bug")
        [] o.type = "uint" /\ \E w \in v : ~Number(w) /\ w # Text(<<>>) -> ExitWith("error")
        [] OTHER -> /\ set' = [set EXCEPT ![o.name] = became]
                    /\ next' = rest
                    /\ argc' = argc - n /\ at' = at + n
                    /\ UNCHANGED <<mem, outc, result>>)
  BY DEF dispatch_optarg
<1>2. /\ o.type = "switch" => became = IF ~unset THEN 1 ELSE 0
      /\ o.type = "countup" /\ ~unset => became = set[o.name] + 1
      /\ o.type \in {"uint", "string"} /\ ~unset => became = v
  OBVIOUS
<1> HIDE DEF became
<1>3. CASE o.type = "group"
  <2>1. ExitWith("wild")
    BY <1>1, <1>3, Zenon
  <2> QED
    BY <2>1 DEF ExitWith
<1>4. CASE o.type = "subcmd"
  <2>1. o.type # "group" /\ o.type # "uint"
    BY <1>4
  <2>2. ExitWith("bug")
    BY <1>1, <1>4, <2>1, Zenon
  <2> QED
    BY <2>2 DEF ExitWith
<1>5. CASE o.type = "uint" /\ v = {Text(<<>>)}
  <2>1. o.type # "group" /\ o.type # "subcmd" /\ ~\E w \in v : ~Number(w) /\ w # Text(<<>>)
    BY <1>5
  <2>2. ExitWith("bug")
    BY <1>1, <1>5, <2>1, Zenon
  <2> QED
    BY <2>2 DEF ExitWith
<1>6. CASE o.type = "uint" /\ \E w \in v : ~Number(w) /\ w # Text(<<>>)
  <2>1. o.type # "group" /\ o.type # "subcmd" /\ v # {Text(<<>>)}
    BY <1>6
  <2>2. ExitWith("error")
    BY <1>1, <1>6, <2>1, Zenon
  <2> QED
    BY <1>6, <2>2 DEF ExitWith
<1>7. CASE /\ o.type # "group" /\ o.type # "subcmd"
           /\ ~(o.type = "uint" /\ v = {Text(<<>>)})
           /\ ~(o.type = "uint" /\ \E w \in v : ~Number(w) /\ w # Text(<<>>))
  <2>1. /\ set' = [set EXCEPT ![o.name] = became]
        /\ next' = rest
        /\ argc' = argc - n /\ at' = at + n
        /\ UNCHANGED <<mem, outc, result>>
    BY <1>1, <1>7, Zenon
  <2>2. ASSUME o.type = "uint", NEW w \in v PROVE Number(w)
    BY <1>7, <2>2
  <2>3. \E b :
          /\ set' = [set EXCEPT ![o.name] = b]
          /\ o.type = "switch" => b = IF ~unset THEN 1 ELSE 0
          /\ o.type = "countup" /\ ~unset => b = set[o.name] + 1
          /\ o.type \in {"uint", "string"} /\ ~unset => b = v
    BY <1>2, <2>1
  <2> QED
    BY <1>7, <2>1, <2>2, <2>3
<1> QED
  BY <1>3, <1>4, <1>5, <1>6, <1>7

\* The words of the line are those the property speaks of; the options are set as some uses say.
Plain(line) == \A j \in DOMAIN line : line[j] # Short(<<>>)
Sets(c, q, s) == (\A u \in Range(q) : Fine(u)) /\ \A o \in Options(c) : s[o.name] = MeantSetting(q, o)

\* An option that is dispatched is one use more.
LEMMA DispatchMeans ==
  ASSUME Settings, result = "parsing", UNCHANGED <<cmd, given, subcmd>>,
         NEW o \in Options(cmd), NEW v, v = {} \/ \E w : v = {w}, NEW unset \in BOOLEAN, NEW rest, NEW n,
         dispatch_optarg(o, v, unset, rest, n),
         (v = {}) = (NoArg(o) \/ unset), unset => o.type = "switch",
         NEW D, NEW q \in Seq(D), Sets(cmd, q, set)
  PROVE  /\ Settings'
         /\ \/ result' \in {"wild", "bug"}
            \/ result' = "error" /\ ~Fine(Use({o}, v, unset))
            \/ /\ Sets(cmd, Append(q, Use({o}, v, unset)), set')
               /\ next' = rest /\ argc' = argc - n /\ at' = at + n
               /\ UNCHANGED <<mem, outc, result>>
<1> DEFINE u == Use({o}, v, unset)
           r == Append(q, u)
<1>1. /\ OptionsOf(cmd) \subseteq Options7 /\ o \in OptionsOf(cmd) /\ o \in Options7
      /\ o.type \in {"switch", "countup", "uint", "string"} /\ o.name \in Names7
      /\ Options(cmd) = OptionsOf(cmd)
  BY OptionsFact, NamesFact
<1>2. u.opts = {o} /\ u.v = v /\ u.unset = unset
  BY DEF Use
<1>3. Cardinality({o}) = 1
  BY FS_Singleton
<1>4. Fine(u) <=> (o.type = "uint" => \A w \in v : Number(w))
  <2>1. Fine(u) <=> /\ Cardinality({o}) = 1
                    /\ (v = {}) = (NoArg(o) \/ unset)
                    /\ o.type = "uint" => \A w \in v : Number(w)
    BY <1>2, Zenon DEF Fine
  <2> QED
    BY <1>3, <2>1
<1> HIDE DEF u
<1>5. \/ UNCHANGED set /\ result' \in {"wild", "bug"}
      \/ /\ UNCHANGED set /\ result' = "error"
         /\ o.type = "uint" /\ \E w \in v : ~Number(w)
      \/ /\ o.type \notin {"group", "subcmd"}
         /\ o.type = "uint" => \A w \in v : Number(w)
         /\ \E b :
              /\ set' = [set EXCEPT ![o.name] = b]
              /\ o.type = "switch" => b = IF ~unset THEN 1 ELSE 0
              /\ o.type = "countup" /\ ~unset => b = set[o.name] + 1
              /\ o.type \in {"uint", "string"} /\ ~unset => b = v
         /\ next' = rest /\ argc' = argc - n /\ at' = at + n
         /\ UNCHANGED <<mem, outc, result>>
  BY DispatchForm
<1>6. CASE UNCHANGED set /\ result' \in {"wild", "bug"}
  BY <1>6 DEF Settings
<1>7. CASE UNCHANGED set /\ result' = "error" /\ o.type = "uint" /\ \E w \in v : ~Number(w)
  <2>1. Settings'
    BY <1>7 DEF Settings
  <2> QED
    BY <1>4, <1>7, <2>1 DEF u
<1>8. ASSUME o.type = "uint" => \A w \in v : Number(w),
             next' = rest /\ argc' = argc - n /\ at' = at + n, UNCHANGED <<mem, outc, result>>,
             NEW b, set' = [set EXCEPT ![o.name] = b],
             o.type = "switch" => b = IF ~unset THEN 1 ELSE 0,
             o.type = "countup" /\ ~unset => b = set[o.name] + 1,
             o.type \in {"uint", "string"} /\ ~unset => b = v
      PROVE  Settings' /\ Sets(cmd, r, set')
  <2>1. subcmd' # "main"
    BY DEF Settings
  <2>2. Settings'
    BY <1>1, <1>8, <2>1, SetOther
  <2>3. Fine(u)
    BY <1>4, <1>8
  <2>4. \A x \in Range(r) : Fine(x)
    <3>1. Range(r) \subseteq Range(q) \cup {u}
      <4>1. q \in Seq(D \cup {u}) /\ u \in D \cup {u}
        OBVIOUS
      <4>2. DOMAIN r = 1..Len(q) + 1 /\ r[Len(q) + 1] = u /\ \A j \in 1..Len(q) : r[j] = q[j]
        BY <4>1, AppendProperties
      <4>3. \A j \in DOMAIN r : r[j] = u \/ \E k \in DOMAIN q : r[j] = q[k]
        BY <4>2
      <4> HIDE DEF r
      <4> QED
        BY <4>3 DEF Range
    <3> HIDE DEF r
    <3> QED
      BY <2>3, <3>1 DEF Sets
  <2>5. ASSUME NEW p \in Options(cmd) PROVE set'[p.name] = MeantSetting(r, p)
    <3>1. /\ u.opts # {p} => MeantSetting(r, p) = MeantSetting(q, p)
          /\ u.opts = {p} =>
               /\ p.type = "countup" => MeantSetting(r, p) = MeantSetting(q, p) + 1
               /\ p.type = "switch" => MeantSetting(r, p) = IF ~u.unset THEN 1 ELSE 0
               /\ p.type \notin {"countup", "switch"} => MeantSetting(r, p) = u.v
      BY SettingMore
    <3>2. p \in Options7 /\ p.name \in Names7 /\ p.name \in DOMAIN set /\ o.name \in DOMAIN set
      BY <1>1, NamesFact DEF Settings
    <3>3. set[p.name] = MeantSetting(q, p)
      BY DEF Sets
    <3> HIDE DEF r
    <3>4. CASE p = o
      <4>1. set'[p.name] = b
        BY <1>8, <3>2, <3>4
      <4>2. CASE o.type = "switch"
        BY <1>2, <1>8, <3>1, <3>4, <4>1, <4>2
      <4>3. CASE o.type = "countup"
        <5>1. ~unset
          BY <4>3
        <5> QED
          BY <1>2, <1>8, <3>1, <3>3, <3>4, <4>1, <4>3, <5>1
      <4>4. CASE o.type \in {"uint", "string"}
        <5>1. ~unset
          BY <4>4
        <5> QED
          BY <1>2, <1>8, <3>1, <3>4, <4>1, <4>4, <5>1
      <4> QED
        BY <1>1, <4>2, <4>3, <4>4
    <3>5. CASE p # o
      <4>1. p.name # o.name
        BY <1>1, <3>2, <3>5, NamesFact
      <4>2. set'[p.name] = set[p.name]
        BY <1>8, <3>2, <4>1
      <4>3. u.opts # {p}
        BY <1>2, <3>5
      <4> QED
        BY <3>1, <3>3, <4>2, <4>3
    <3> QED
      BY <3>4, <3>5
  <2> HIDE DEF r
  <2> QED
    BY <2>2, <2>4, <2>5 DEF Sets
<1> QED
  BY <1>5, <1>6, <1>7, <1>8 DEF u, r

\* A word is read as far as its k-th letter.
Partly(c, w, k) == w.k = "short" /\ k \in 0..Flags(c, w.text) /\ k < Len(w.text)
SoFar(c, line, a, nx, s) ==
  \/ nx = {} /\ Sets(c, Uses(c, line, a - 1), s)
  \/ /\ a <= Len(line)
     /\ \E k \in Nat :
          /\ Partly(c, line[a], k) /\ nx = {SubSeq(line[a].text, k + 1, Len(line[a].text))}
          /\ Sets(c, Uses(c, line, a - 1) \o Letters(c, line[a].text, k), s)

\* The a-th word is read next, oc operands have been moved to the front of m.
Reads(c, line, a, oc, nx, m, s) ==
  /\ a \in 1..Len(line) + 1
  /\ \A j \in 1..a - 1 : ~Stops(c, line, j)
  /\ a <= Len(line) => ~IsValue(c, line)[a]
  /\ SubSeq(m, 1, oc) = Operands(c, line, a - 1)
  /\ SoFar(c, line, a, nx, s)

\* A word of options has been read, and with it its value.
LEMMA WordRead ==
  ASSUME NEW c, NEW line \in Seq(Words), NEW a \in 1..Len(line), NEW oc, NEW m, NEW s,
         \A j \in 1..a - 1 : ~Stops(c, line, j), ~Stops(c, line, a), ~IsValue(c, line)[a], line[a].k # "text",
         SubSeq(m, 1, oc) = Operands(c, line, a - 1),
         Sets(c, Uses(c, line, a), s),
         NEW n \in {1, 2},
         n = 1 => ~WantsNext(c, line[a]),
         n = 2 => WantsNext(c, line[a]) /\ a + 1 <= Len(line)
  PROVE  Reads(c, line, a + n, oc, {}, m, s)
<1>0. Len(line) \in Nat /\ a \in Nat /\ a <= Len(line) /\ a >= 1 /\ a - 1 \in 0..Len(line) /\ a \in 0..Len(line)
  OBVIOUS
<1>1. \A j \in 1..Len(line) - 1 : IsValue(c, line)[j + 1] <=> WantsNext(c, line[j]) /\ ~IsValue(c, line)[j]
  BY ValueFact
<1>2. Operands(c, line, a) = Operands(c, line, a - 1)
  <2>1. a - 1 < Len(line) /\ a - 1 + 1 = a
    BY <1>0
  <2> QED
    BY <1>0, <2>1, OperandsFact
<1>3. CASE n = 1
  <2>1. a + 1 \in 1..Len(line) + 1 /\ a + n - 1 = a /\ a + n = a + 1
    BY <1>0, <1>3
  <2>2. \A j \in 1..a : ~Stops(c, line, j)
    BY <1>0
  <2>3. a + 1 <= Len(line) => ~IsValue(c, line)[a + 1]
    BY <1>0, <1>1, <1>3
  <2> QED
    BY <1>2, <2>1, <2>2, <2>3 DEF Reads, SoFar
<1>4. CASE n = 2
  <2>1. a + 2 \in 1..Len(line) + 1 /\ a + n - 1 = a + 1 /\ a + n = a + 2 /\ a < Len(line) /\ a + 1 \in 1..Len(line)
    BY <1>0, <1>4
  <2>2. IsValue(c, line)[a + 1]
    BY <1>0, <1>1, <1>4
  <2>3. \A j \in 1..a + 1 : ~Stops(c, line, j)
    <3>1. ~Stops(c, line, a + 1)
      BY <2>2 DEF Stops
    <3>2. \A j \in 1..a + 1 : j \in 1..a - 1 \/ j = a \/ j = a + 1
      BY <1>0
    <3> QED
      BY <3>1, <3>2
  <2>4. a + 2 <= Len(line) => ~IsValue(c, line)[a + 2]
    <3> SUFFICES ASSUME a + 2 <= Len(line) PROVE ~IsValue(c, line)[a + 2]
      OBVIOUS
    <3>1. a + 1 \in 1..Len(line) - 1 /\ a + 1 + 1 = a + 2
      BY <1>0
    <3> QED
      BY <1>1, <2>2, <3>1
  <2>5. Operands(c, line, a + 1) = Operands(c, line, a)
    BY <1>0, <2>1, <2>2, OperandsFact
  <2>6. Uses(c, line, a + 1) = Uses(c, line, a)
    <3>1. Uses(c, line, a) \in Seq(UsesOf(c, line)) /\ Uses(c, line, a + 1) = Uses(c, line, a) \o WordUses(c, line, a + 1)
      BY <1>0, <2>1, UsesFact
    <3>2. WordUses(c, line, a + 1) = <<>>
      BY <2>1, <2>2, WordUsesFact
    <3>3. \A S : \A x \in Seq(S) : x \o <<>> = x
      OBVIOUS
    <3> QED
      BY <3>1, <3>2, <3>3
  <2> QED
    BY <1>2, <2>1, <2>3, <2>4, <2>5, <2>6 DEF Reads, SoFar
<1> QED
  BY <1>3, <1>4

\* A word that is wrong is among those that are read.
LEMMA ErrorFact ==
  ASSUME NEW c, NEW line \in Seq(Words), NEW a \in 1..Len(line),
         \A j \in 1..a - 1 : ~Stops(c, line, j), ~Stops(c, line, a),
         NEW u \in Range(WordUses(c, line, a)), ~Fine(u)
  PROVE  \E x \in Range(AllUses(c, line)) : ~Fine(x)
<1>0. Len(line) \in Nat /\ a \in 1..Len(line) + 1 /\ a <= Len(line)
  OBVIOUS
<1> DEFINE n == Stop(c, line) - 1
<1>1. Stop(c, line) > a /\ Stop(c, line) \in 1..Len(line) + 1
  BY <1>0, StopFact
<1>2. n \in 0..Len(line) /\ a \in 1..n
  BY <1>0, <1>1
<1>3. AllUses(c, line) = Uses(c, line, n)
  BY Zenon DEF AllUses, n
<1> HIDE DEF n
<1>4. Range(WordUses(c, line, a)) \subseteq Range(Uses(c, line, n))
  BY <1>2, UsesIn
<1> QED
  BY <1>3, <1>4

\* The words left are behind the operands.
LEMMA DoneFact ==
  ASSUME Inv, result = "parsing", NEW n \in {0, 1}, n =< argc, ParseDone(n)
  PROVE  /\ SubSeq(mem', 1, argc') = SubSeq(mem, 1, outc) \o SubSeq(given, at + n, Len(given))
         /\ SubSeq(mem, 1, outc) \in Seq(Words)
<1> DEFINE nl == outc + (argc - n)
           s1 == SubSeq(mem, 1, outc)
           s2 == SubSeq(given, at + n, Len(given))
           s3 == SubSeq(mem', 1, nl)
<1>1. /\ mem \in Seq(Words) /\ given \in Seq(Words) /\ argc \in Nat /\ at \in Nat /\ outc \in Nat
      /\ at >= 1 /\ at + argc = Len(given) + 1 /\ Len(given) =< Len(mem) /\ outc < at
      /\ Len(mem) \in Nat /\ Len(given) \in Nat
      /\ \A j \in at..Len(given) : mem[j] = given[j]
  BY DEF Inv, Arrays, Counted, Behindhand, UnreadUntouched
<1>2. /\ mem' = [j \in DOMAIN mem |-> IF j \in outc + 1..nl THEN mem[at + n + j - outc - 1] ELSE mem[j]]
      /\ argc' = nl
  BY Zenon DEF ParseDone
<1>3. nl \in Nat /\ nl <= Len(mem) /\ outc <= Len(mem) /\ outc <= nl /\ nl - outc = Len(given) - (at + n) + 1
  BY <1>1
<1>5. mem' \in Seq(Words) /\ Len(mem') = Len(mem)
  <2>1. ASSUME NEW j \in DOMAIN mem, j \in outc + 1..nl PROVE at + n + j - outc - 1 \in DOMAIN mem
    <3>1. DOMAIN mem = 1..Len(mem) /\ j \in Int /\ j >= outc + 1 /\ j <= outc + (argc - n)
      BY <1>1, <1>3, <2>1
    <3>2. argc \in Nat /\ at \in Nat /\ outc \in Nat /\ n \in Nat
      BY <1>1
    <3>3. at + n + j - outc - 1 <= at + argc - 1 /\ at + n + j - outc - 1 >= at /\ at + n + j - outc - 1 \in Int
      BY <3>1, <3>2
    <3>4. at >= 1 /\ at + argc - 1 <= Len(mem) /\ Len(mem) \in Nat
      BY <1>1
    <3> DEFINE e == at + n + j - outc - 1
    <3>5. e \in Int /\ e <= at + argc - 1 /\ e >= at
      BY <3>3
    <3> HIDE DEF nl, e
    <3>6. e \in 1..Len(mem)
      BY <3>2, <3>4, <3>5
    <3> QED
      BY <3>1, <3>6, Zenon DEF e
  <2>2. DOMAIN mem' = 1..Len(mem) /\ \A j \in DOMAIN mem : mem'[j] \in Words
    BY <1>1, <1>2, <2>1
  <2>3. mem' = [j \in 1..Len(mem) |-> mem'[j]]
    BY <1>1, <1>2, <2>2
  <2> QED
    BY <1>1, <2>2, <2>3
<1>6. /\ s1 \in Seq(Words) /\ Len(s1) = outc /\ \A j \in 1..outc : s1[j] = mem[j]
  BY <1>1, <1>3, SMTT(30)
<1>7. /\ s2 \in Seq(Words) /\ Len(s2) = nl - outc /\ \A j \in 1..nl - outc : s2[j] = given[at + n + j - 1]
  BY <1>1, <1>3, SMTT(30)
<1>8. /\ s3 \in Seq(Words) /\ Len(s3) = nl /\ \A j \in 1..nl : s3[j] = mem'[j]
  BY <1>3, <1>5
<1> HIDE DEF s1, s2, s3, nl
<1>9. /\ s1 \o s2 \in Seq(Words) /\ Len(s1 \o s2) = nl
      /\ \A j \in 1..outc : (s1 \o s2)[j] = s1[j]
      /\ \A j \in 1..nl - outc : (s1 \o s2)[outc + j] = s2[j]
  <2>1. /\ s1 \o s2 \in Seq(Words) /\ Len(s1 \o s2) = Len(s1) + Len(s2)
        /\ \A j \in 1..Len(s1) : (s1 \o s2)[j] = s1[j]
        /\ \A j \in 1..Len(s2) : (s1 \o s2)[Len(s1) + j] = s2[j]
    <3>1. s1 \in Seq(Words) /\ s2 \in Seq(Words)
      BY <1>6, <1>7
    <3> QED
      BY <3>1, ConcatFact, SMTT(30)
  <2>2. Len(s1) = outc /\ Len(s2) = nl - outc
    BY <1>6, <1>7
  <2>3. outc \in Nat /\ nl \in Nat
    BY <1>1, <1>3
  <2>4. outc + (nl - outc) = nl
    BY <2>3
  <2>5. Len(s1 \o s2) = nl
    BY <2>1, <2>2, <2>4, Zenon
  <2>6. \A j \in 1..outc : (s1 \o s2)[j] = s1[j]
    BY <2>1, <2>2, Zenon
  <2>7. \A j \in 1..nl - outc : (s1 \o s2)[outc + j] = s2[j]
    BY <2>1, <2>2, Zenon
  <2> QED
    BY <2>1, <2>5, <2>6, <2>7, Zenon
<1>10. ASSUME NEW j \in 1..nl PROVE s3[j] = (s1 \o s2)[j]
  <2>1. j \in DOMAIN mem /\ s3[j] = mem'[j]
    BY <1>1, <1>3, <1>8
  <2>2. CASE j <= outc
    <3>1. mem'[j] = mem[j]
      BY <1>1, <1>2, <2>1, <2>2
    <3>2. j \in 1..outc
      BY <2>2
    <3> QED
      BY <1>6, <1>9, <2>1, <3>1, <3>2
  <2>3. CASE j > outc
    <3> DEFINE k == j - outc
    <3>1. k \in 1..nl - outc /\ outc + k = j /\ j \in outc + 1..nl
      BY <1>1, <1>3, <2>3
    <3>2. mem'[j] = mem[at + n + j - outc - 1]
      BY <1>2, <2>1, <3>1
    <3>3. at + n + j - outc - 1 = at + n + k - 1 /\ at + n + k - 1 \in at..Len(given)
      BY <1>1, <1>3, <3>1
    <3>4. mem'[j] = given[at + n + k - 1]
      BY <1>1, <3>2, <3>3
    <3> HIDE DEF k
    <3> QED
      BY <1>7, <1>9, <2>1, <3>1, <3>4
  <2>4. j \in Int /\ outc \in Int
    BY <1>1, <1>3, <1>10
  <2>5. j <= outc \/ j > outc
    BY <2>4
  <2> HIDE DEF nl
  <2> QED
    BY <2>2, <2>3, <2>5, Zenon
<1>11. s3 = s1 \o s2
  BY <1>3, <1>8, <1>9, <1>10, SeqEqual
<1> QED
  BY <1>2, <1>6, <1>11 DEF s1, s2, s3

\* Entries that are found are in the table.
LEMMA EntryFact ==
  /\ \A is : is \subseteq DOMAIN option => FirstOption(is) \subseteq Range(option)
  /\ \A w : Meant(w) \subseteq Range(option)
<1>1. ASSUME NEW is, is \subseteq DOMAIN option PROVE FirstOption(is) \subseteq Range(option)
  BY <1>1 DEF FirstOption, Range
<1>2. ASSUME NEW w PROVE Meant(w) \subseteq Range(option)
  <2> DEFINE is == {y \in DOMAIN option : IsNamed(option[y], w) /\ option[y].name = w.text}
  <2>1. \/ Meant(w) = FirstOption(is)
        \/ Meant(w) = {option[y] : y \in Abbreviated(w)}
        \/ Meant(w) = {}
    BY DEF Meant
  <2>2. is \subseteq DOMAIN option /\ Abbreviated(w) \subseteq DOMAIN option
    BY DEF Abbreviated
  <2> HIDE DEF is
  <2>3. {option[y] : y \in Abbreviated(w)} \subseteq Range(option)
    BY <2>2 DEF Range
  <2> QED
    BY <1>1, <2>1, <2>2, <2>3
<1> QED
  BY <1>1, <1>2

\* Whatever is dispatched, it sets an option of this command.
LEMMA DispatchSettings ==
  ASSUME Settings, result = "parsing", UNCHANGED <<cmd, subcmd>>,
         NEW o \in Range(option), NEW v, v = {} \/ \E w : v = {w}, NEW unset \in BOOLEAN, NEW rest, NEW n,
         dispatch_optarg(o, v, unset, rest, n)
  PROVE  Settings'
<1>1. \/ UNCHANGED set
      \/ o.type \notin {"group", "subcmd"} /\ \E b : set' = [set EXCEPT ![o.name] = b]
  <2>1. \/ UNCHANGED set /\ result' \in {"wild", "bug"}
        \/ /\ UNCHANGED set /\ result' = "error"
           /\ o.type = "uint" /\ \E w \in v : ~Number(w)
        \/ /\ o.type \notin {"group", "subcmd"}
           /\ o.type = "uint" => \A w \in v : Number(w)
           /\ \E b :
                /\ set' = [set EXCEPT ![o.name] = b]
                /\ o.type = "switch" => b = IF ~unset THEN 1 ELSE 0
                /\ o.type = "countup" /\ ~unset => b = set[o.name] + 1
                /\ o.type \in {"uint", "string"} /\ ~unset => b = v
           /\ next' = rest /\ argc' = argc - n /\ at' = at + n
           /\ UNCHANGED <<mem, outc, result>>
    BY DispatchForm
  <2> QED
    BY <2>1
<1>2. CASE UNCHANGED set
  BY <1>2 DEF Settings
<1>3. ASSUME o.type \notin {"group", "subcmd"}, NEW b, set' = [set EXCEPT ![o.name] = b] PROVE Settings'
  <2>1. o \in Options(cmd)
    BY <1>3 DEF Options, option
  <2>2. o \in OptionsOf(cmd) /\ subcmd' # "main"
    BY <2>1, OptionsFact DEF Settings
  <2> QED
    BY <1>3, <2>2, SetOther
<1> QED
  BY <1>1, <1>2, <1>3

\* The subcommands of a command.
LEMMA NamedEntry ==
  ASSUME NEW o \in Range(option)
  PROVE  /\ o.type = "subcmd" => o.name = <<o.name[1]>> /\ o.name[1] # "main"
         /\ o.type \in {"group", "subcmd"} \/ o \in Options(cmd)
<1>1. o \in EntriesOf(cmd)
  BY RangeFact DEF option
<1>2. CASE o \in OptionsOf(cmd)
  BY <1>2, OptionsFact, NamesFact
<1>3. CASE o = Group
  BY <1>3, FieldsFact
<1>4. ASSUME NEW x \in Subs(cmd), o = Sub(x) PROVE o.name = <<o.name[1]>> /\ o.name[1] # "main" /\ o.type = "subcmd"
  <2>1. o.name = <<x>> /\ o.type = "subcmd"
    BY <1>4, FieldsFact, Zenon
  <2>2. x # "main"
    BY <1>4 DEF Subs
  <2> QED
    BY <2>1, <2>2, TupleFact
<1> QED
  BY <1>1, <1>2, <1>3, <1>4, EntriesFact

\* What is left to read.
LEMMA ReadFact ==
  ASSUME Inv, result = "parsing", argc > 0
  PROVE  /\ given \in Seq(Words) /\ Len(given) \in Nat /\ at \in 1..Len(given) /\ argc = Len(given) + 1 - at
         /\ Word = given[at] /\ Word \in Words
         /\ argc > 1 <=> at + 1 <= Len(given)
         /\ argc > 1 => mem[at + 1] = given[at + 1] /\ given[at + 1] \in Words
<1>1. /\ given \in Seq(Words) /\ argc \in Nat /\ at \in Nat
      /\ at >= 1 /\ at + argc = Len(given) + 1
      /\ Len(given) \in Nat
      /\ \A j \in at..Len(given) : mem[j] = given[j]
  BY DEF Inv, Arrays, Counted, Behindhand, UnreadUntouched
<1>2. at \in at..Len(given) /\ at \in 1..Len(given) /\ argc = Len(given) + 1 - at
  BY <1>1
<1>3. argc > 1 <=> at + 1 <= Len(given)
  BY <1>1
<1>4. argc > 1 => at + 1 \in at..Len(given) /\ at + 1 \in 1..Len(given)
  BY <1>1
<1> QED
  BY <1>1, <1>2, <1>3, <1>4 DEF Word

LEMMA SettingsStep == Inv /\ Settings /\ [Next]_vars => Settings'
<1> SUFFICES ASSUME Inv, Settings, [Next]_vars PROVE Settings'
  OBVIOUS
<1>1. CASE UNCHANGED <<cmd, set, subcmd>>
  BY <1>1 DEF Settings
<1>2. CASE ShortOption
  <2>1. result = "parsing" /\ UNCHANGED <<cmd, subcmd>>
    BY <1>2 DEF ShortOption, Reading
  <2>2. PICK str \in next : \E tail \in IF str = <<>> THEN Behind ELSE {Tail(str)} :
          LET found == FirstOption({p \in DOMAIN option : option[p].short = IF str = <<>> THEN "" ELSE Head(str)})
              rest == IF tail = <<>> THEN {} ELSE {tail}
              last == IF tail = <<>> THEN 1 ELSE 0
          IN
          CASE found = {} -> ExitWith("error")
            [] OTHER ->
                 \E o \in found :
                   IF NoArg(o) THEN dispatch_optarg(o, {}, FALSE, rest, last)
                   ELSE IF tail # <<>> THEN dispatch_optarg(o, {Text(tail)}, FALSE, {}, 1)
                   ELSE IF argc > 1 THEN dispatch_optarg(o, {mem[at + 1]}, FALSE, {}, 2)
                   ELSE ExitWith("error")
    BY <1>2 DEF ShortOption
  <2> DEFINE is == {p \in DOMAIN option : option[p].short = IF str = <<>> THEN "" ELSE Head(str)}
             found == FirstOption(is)
  <2>3. found \subseteq Range(option)
    <3>1. is \subseteq DOMAIN option
      OBVIOUS
    <3> HIDE DEF is
    <3> QED
      BY <3>1, EntryFact
  <2> HIDE DEF found
  <2>4. PICK tail \in IF str = <<>> THEN Behind ELSE {Tail(str)} :
          CASE found = {} -> ExitWith("error")
            [] OTHER ->
                 \E o \in found :
                   IF NoArg(o)
                     THEN dispatch_optarg(o, {}, FALSE, IF tail = <<>> THEN {} ELSE {tail}, IF tail = <<>> THEN 1 ELSE 0)
                   ELSE IF tail # <<>> THEN dispatch_optarg(o, {Text(tail)}, FALSE, {}, 1)
                   ELSE IF argc > 1 THEN dispatch_optarg(o, {mem[at + 1]}, FALSE, {}, 2)
                   ELSE ExitWith("error")
    BY <2>2 DEF found
  <2>5. CASE ExitWith("error")
    BY <2>1, <2>5 DEF ExitWith, Settings
  <2>6. CASE ~ExitWith("error")
    <3>1. PICK o \in found :
            \/ dispatch_optarg(o, {}, FALSE, IF tail = <<>> THEN {} ELSE {tail}, IF tail = <<>> THEN 1 ELSE 0)
            \/ dispatch_optarg(o, {Text(tail)}, FALSE, {}, 1)
            \/ argc > 1 /\ dispatch_optarg(o, {mem[at + 1]}, FALSE, {}, 2)
      BY <2>4, <2>6
    <3>2. \E v, rest, n : (v = {} \/ \E w : v = {w}) /\ dispatch_optarg(o, v, FALSE, rest, n)
      BY <3>1
    <3>3. PICK v, rest, n : (v = {} \/ \E w : v = {w}) /\ dispatch_optarg(o, v, FALSE, rest, n)
      BY <3>2
    <3> QED
      BY <2>1, <2>3, <3>3, DispatchSettings
  <2> QED
    BY <2>5, <2>6
<1>3. CASE LongOption
  <2>1. result = "parsing" /\ UNCHANGED <<cmd, subcmd>>
    BY <1>3 DEF LongOption, Reading
  <2>2. CASE ExitWith("error")
    BY <2>1, <2>2 DEF ExitWith, Settings
  <2>3. CASE ~ExitWith("error")
    <3>1. PICK o \in Meant(Word) :
            \/ \E v \in Word.val : dispatch_optarg(o, {Text(v)}, FALSE, {}, 1)
            \/ dispatch_optarg(o, {}, Word.no, {}, 1)
            \/ argc > 1 /\ dispatch_optarg(o, {mem[at + 1]}, FALSE, {}, 2)
      BY <1>3, <2>3 DEF LongOption
    <3>2. o \in Range(option)
      BY EntryFact
    <3>3. Word.no \in BOOLEAN
      <4>1. argc > 0 /\ Word.k = "long"
        BY <1>3 DEF LongOption
      <4> QED
        BY <2>1, <4>1, ReadFact, WordsFact DEF IsWord
    <3>4. ASSUME NEW v, dispatch_optarg(o, {Text(v)}, FALSE, {}, 1) PROVE Settings'
      BY <2>1, <3>2, <3>4, DispatchSettings
    <3>5. CASE dispatch_optarg(o, {}, Word.no, {}, 1)
      BY <2>1, <3>2, <3>3, <3>5, DispatchSettings
    <3>6. CASE dispatch_optarg(o, {mem[at + 1]}, FALSE, {}, 2)
      BY <2>1, <3>2, <3>6, DispatchSettings
    <3> QED
      BY <3>1, <3>4, <3>5, <3>6
  <2> QED
    BY <2>2, <2>3
<1>4. CASE Subcommand
  <2> DEFINE is == {p \in DOMAIN option : option[p].type # "group" /\ option[p].name = Word.text}
             found == FirstOption(is)
  <2>1. /\ UNCHANGED cmd
        /\ \/ UNCHANGED <<set, subcmd>>
           \/ \E o \in found :
                /\ subcmd' = IF o.type = "subcmd" THEN o.name[1] ELSE ""
                /\ set' = IF o.type = "subcmd" THEN set ELSE [set EXCEPT ![o.name] = {}]
    BY <1>4 DEF Subcommand
  <2>2. found \subseteq Range(option) /\ \A o \in found : o.type # "group"
    <3>1. is \subseteq DOMAIN option
      OBVIOUS
    <3>2. \A o \in found : \E p \in is : o = option[p]
      BY DEF FirstOption
    <3>3. \A p \in is : option[p].type # "group"
      OBVIOUS
    <3> HIDE DEF is
    <3> QED
      BY <3>1, <3>2, <3>3, EntryFact
  <2> HIDE DEF found
  <2>3. CASE UNCHANGED <<set, subcmd>>
    BY <2>1, <2>3 DEF Settings
  <2>4. ASSUME NEW o \in found, o.type = "subcmd", subcmd' = o.name[1], UNCHANGED set PROVE Settings'
    BY <2>1, <2>2, <2>4, NamedEntry DEF Settings
  <2>5. ASSUME NEW o \in found, o.type # "subcmd", subcmd' = "", set' = [set EXCEPT ![o.name] = {}] PROVE Settings'
    <3>1. o \in OptionsOf(cmd)
      BY <2>2, <2>5, NamedEntry, OptionsFact
    <3>2. subcmd' # "main"
      BY <2>5
    <3> QED
      BY <2>1, <2>5, <3>1, <3>2, SetOther
  <2> QED
    BY <2>1, <2>3, <2>4, <2>5
<1>5. CASE RunCommand
  <2>1. cmd' = subcmd /\ subcmd' = "" /\ UNCHANGED set /\ cmd \in {"main", "query"}
    BY <1>5 DEF RunCommand, AP_COMMAND_MODE
  <2> QED
    BY <2>1 DEF Settings
<1>6. CASE PromptHelp \/ ShortWord \/ Operand \/ StopParse \/ NoCommand \/ StartWork \/ Done \/ UNCHANGED vars
  BY <1>1, <1>6 DEF PromptHelp, ExitWith, ShortWord, Operand, StopParse, NoCommand, StartWork, Done, vars
<1> QED
  BY <1>2, <1>3, <1>4, <1>5, <1>6 DEF Next

\* What has been read is what was meant.
Mean == Plain(given) /\ Reading => Reads(cmd, given, at, outc, next, mem, set)
Means == Mean /\ ParsedAsMeant

\* The next word, and what was read before it.
AtWord ==
  /\ Inv /\ Plain(given) /\ Reading /\ argc > 0
  /\ \A j \in 1..at - 1 : ~Stops(cmd, given, j)
  /\ ~IsValue(cmd, given)[at]
  /\ SubSeq(mem, 1, outc) = Operands(cmd, given, at - 1)
AtOption == AtWord /\ Word.k # "text" /\ Word # EndOfOptions

LEMMA AtFact ==
  ASSUME Inv, Mean, Plain(given), Reading, argc > 0
  PROVE  AtWord /\ SoFar(cmd, given, at, next, set)
<1>1. Reads(cmd, given, at, outc, next, mem, set)
  BY DEF Mean
<1>2. at <= Len(given)
  BY ReadFact DEF Reading
<1> QED
  BY <1>1, <1>2 DEF AtWord, Reads

\* Any other end is not spoken of.
LEMMA OtherMeans == ASSUME result' \notin {"parsing", "parsed", "error"} PROVE Means'
BY DEF Means, Mean, Reading, ParsedAsMeant

\* A word with a use that is wrong is an error.
LEMMA ErrorMeans ==
  ASSUME AtOption, UNCHANGED <<cmd, given>>, result' = "error",
         NEW u \in Range(WordUses(cmd, given, at)), ~Fine(u)
  PROVE  Means'
<1>1. /\ given \in Seq(Words) /\ at \in 1..Len(given) /\ Word = given[at]
  BY ReadFact DEF AtOption, AtWord, Reading
<1>2. ~Stops(cmd, given, at)
  BY <1>1 DEF Stops, AtOption
<1>3. \E x \in Range(AllUses(cmd, given)) : ~Fine(x)
  BY <1>1, <1>2, ErrorFact DEF AtOption, AtWord
<1> QED
  BY <1>3 DEF Means, Mean, Reading, ParsedAsMeant

\* A word is read with the last of its uses.
LEMMA UseRead ==
  ASSUME AtOption, Settings, UNCHANGED <<cmd, given, subcmd>>,
         NEW D, NEW q \in Seq(D), Sets(cmd, q, set),
         NEW o \in Options(cmd), NEW v, v = {} \/ \E w : v = {w}, NEW unset \in BOOLEAN, NEW n \in {1, 2},
         dispatch_optarg(o, v, unset, {}, n),
         (v = {}) = (NoArg(o) \/ unset), unset => o.type = "switch",
         Uses(cmd, given, at) = Append(q, Use({o}, v, unset)),
         Use({o}, v, unset) \in Range(WordUses(cmd, given, at)),
         n = 1 => ~WantsNext(cmd, Word),
         n = 2 => WantsNext(cmd, Word) /\ argc > 1
  PROVE  Means'
<1> DEFINE u == Use({o}, v, unset)
<1>1. /\ given \in Seq(Words) /\ at \in 1..Len(given) /\ Word = given[at]
      /\ argc > 1 => at + 1 <= Len(given)
  BY ReadFact DEF AtOption, AtWord, Reading
<1>2. ~Stops(cmd, given, at)
  BY <1>1 DEF Stops, AtOption
<1>3. result = "parsing"
  BY DEF AtOption, AtWord, Reading
<1>4. \/ result' \in {"wild", "bug"}
      \/ result' = "error" /\ ~Fine(u)
      \/ /\ Sets(cmd, Append(q, u), set')
         /\ next' = {} /\ argc' = argc - n /\ at' = at + n
         /\ UNCHANGED <<mem, outc, result>>
  BY <1>3, DispatchMeans
<1>5. CASE result' \in {"wild", "bug"}
  BY <1>5, OtherMeans
<1>6. CASE result' = "error" /\ ~Fine(u)
  BY <1>6, ErrorMeans
<1>7. CASE /\ Sets(cmd, Append(q, u), set')
           /\ next' = {} /\ argc' = argc - n /\ at' = at + n
           /\ UNCHANGED <<mem, outc, result>>
  <2>1. Sets(cmd, Uses(cmd, given, at), set')
    BY <1>7
  <2> HIDE DEF u
  <2>2. Reads(cmd, given, at + n, outc, {}, mem, set')
    BY <1>1, <1>2, <2>1, WordRead DEF AtOption, AtWord
  <2>3. Reads(cmd, given, at, outc, next, mem, set)'
    BY <1>7, <2>2
  <2> QED
    BY <1>3, <1>7, <2>3 DEF Means, Mean, ParsedAsMeant
<1> QED
  BY <1>4, <1>5, <1>6, <1>7 DEF u

\* The word alone: an option without a value, or with its value in the word.
LEMMA UseNone ==
  ASSUME AtOption, Settings, UNCHANGED <<cmd, given, subcmd>>,
         NEW D, NEW q \in Seq(D), Sets(cmd, q, set),
         NEW o \in Options(cmd), NEW unset \in BOOLEAN,
         dispatch_optarg(o, {}, unset, {}, 1), NoArg(o) \/ unset, unset => o.type = "switch",
         Uses(cmd, given, at) = Append(q, Use({o}, {}, unset)),
         Use({o}, {}, unset) \in Range(WordUses(cmd, given, at)),
         ~WantsNext(cmd, Word)
  PROVE  Means'
<1> DEFINE v == {}
           n == 1
<1>1. /\ v = {} \/ \E y : v = {y}
      /\ (v = {}) = (NoArg(o) \/ unset)
      /\ dispatch_optarg(o, v, unset, {}, n)
      /\ Uses(cmd, given, at) = Append(q, Use({o}, v, unset))
      /\ Use({o}, v, unset) \in Range(WordUses(cmd, given, at))
  OBVIOUS
<1>2. n \in {1, 2} /\ (n = 1 => ~WantsNext(cmd, Word)) /\ (n = 2 => WantsNext(cmd, Word) /\ argc > 1)
  OBVIOUS
<1> HIDE DEF v, n
<1> QED
  BY <1>1, <1>2, UseRead

LEMMA UseOne ==
  ASSUME AtOption, Settings, UNCHANGED <<cmd, given, subcmd>>,
         NEW D, NEW q \in Seq(D), Sets(cmd, q, set),
         NEW o \in Options(cmd), NEW w,
         dispatch_optarg(o, {w}, FALSE, {}, 1), ~NoArg(o),
         Uses(cmd, given, at) = Append(q, Use({o}, {w}, FALSE)),
         Use({o}, {w}, FALSE) \in Range(WordUses(cmd, given, at)),
         ~WantsNext(cmd, Word)
  PROVE  Means'
<1> DEFINE v == {w}
           unset == FALSE
           n == 1
<1>1. /\ v = {} \/ \E y : v = {y}
      /\ (v = {}) = (NoArg(o) \/ unset)
      /\ dispatch_optarg(o, v, unset, {}, n)
      /\ Uses(cmd, given, at) = Append(q, Use({o}, v, unset))
      /\ Use({o}, v, unset) \in Range(WordUses(cmd, given, at))
      /\ unset \in BOOLEAN /\ (unset => o.type = "switch")
  OBVIOUS
<1>2. n \in {1, 2} /\ (n = 1 => ~WantsNext(cmd, Word)) /\ (n = 2 => WantsNext(cmd, Word) /\ argc > 1)
  OBVIOUS
<1> HIDE DEF v, n, unset
<1> QED
  BY <1>1, <1>2, UseRead, ZenonT(60)

\* The word and the next one.
LEMMA UseTwo ==
  ASSUME AtOption, Settings, UNCHANGED <<cmd, given, subcmd>>,
         NEW D, NEW q \in Seq(D), Sets(cmd, q, set),
         NEW o \in Options(cmd), NEW w,
         dispatch_optarg(o, {w}, FALSE, {}, 2), ~NoArg(o),
         Uses(cmd, given, at) = Append(q, Use({o}, {w}, FALSE)),
         Use({o}, {w}, FALSE) \in Range(WordUses(cmd, given, at)),
         WantsNext(cmd, Word), argc > 1
  PROVE  Means'
<1> DEFINE v == {w}
           unset == FALSE
           n == 2
<1>1. /\ v = {} \/ \E y : v = {y}
      /\ (v = {}) = (NoArg(o) \/ unset)
      /\ dispatch_optarg(o, v, unset, {}, n)
      /\ Uses(cmd, given, at) = Append(q, Use({o}, v, unset))
      /\ Use({o}, v, unset) \in Range(WordUses(cmd, given, at))
      /\ unset \in BOOLEAN /\ (unset => o.type = "switch")
  OBVIOUS
<1>2. n \in {1, 2} /\ (n = 1 => ~WantsNext(cmd, Word)) /\ (n = 2 => WantsNext(cmd, Word) /\ argc > 1)
  OBVIOUS
<1> HIDE DEF v, n, unset
<1> QED
  BY <1>1, <1>2, UseRead, ZenonT(60)

\* The rest of a text.
LEMMA RestOf ==
  ASSUME NEW S, NEW t \in Seq(S), NEW k \in Nat, k < Len(t)
  PROVE  LET s == SubSeq(t, k + 1, Len(t)) IN
         /\ s # <<>> /\ Head(s) = t[k + 1] /\ t[k + 1] \in S
         /\ Tail(s) = SubSeq(t, k + 2, Len(t)) /\ (Tail(s) = <<>> <=> k + 1 = Len(t))
         /\ Len(t) \in Nat
<1> DEFINE s == SubSeq(t, k + 1, Len(t))
           r == SubSeq(t, k + 2, Len(t))
<1>1. k + 1 \in 1..Len(t) /\ Len(t) \in Nat /\ t[k + 1] \in S
  OBVIOUS
<1>2. s \in Seq(S) /\ Len(s) = Len(t) - k /\ \A y \in 1..Len(t) - k : s[y] = t[k + y]
  <2>1. /\ s \in Seq(S)
        /\ Len(s) = IF k + 1 <= Len(t) THEN Len(t) - (k + 1) + 1 ELSE 0
        /\ \A y \in 1..Len(t) - (k + 1) + 1 : s[y] = t[k + 1 + y - 1]
    BY <1>1, SubFact
  <2> HIDE DEF s
  <2> QED
    BY <1>1, <2>1
<1>3. r \in Seq(S) /\ Len(r) = Len(t) - k - 1 /\ \A y \in 1..Len(t) - k - 1 : r[y] = t[k + 1 + y]
  <2>1. /\ r \in Seq(S)
        /\ Len(r) = IF k + 2 <= Len(t) THEN Len(t) - (k + 2) + 1 ELSE 0
        /\ \A y \in 1..Len(t) - (k + 2) + 1 : r[y] = t[k + 2 + y - 1]
    BY <1>1, SubFact
  <2> HIDE DEF r
  <2> QED
    BY <1>1, <2>1
<1> HIDE DEF s, r
<1>4. s # <<>> /\ Head(s) = t[k + 1]
  BY <1>1, <1>2
<1>5. Tail(s) \in Seq(S) /\ Len(Tail(s)) = Len(t) - k - 1 /\ \A y \in 1..Len(t) - k - 1 : Tail(s)[y] = s[y + 1]
  BY <1>1, <1>2, <1>4
<1>6. \A y \in 1..Len(t) - k - 1 : Tail(s)[y] = r[y]
  <2> SUFFICES ASSUME NEW y \in 1..Len(t) - k - 1 PROVE Tail(s)[y] = r[y]
    OBVIOUS
  <2>1. y + 1 \in 1..Len(t) - k /\ k + (y + 1) = k + 1 + y
    BY <1>1
  <2> QED
    BY <1>2, <1>3, <1>5, <2>1
<1>7. Tail(s) = r
  BY <1>1, <1>3, <1>5, <1>6, SeqEqual
<1>8. Tail(s) = <<>> <=> k + 1 = Len(t)
  <2> DEFINE z == Tail(s)
  <2>1. z \in Seq(S) /\ Len(z) = Len(t) - k - 1
    BY <1>5
  <2> HIDE DEF z
  <2>2. z = <<>> <=> Len(z) = 0
    BY <2>1
  <2>3. z = <<>> <=> k + 1 = Len(t)
    BY <1>1, <2>1, <2>2
  <2> QED
    BY <2>3 DEF z
<1> QED
  BY <1>1, <1>4, <1>7, <1>8 DEF s, r

LEMMA RestFact ==
  ASSUME NEW t, IsText(t), NEW k \in Nat, k < Len(t)
  PROVE  LET s == SubSeq(t, k + 1, Len(t)) IN
         /\ s # <<>> /\ Head(s) = t[k + 1] /\ t[k + 1] # ""
         /\ Tail(s) = SubSeq(t, k + 2, Len(t)) /\ (Tail(s) = <<>> <=> k + 1 = Len(t))
         /\ Len(t) \in Nat
<1> DEFINE S == Range(t)
<1>1. t \in Seq(S)
  BY DEF IsText
<1>2. "" \notin S
  BY DEF IsText
<1> HIDE DEF S
<1>3. LET s == SubSeq(t, k + 1, Len(t)) IN
      /\ s # <<>> /\ Head(s) = t[k + 1] /\ t[k + 1] \in S
      /\ Tail(s) = SubSeq(t, k + 2, Len(t)) /\ (Tail(s) = <<>> <=> k + 1 = Len(t))
      /\ Len(t) \in Nat
  BY <1>1, RestOf
<1>4. t[k + 1] # ""
  BY <1>2, <1>3
<1> QED
  BY <1>3, <1>4

\* A word of short options is begun.
LEMMA ShortWordMeans == Inv /\ Means /\ ShortWord => Means'
<1> SUFFICES ASSUME Inv, Means, ShortWord PROVE Means'
  OBVIOUS
<1>1. /\ Reading /\ next = {} /\ argc > 0 /\ Word.k = "short" /\ next' = {Word.text}
      /\ UNCHANGED <<cmd, given, mem, argc, at, outc, set, subcmd, result>>
  BY DEF ShortWord
<1>2. result' = "parsing"
  BY <1>1 DEF Reading
<1> SUFFICES ASSUME Plain(given) PROVE Reads(cmd, given, at, outc, next, mem, set)'
  BY <1>1, <1>2 DEF Means, Mean, ParsedAsMeant
<1>3. AtWord /\ SoFar(cmd, given, at, next, set)
  BY <1>1, AtFact DEF Means
<1>4. given \in Seq(Words) /\ Len(given) \in Nat /\ at \in 1..Len(given) /\ Word = given[at] /\ Word \in Words
  BY <1>1, ReadFact DEF Reading
<1> DEFINE t == Word.text
           q == Uses(cmd, given, at - 1)
<1>5. Sets(cmd, q, set)
  BY <1>1, <1>3 DEF SoFar
<1>6. IsText(t) /\ Word = Short(t)
  <2>1. IsWord(Word) /\ IsText(t)
    BY <1>4, WordsFact
  <2> QED
    BY <1>1, <2>1 DEF IsWord, Short
<1>7. t # <<>>
  BY <1>4, <1>6 DEF Plain
<1>8. Len(t) \in Nat /\ Flags(cmd, t) \in 0..Len(t) /\ 0 < Len(t)
  <2>1. Len(t) \in Nat /\ Flags(cmd, t) \in 0..Len(t)
    BY <1>6, FlagsFact
  <2>2. t \in Seq(Range(t))
    BY <1>6 DEF IsText
  <2> QED
    BY <1>7, <2>1, <2>2
<1>9. Partly(cmd, Word, 0)
  BY <1>1, <1>8 DEF Partly
<1>10. SubSeq(t, 0 + 1, Len(t)) = t
  <2>1. t \in Seq(Range(t))
    BY <1>6 DEF IsText
  <2> HIDE DEF t
  <2> QED
    BY <2>1
<1>11. q \o Letters(cmd, t, 0) = q
  <2>1. Letters(cmd, t, 0) = <<>>
    BY LettersFact
  <2>2. q \in Seq(UsesOf(cmd, given))
    <3>1. at - 1 \in 0..Len(given)
      BY <1>4
    <3> QED
      BY <1>4, <3>1, UsesFact
  <2> HIDE DEF q
  <2> QED
    BY <2>1, <2>2
<1>12. SoFar(cmd, given, at, {t}, set)
  <2>1. Sets(cmd, q \o Letters(cmd, t, 0), set)
    BY <1>5, <1>11
  <2>2. {t} = {SubSeq(t, 0 + 1, Len(t))}
    BY <1>10
  <2>3. at <= Len(given)
    BY <1>4
  <2> QED
    BY <1>4, <1>9, <2>1, <2>2, <2>3 DEF SoFar
<1>13. Reads(cmd, given, at, outc, {t}, mem, set)
  BY <1>3, <1>4, <1>12 DEF Reads, AtWord
<1> QED
  BY <1>1, <1>13

\* The options of a word, one after the other, and what they do to its uses.
LEMMA MoreUses ==
  ASSUME NEW c, NEW line \in Seq(Words), NEW a \in 1..Len(line), line[a].k = "short", ~IsValue(c, line)[a],
         NEW k \in Nat, k < Len(line[a].text), k <= Flags(c, line[a].text)
  PROVE  LET t == line[a].text
             x == t[k + 1]
             q == Uses(c, line, a - 1) \o Letters(c, t, k)
             f == Flags(c, t)
             u == Use(Letter(c, x), {}, FALSE)
             D == UsesOf(c, line) \cup Range(Letters(c, t, f)) \cup {LastLetter(c, line, a), u}
         IN
         /\ q \in Seq(D)
         /\ Flag(c, x) =>
              /\ k + 1 <= f /\ u \in Range(WordUses(c, line, a))
              /\ Append(q, u) = Uses(c, line, a - 1) \o Letters(c, t, k + 1)
              /\ k + 1 = Len(t) => Uses(c, line, a) = Append(q, u) /\ f = Len(t)
         /\ ~Flag(c, x) =>
              /\ k = f /\ LastLetter(c, line, a) \in Range(WordUses(c, line, a))
              /\ Uses(c, line, a) = Append(q, LastLetter(c, line, a))
<1> DEFINE t == line[a].text
           x == t[k + 1]
           p == Uses(c, line, a - 1)
           l == Letters(c, t, k)
           f == Flags(c, t)
           u == Use(Letter(c, x), {}, FALSE)
           z == LastLetter(c, line, a)
           D == UsesOf(c, line) \cup Range(Letters(c, t, f)) \cup {z, u}
           w == WordUses(c, line, a)
<1>0. Len(line) \in Nat /\ a - 1 \in 0..Len(line) /\ a - 1 < Len(line) /\ a - 1 + 1 = a /\ a \in 0..Len(line)
  OBVIOUS
<1>1. IsText(t) /\ Len(t) \in Nat /\ f \in 0..Len(t) /\ f \in Nat /\ (\A j \in 1..f : Flag(c, t[j])) /\ (f < Len(t) => ~Flag(c, t[f + 1]))
  <2>1. IsText(t)
    BY WordsFact
  <2> HIDE DEF t
  <2> QED
    BY <2>1, FlagsFact
<1>2. /\ l \in Seq(Range(l)) /\ Len(l) = k
      /\ Letters(c, t, k + 1) = Append(l, u)
      /\ Letters(c, t, f) \in Seq(Range(Letters(c, t, f))) /\ Len(Letters(c, t, f)) = f
  <2>1. k \in Nat /\ f \in Nat
    BY <1>1
  <2> HIDE DEF f, t
  <2> QED
    BY <2>1, LettersFact DEF x
<1>3. p \in Seq(UsesOf(c, line)) /\ Uses(c, line, a) = p \o w
  BY <1>0, UsesFact
<1>4. w = IF f = Len(t) THEN Letters(c, t, f) ELSE Append(Letters(c, t, f), z)
  BY WordUsesFact
<1>5. \A j \in 1..k : l[j] = Letters(c, t, f)[j] /\ Letters(c, t, f)[j] \in Range(Letters(c, t, f))
  <2> SUFFICES ASSUME NEW j \in 1..k PROVE l[j] = Letters(c, t, f)[j] /\ Letters(c, t, f)[j] \in Range(Letters(c, t, f))
    OBVIOUS
  <2>1. j \in 1..f
    BY <1>1
  <2> HIDE DEF f
  <2>2. l[j] = Letters(c, t, f)[j]
    BY <2>1 DEF Letters
  <2>3. j \in DOMAIN Letters(c, t, f)
    BY <2>1 DEF Letters
  <2> QED
    BY <2>2, <2>3 DEF Range
<1> HIDE DEF l, p, f, u, z, w, t, x
<1>6. l \in Seq(D) /\ p \in Seq(D) /\ Letters(c, t, f) \in Seq(D) /\ u \in D /\ z \in D
  <2>1. \A j \in 1..Len(l) : l[j] \in D
    BY <1>2, <1>5
  <2>2. UsesOf(c, line) \subseteq D /\ Range(Letters(c, t, f)) \subseteq D
    OBVIOUS
  <2> HIDE DEF D
  <2>3. l \in Seq(D)
    BY <1>2, <2>1
  <2>4. p \in Seq(D)
    BY <1>3, <2>2
  <2>5. Letters(c, t, f) \in Seq(D)
    BY <1>2, <2>2
  <2> QED
    BY <2>3, <2>4, <2>5 DEF D
<1> HIDE DEF D
<1>7. p \o l \in Seq(D)
  BY <1>6
<1>8. \A e \in D, s \in Seq(D) : p \o Append(s, e) = Append(p \o s, e)
  <2> SUFFICES ASSUME NEW e \in D, NEW s \in Seq(D) PROVE p \o Append(s, e) = Append(p \o s, e)
    OBVIOUS
  <2> QED
    BY <1>6
<1>9. \A e \in D, s \in Seq(D) : e \in Range(Append(s, e))
  <2> SUFFICES ASSUME NEW e \in D, NEW s \in Seq(D) PROVE e \in Range(Append(s, e))
    OBVIOUS
  <2>1. Append(s, e)[Len(s) + 1] = e /\ Len(s) + 1 \in DOMAIN Append(s, e)
    BY AppendProperties
  <2> QED
    BY <2>1 DEF Range
<1>10. ASSUME Flag(c, x)
       PROVE  /\ k + 1 <= f /\ u \in Range(w)
              /\ Append(p \o l, u) = p \o Letters(c, t, k + 1)
              /\ k + 1 = Len(t) => Uses(c, line, a) = Append(p \o l, u) /\ f = Len(t)
  <2>1. k + 1 <= f
    <3>1. k < Len(t) /\ k <= f
      BY DEF t, f
    <3>2. k # f
      BY <1>1, <1>10, <3>1 DEF x
    <3> QED
      BY <1>1, <3>1, <3>2
  <2>2. u \in Range(w)
    <3>1. k + 1 \in 1..f
      BY <2>1, <1>1
    <3>2. Letters(c, t, f)[k + 1] = u
      BY <3>1 DEF Letters, u, x
    <3>3. k + 1 \in DOMAIN Letters(c, t, f)
      BY <3>1 DEF Letters
    <3>4. k + 1 \in DOMAIN w /\ w[k + 1] = u
      <4>1. CASE f = Len(t)
        BY <1>4, <3>2, <3>3, <4>1
      <4>2. CASE f # Len(t)
        <5>1. w = Append(Letters(c, t, f), z)
          BY <1>4, <4>2
        <5>2. DOMAIN w = 1..f + 1 /\ \A j \in 1..f : w[j] = Letters(c, t, f)[j]
          BY <1>2, <1>6, <5>1, AppendProperties
        <5> QED
          BY <1>1, <3>1, <3>2, <5>2
      <4> QED
        BY <4>1, <4>2
    <3> QED
      BY <3>4 DEF Range
  <2>3. Append(p \o l, u) = p \o Letters(c, t, k + 1)
    BY <1>2, <1>6, <1>8
  <2>4. ASSUME k + 1 = Len(t) PROVE Uses(c, line, a) = Append(p \o l, u) /\ f = Len(t)
    <3>1. f = Len(t)
      BY <1>1, <2>1, <2>4
    <3>2. w = Letters(c, t, k + 1)
      BY <1>4, <2>4, <3>1
    <3> QED
      BY <1>3, <2>3, <3>1, <3>2
  <2> QED
    BY <2>1, <2>2, <2>3, <2>4
<1>11. ASSUME ~Flag(c, x)
       PROVE  k = f /\ z \in Range(w) /\ Uses(c, line, a) = Append(p \o l, z)
  <2>1. k = f
    <3>1. k < Len(t) /\ k <= f
      BY DEF t, f
    <3>2. ~(k + 1 \in 1..f)
      BY <1>1, <1>11 DEF x
    <3> QED
      BY <1>1, <3>1, <3>2
  <2>2. f # Len(t)
    <3>1. k < Len(t)
      BY DEF t
    <3> QED
      BY <2>1, <3>1, <1>1
  <2>3. w = Append(l, z)
    BY <1>4, <2>1, <2>2 DEF l
  <2> QED
    BY <1>3, <1>6, <1>8, <1>9, <2>1, <2>3
<1> QED
  BY <1>7, <1>10, <1>11 DEF D, l, p, f, u, z, w, t, x

\* One option of a word.
LEMMA ShortOptionMeans == Inv /\ Settings /\ Means /\ ShortOption => Means'
<1> SUFFICES ASSUME Inv, Settings, Means, ShortOption PROVE Means'
  OBVIOUS
<1>1. Reading /\ result = "parsing" /\ UNCHANGED <<cmd, given, subcmd>> /\ argc > 0
  BY DEF ShortOption, Reading, Inv, Counted
<1>2. PICK str \in next : \E tail \in IF str = <<>> THEN Behind ELSE {Tail(str)} :
          LET found == FirstOption({p \in DOMAIN option : option[p].short = IF str = <<>> THEN "" ELSE Head(str)})
              rest == IF tail = <<>> THEN {} ELSE {tail}
              last == IF tail = <<>> THEN 1 ELSE 0
          IN
          CASE found = {} -> ExitWith("error")
            [] OTHER ->
                 \E o \in found :
                   IF NoArg(o) THEN dispatch_optarg(o, {}, FALSE, rest, last)
                   ELSE IF tail # <<>> THEN dispatch_optarg(o, {Text(tail)}, FALSE, {}, 1)
                   ELSE IF argc > 1 THEN dispatch_optarg(o, {mem[at + 1]}, FALSE, {}, 2)
                   ELSE ExitWith("error")
  BY DEF ShortOption
<1>3. CASE ~Plain(given)
  <2>1. \/ result' = "parsing" \/ Plain(given') \/ ~Plain(given')
    OBVIOUS
  <2>2. ~Plain(given')
    BY <1>1, <1>3
  <2> QED
    BY <2>2 DEF Means, Mean, ParsedAsMeant, Plain
<1>4. CASE Plain(given)
  <2> DEFINE w == given[at]
             t == w.text
             f == Flags(cmd, t)
             p == Uses(cmd, given, at - 1)
             z == LastLetter(cmd, given, at)
  <2>1. AtWord /\ SoFar(cmd, given, at, next, set)
    BY <1>1, <1>4, AtFact DEF Means
  <2>2. /\ given \in Seq(Words) /\ Len(given) \in Nat /\ at \in 1..Len(given) /\ Word = w /\ w \in Words
        /\ argc > 1 <=> at + 1 <= Len(given)
        /\ argc > 1 => mem[at + 1] = given[at + 1]
    BY <1>1, ReadFact
  <2>3. PICK k \in Nat :
          /\ Partly(cmd, w, k) /\ next = {SubSeq(t, k + 1, Len(t))}
          /\ Sets(cmd, p \o Letters(cmd, t, k), set)
    BY <1>2, <2>1 DEF SoFar
  <2>4. IsText(t) /\ w.k = "short" /\ k < Len(t) /\ k <= f /\ IsWord(w)
    BY <2>2, <2>3, WordsFact DEF Partly
  <2>5. ~IsValue(cmd, given)[at]
    BY <2>1 DEF AtWord
  <2>6. AtOption
    <3>1. Word.k = "short" /\ EndOfOptions.k = "long"
      BY <2>2, <2>4 DEF EndOfOptions, Long
    <3>2. Word.k # "text" /\ Word # EndOfOptions
      BY <3>1
    <3> QED
      BY <2>1, <3>2 DEF AtOption
  <2> DEFINE x == t[k + 1]
             q == p \o Letters(cmd, t, k)
             u == Use(Letter(cmd, x), {}, FALSE)
             D == UsesOf(cmd, given) \cup Range(Letters(cmd, t, f)) \cup {z, u}
             tl == SubSeq(t, k + 2, Len(t))
  <2>7. /\ q \in Seq(D)
        /\ Flag(cmd, x) =>
             /\ k + 1 <= f /\ u \in Range(WordUses(cmd, given, at))
             /\ Append(q, u) = p \o Letters(cmd, t, k + 1)
             /\ k + 1 = Len(t) => Uses(cmd, given, at) = Append(q, u) /\ f = Len(t)
        /\ ~Flag(cmd, x) =>
             /\ k = f /\ z \in Range(WordUses(cmd, given, at))
             /\ Uses(cmd, given, at) = Append(q, z)
    BY <2>2, <2>4, <2>5, MoreUses
  <2>8. /\ str # <<>> /\ Head(str) = x /\ x # "" /\ Tail(str) = tl /\ (tl = <<>> <=> k + 1 = Len(t)) /\ Len(t) \in Nat
    <3>1. str = SubSeq(t, k + 1, Len(t))
      BY <2>3
    <3> HIDE DEF t
    <3> QED
      BY <2>4, <3>1, RestFact
  <2>9. z = Use(Letter(cmd, t[f + 1]), IF f + 1 = Len(t) THEN Following(given, at) ELSE {Text(SubSeq(t, f + 2, Len(t)))}, FALSE)
    BY Zenon DEF LastLetter
  <2>10. WantsNext(cmd, w) <=> f = Len(t) - 1
    BY <2>4 DEF WantsNext
  <2> HIDE DEF w, t, f, p, z, x, q, u, D, tl
  <2>11. /\ FirstOption({y \in DOMAIN option : option[y].short = x}) = Letter(cmd, x)
         /\ Letter(cmd, x) = {} \/ \E o \in Options(cmd) : Letter(cmd, x) = {o} /\ ~o.neg
    BY <2>8, LetterFact
  <2>12. \/ Letter(cmd, x) = {} /\ ExitWith("error")
         \/ \E o \in Letter(cmd, x) :
              \/ NoArg(o) /\ dispatch_optarg(o, {}, FALSE, IF tl = <<>> THEN {} ELSE {tl}, IF tl = <<>> THEN 1 ELSE 0)
              \/ ~NoArg(o) /\ tl # <<>> /\ dispatch_optarg(o, {Text(tl)}, FALSE, {}, 1)
              \/ ~NoArg(o) /\ tl = <<>> /\ argc > 1 /\ dispatch_optarg(o, {mem[at + 1]}, FALSE, {}, 2)
              \/ ~NoArg(o) /\ tl = <<>> /\ ~(argc > 1) /\ ExitWith("error")
    <3> DEFINE found == FirstOption({y \in DOMAIN option : option[y].short = IF str = <<>> THEN "" ELSE Head(str)})
    <3>1. found = Letter(cmd, x)
      <4>1. (IF str = <<>> THEN "" ELSE Head(str)) = x
        BY <2>8
      <4> QED
        BY <2>11, <4>1
    <3> HIDE DEF found
    <3>2. PICK tail \in IF str = <<>> THEN Behind ELSE {Tail(str)} :
          CASE found = {} -> ExitWith("error")
            [] OTHER ->
                 \E o \in found :
                   IF NoArg(o)
                     THEN dispatch_optarg(o, {}, FALSE, IF tail = <<>> THEN {} ELSE {tail}, IF tail = <<>> THEN 1 ELSE 0)
                   ELSE IF tail # <<>> THEN dispatch_optarg(o, {Text(tail)}, FALSE, {}, 1)
                   ELSE IF argc > 1 THEN dispatch_optarg(o, {mem[at + 1]}, FALSE, {}, 2)
                   ELSE ExitWith("error")
      BY <1>2 DEF found
    <3>3. tail = tl
      BY <2>8, <3>2
    <3>4. CASE found = {}
      BY <3>1, <3>2, <3>4
    <3>5. CASE found # {}
      <4>1. \E o \in found :
                   IF NoArg(o)
                     THEN dispatch_optarg(o, {}, FALSE, IF tail = <<>> THEN {} ELSE {tail}, IF tail = <<>> THEN 1 ELSE 0)
                   ELSE IF tail # <<>> THEN dispatch_optarg(o, {Text(tail)}, FALSE, {}, 1)
                   ELSE IF argc > 1 THEN dispatch_optarg(o, {mem[at + 1]}, FALSE, {}, 2)
                   ELSE ExitWith("error")
        BY <3>2, <3>5
      <4> QED
        BY <3>1, <3>3, <4>1, Zenon
    <3> QED
      BY <3>4, <3>5
  <2>15. Len(t) \in Nat /\ k \in Nat
    BY <2>8
  <2>16. tl = <<>> <=> k + 1 = Len(t)
    BY <2>8
  \* No option has that letter.
  <2>13. CASE Letter(cmd, x) = {} /\ ExitWith("error")
    <3>1. ~Flag(cmd, x)
      BY <2>13 DEF Flag
    <3>2. z.opts = {}
      BY <2>7, <2>9, <2>13, <3>1 DEF Use, x
    <3>3. ~Fine(z)
      <4>1. Cardinality({}) = 0
        BY FS_EmptySet
      <4> QED
        BY <3>2, <4>1 DEF Fine
    <3>4. result' = "error"
      BY <2>13 DEF ExitWith
    <3> QED
      BY <1>1, <2>6, <2>7, <3>1, <3>3, <3>4, ErrorMeans
  <2>14. ASSUME NEW o \in Letter(cmd, x),
                \/ NoArg(o) /\ dispatch_optarg(o, {}, FALSE, IF tl = <<>> THEN {} ELSE {tl}, IF tl = <<>> THEN 1 ELSE 0)
                \/ ~NoArg(o) /\ tl # <<>> /\ dispatch_optarg(o, {Text(tl)}, FALSE, {}, 1)
                \/ ~NoArg(o) /\ tl = <<>> /\ argc > 1 /\ dispatch_optarg(o, {mem[at + 1]}, FALSE, {}, 2)
                \/ ~NoArg(o) /\ tl = <<>> /\ ~(argc > 1) /\ ExitWith("error")
         PROVE  Means'
    <3>1. Letter(cmd, x) = {o} /\ o \in Options(cmd)
      BY <2>11, <2>14
    <3>2. Sets(cmd, q, set)
      BY <2>3 DEF q
    \* It takes no value.
    <3>3. CASE NoArg(o)
      <4>1. Flag(cmd, x)
        BY <3>3 DEF Flag
      <4>2. u = Use({o}, {}, FALSE)
        BY <3>1 DEF u
      <4>3. CASE tl = <<>>
        <5>1. dispatch_optarg(o, {}, FALSE, {}, 1)
          BY <2>14, <3>3, <4>3
        <5>0. f = Len(t) /\ Uses(cmd, given, at) = Append(q, Use({o}, {}, FALSE))
          BY <2>7, <2>16, <4>1, <4>2, <4>3
        <5>2. f # Len(t) - 1
          BY <2>15, <5>0
        <5>3. ~WantsNext(cmd, w)
          BY <2>10, <5>2
        <5>4. ~WantsNext(cmd, Word)
          BY <2>2, <5>3
        <5>6. Use({o}, {}, FALSE) \in Range(WordUses(cmd, given, at))
          BY <2>7, <4>1, <4>2
        <5>7. q \in Seq(D) /\ o \in Options(cmd)
          BY <2>7, <3>1
        <5> QED
          BY <1>1, <2>6, <3>2, <3>3, <5>0, <5>1, <5>4, <5>6, <5>7, UseNone
      <4>4. CASE tl # <<>>
        <5>1. dispatch_optarg(o, {}, FALSE, {tl}, 0)
          BY <2>14, <3>3, <4>4
        <5>2. \/ result' \in {"wild", "bug"}
              \/ result' = "error" /\ ~Fine(u)
              \/ /\ Sets(cmd, Append(q, u), set')
                 /\ next' = {tl} /\ argc' = argc - 0 /\ at' = at + 0
                 /\ UNCHANGED <<mem, outc, result>>
          BY <1>1, <2>7, <3>1, <3>2, <3>3, <4>2, <5>1, DispatchMeans
        <5>3. CASE result' \in {"wild", "bug"}
          BY <5>3, OtherMeans
        <5>4. CASE result' = "error" /\ ~Fine(u)
          BY <1>1, <2>6, <2>7, <4>1, <5>4, ErrorMeans
        <5>5. CASE /\ Sets(cmd, Append(q, u), set')
                   /\ next' = {tl} /\ argc' = argc - 0 /\ at' = at + 0
                   /\ UNCHANGED <<mem, outc, result>>
          <6>1. at' = at
            BY <2>2, <5>5
          <6>2. Partly(cmd, w, k + 1)
            <7>0. k < Len(t) /\ Len(t) \in Nat /\ k + 1 # Len(t)
              BY <2>4, <2>8, <4>4 DEF t
            <7>1. k + 1 < Len(t) /\ k + 1 \in Nat
              BY <7>0
            <7>2. k + 1 <= f /\ f \in 0..Len(t)
              BY <2>4, <2>7, <4>1, FlagsFact DEF f
            <7>3. k + 1 \in 0..f
              BY <7>1, <7>2
            <7> QED
              BY <2>4, <7>1, <7>3 DEF Partly, t, f
          <6>3. Sets(cmd, p \o Letters(cmd, t, k + 1), set')
            BY <2>7, <4>1, <5>5
          <6>4. {tl} = {SubSeq(t, (k + 1) + 1, Len(t))}
            BY DEF tl
          <6>5. SoFar(cmd, given, at, {tl}, set')
            BY <2>2, <6>2, <6>3, <6>4 DEF SoFar, w, t, p
          <6>6. Reads(cmd, given, at, outc, {tl}, mem, set')
            BY <2>1, <2>2, <6>5 DEF Reads, AtWord
          <6>7. Reads(cmd, given, at, outc, next, mem, set)'
            BY <1>1, <5>5, <6>1, <6>6
          <6> QED
            BY <1>1, <5>5, <6>7 DEF Means, Mean, ParsedAsMeant
        <5> QED
          BY <5>2, <5>3, <5>4, <5>5
      <4> QED
        BY <4>3, <4>4
    \* It takes one, behind it in the word or in the next.
    <3>4. CASE ~NoArg(o)
      <4>1. ~Flag(cmd, x)
        BY <3>1, <3>4 DEF Flag
      <4>2. k = f /\ z \in Range(WordUses(cmd, given, at)) /\ Uses(cmd, given, at) = Append(q, z)
        BY <2>7, <4>1
      <4>3. z = Use({o}, IF tl = <<>> THEN Following(given, at) ELSE {Text(tl)}, FALSE)
        <5>1. Letter(cmd, t[f + 1]) = {o}
          BY <3>1, <4>2 DEF x
        <5>2. tl = SubSeq(t, f + 2, Len(t)) /\ (tl = <<>> <=> f + 1 = Len(t))
          BY <2>8, <4>2 DEF tl
        <5> QED
          BY <2>9, <5>1, <5>2, Zenon
      <4>4. CASE tl # <<>>
        <5>1. dispatch_optarg(o, {Text(tl)}, FALSE, {}, 1)
          BY <2>14, <3>4, <4>4
        <5>2. f # Len(t) - 1
          BY <2>15, <2>16, <4>2, <4>4
        <5>3. ~WantsNext(cmd, w)
          BY <2>10, <5>2
        <5>4. ~WantsNext(cmd, Word)
          BY <2>2, <5>3
        <5>5. z = Use({o}, {Text(tl)}, FALSE)
          BY <4>3, <4>4
        <5>7. q \in Seq(D) /\ o \in Options(cmd)
          BY <2>7, <3>1
        <5> QED
          BY <1>1, <2>6, <3>2, <3>4, <4>2, <5>1, <5>4, <5>5, <5>7, UseOne
      <4>5. CASE tl = <<>> /\ argc > 1
        <5>1. dispatch_optarg(o, {mem[at + 1]}, FALSE, {}, 2)
          BY <2>14, <3>4, <4>5
        <5>2. WantsNext(cmd, Word)
          <6>1. f = Len(t) - 1
            BY <2>15, <2>16, <4>2, <4>5
          <6>2. WantsNext(cmd, w)
            BY <2>10, <6>1
          <6> QED
            BY <2>2, <6>2
        <5>3. Following(given, at) = {mem[at + 1]}
          BY <2>2, <4>5 DEF Following
        <5>4. z = Use({o}, {mem[at + 1]}, FALSE)
          BY <4>3, <4>5, <5>3
        <5>6. q \in Seq(D) /\ o \in Options(cmd)
          BY <2>7, <3>1
        <5> QED
          BY <1>1, <2>6, <3>2, <3>4, <4>2, <4>5, <5>1, <5>2, <5>4, <5>6, UseTwo
      <4>6. CASE tl = <<>> /\ ~(argc > 1)
        <5>1. ExitWith("error")
          BY <2>14, <3>4, <4>6
        <5>2. Following(given, at) = {}
          BY <2>2, <4>6 DEF Following
        <5>3. z = Use({o}, {}, FALSE)
          BY <4>3, <4>6, <5>2
        <5>4. ~Fine(z)
          BY <3>4, <5>3 DEF Fine, Use
        <5>5. result' = "error"
          BY <5>1 DEF ExitWith
        <5> QED
          BY <1>1, <2>6, <4>2, <5>4, <5>5, ErrorMeans
      <4> QED
        BY <4>4, <4>5, <4>6
    <3> QED
      BY <3>3, <3>4
  <2> QED
    BY <2>12, <2>13, <2>14
<1> QED
  BY <1>3, <1>4

\* A title that is dispatched calls no function.
LEMMA TitleWild ==
  ASSUME NEW v, NEW unset, NEW rest, NEW n, dispatch_optarg(Group, v, unset, rest, n)
  PROVE  result' = "wild"
<1>1. Group.type = "group"
  BY FieldsFact
<1> DEFINE o == Group
           became ==
             CASE o.type = "switch"  -> IF unset THEN 0 ELSE 1
               [] o.type = "countup" -> IF unset THEN 0 ELSE set[o.name] + 1
               [] o.type = "uint"    -> IF unset THEN {Text(<<"0">>)} ELSE v
               [] o.type = "string"  -> v
<1>2. (CASE o.type = "group" -> ExitWith("wild")
        [] o.type = "subcmd" -> ExitWith("bug")
        [] o.type = "uint" /\ v = {Text(<<>>)} -> ExitWith("bug")
        [] o.type = "uint" /\ \E w \in v : ~Number(w) /\ w # Text(<<>>) -> ExitWith("error")
        [] OTHER -> /\ set' = [set EXCEPT ![o.name] = became]
                    /\ next' = rest
                    /\ argc' = argc - n /\ at' = at + n
                    /\ UNCHANGED <<mem, outc, result>>)
  BY DEF dispatch_optarg
<1> HIDE DEF became
<1>3. ExitWith("wild")
  BY <1>1, <1>2, Zenon
<1> QED
  BY <1>3 DEF ExitWith

\* A long option, and its value.
LEMMA LongOptionMeans == Inv /\ Settings /\ Means /\ LongOption => Means'
<1> SUFFICES ASSUME Inv, Settings, Means, LongOption PROVE Means'
  OBVIOUS
<1>1. /\ Reading /\ result = "parsing" /\ UNCHANGED <<cmd, given, subcmd>> /\ argc > 0
      /\ next = {} /\ Word.k = "long" /\ Word # EndOfOptions
  BY DEF LongOption, Reading
<1>2. IF Meant(Word) = {} THEN ExitWith("error")
      ELSE \E o \in Meant(Word) :
             IF Word.val # {}
               THEN IF NoArg(o) \/ Word.no THEN ExitWith("error")
                    ELSE \E v \in Word.val : dispatch_optarg(o, {Text(v)}, FALSE, {}, 1)
             ELSE IF NoArg(o) \/ Word.no THEN dispatch_optarg(o, {}, Word.no, {}, 1)
             ELSE IF argc > 1 THEN dispatch_optarg(o, {mem[at + 1]}, FALSE, {}, 2)
             ELSE ExitWith("error")
  BY DEF LongOption
<1>3. CASE ~Plain(given)
  <2>1. ~Plain(given')
    BY <1>1, <1>3
  <2> QED
    BY <2>1 DEF Means, Mean, ParsedAsMeant, Plain
<1>4. CASE Plain(given)
  <2> DEFINE w == given[at]
             p == Uses(cmd, given, at - 1)
             z == LongUse(cmd, given, at)
             D == UsesOf(cmd, given) \cup {z}
  <2>1. AtWord /\ SoFar(cmd, given, at, next, set)
    BY <1>1, <1>4, AtFact DEF Means
  <2>2. /\ given \in Seq(Words) /\ Len(given) \in Nat /\ at \in 1..Len(given) /\ Word = w /\ w \in Words
        /\ argc > 1 <=> at + 1 <= Len(given)
        /\ argc > 1 => mem[at + 1] = given[at + 1]
    BY <1>1, ReadFact
  <2>3. Sets(cmd, p, set)
    BY <1>1, <2>1 DEF SoFar
  <2>4. ~IsValue(cmd, given)[at] /\ AtOption
    BY <1>1, <2>1 DEF AtWord, AtOption
  <2>5. w.k = "long" /\ IsText(w.text) /\ w.no \in BOOLEAN /\ (w.val = {} \/ \E v : w.val = {v})
    <3>1. IsWord(w) /\ IsText(w.text) /\ w.k = "long"
      BY <1>1, <2>2, WordsFact
    <3> HIDE DEF w
    <3> QED
      BY <3>1 DEF IsWord
  <2>6. p \in Seq(D) /\ Uses(cmd, given, at) = Append(p, z) /\ z \in Range(WordUses(cmd, given, at))
    <3>1. at - 1 \in 0..Len(given) /\ at - 1 < Len(given) /\ at - 1 + 1 = at
      BY <2>2
    <3>2. p \in Seq(UsesOf(cmd, given)) /\ Uses(cmd, given, at) = p \o WordUses(cmd, given, at)
      BY <2>2, <3>1, UsesFact
    <3>3. WordUses(cmd, given, at) = <<z>>
      BY <2>2, <2>4, <2>5, WordUsesFact
    <3>4. UsesOf(cmd, given) \subseteq D
      OBVIOUS
    <3> HIDE DEF p, z, D
    <3>5. p \in Seq(D)
      BY <3>2, <3>4
    <3>6. p \o <<z>> = Append(p, z) /\ z \in Range(<<z>>)
      <4>1. \A s \in Seq(D) : s \o <<z>> = Append(s, z)
        OBVIOUS
      <4> QED
        BY <3>5, <4>1, Table1Fact
    <3> QED
      BY <3>2, <3>3, <3>5, <3>6
  <2>7. z = Use(Fitting(cmd, w), IF w.val # {} THEN {Text(v) : v \in w.val} ELSE IF WantsNext(cmd, w) THEN Following(given, at) ELSE {}, w.no)
    BY Zenon DEF LongUse
  <2>8. WantsNext(cmd, w) <=> ~w.no /\ w.val = {} /\ Cardinality(Fitting(cmd, w)) = 1 /\ \A o \in Fitting(cmd, w) : ~NoArg(o)
    BY <2>5 DEF WantsNext
  <2>9. \/ Meant(w) = {} /\ Cardinality(Fitting(cmd, w)) # 1
        \/ \E o \in Options(cmd) : Meant(w) = {o} /\ Fitting(cmd, w) = {o} /\ o.neg = w.no
        \/ Meant(w) = {Group} /\ Fitting(cmd, w) = {}
    BY <2>5, LongFact
  <2> HIDE DEF w, p, z, D
  <2>10. ASSUME Cardinality(Fitting(cmd, w)) # 1 PROVE ~Fine(z)
    <3>1. z.opts = Fitting(cmd, w)
      BY <2>7 DEF Use
    <3> QED
      BY <2>10, <3>1 DEF Fine
  <2>11. ASSUME ExitWith("error"), ~Fine(z) PROVE Means'
    <3>1. result' = "error"
      BY <2>11 DEF ExitWith
    <3> QED
      BY <1>1, <2>4, <2>6, <2>11, <3>1, ErrorMeans
  <2>12. CASE Meant(w) = {} /\ Cardinality(Fitting(cmd, w)) # 1
    <3>1. ExitWith("error")
      BY <1>2, <2>2, <2>12
    <3> QED
      BY <2>10, <2>11, <2>12, <3>1
  <2>13. CASE Meant(w) = {Group} /\ Fitting(cmd, w) = {}
    <3>1. Cardinality({}) = 0
      BY FS_EmptySet
    <3>2. ~Fine(z)
      BY <2>10, <2>13, <3>1
    <3>3. \/ ExitWith("error")
          \/ \E v, unset, n : dispatch_optarg(Group, v, unset, {}, n)
      <4>1. Meant(Word) = {Group}
        BY <2>2, <2>13
      <4>2. IF Word.val # {}
              THEN IF NoArg(Group) \/ Word.no THEN ExitWith("error")
                   ELSE \E v \in Word.val : dispatch_optarg(Group, {Text(v)}, FALSE, {}, 1)
            ELSE IF NoArg(Group) \/ Word.no THEN dispatch_optarg(Group, {}, Word.no, {}, 1)
            ELSE IF argc > 1 THEN dispatch_optarg(Group, {mem[at + 1]}, FALSE, {}, 2)
            ELSE ExitWith("error")
        BY <1>2, <4>1
      <4> QED
        BY <4>2, Zenon
    <3>4. ASSUME NEW v, NEW unset, NEW n, dispatch_optarg(Group, v, unset, {}, n) PROVE Means'
      BY <3>4, TitleWild, OtherMeans
    <3> QED
      BY <2>11, <3>2, <3>3, <3>4
  <2>14. ASSUME NEW o \in Options(cmd), Meant(w) = {o}, Fitting(cmd, w) = {o}, o.neg = w.no PROVE Means'
    <3>1. w.no => o.type = "switch" /\ NoArg(o)
      <4>1. o \in Options7
        BY OptionsFact, NamesFact
      <4> QED
        BY <2>14, <4>1, NamesFact DEF NoArg
    <3>2. Cardinality({o}) = 1
      BY FS_Singleton
    <3>3. \/ w.val # {} /\ (NoArg(o) \/ w.no) /\ ExitWith("error")
          \/ w.val # {} /\ ~(NoArg(o) \/ w.no) /\ \E v \in w.val : dispatch_optarg(o, {Text(v)}, FALSE, {}, 1)
          \/ w.val = {} /\ (NoArg(o) \/ w.no) /\ dispatch_optarg(o, {}, w.no, {}, 1)
          \/ w.val = {} /\ ~(NoArg(o) \/ w.no) /\ argc > 1 /\ dispatch_optarg(o, {mem[at + 1]}, FALSE, {}, 2)
          \/ w.val = {} /\ ~(NoArg(o) \/ w.no) /\ ~(argc > 1) /\ ExitWith("error")
      BY <1>2, <2>2, <2>14, Zenon
    <3>4. CASE w.val # {} /\ (NoArg(o) \/ w.no) /\ ExitWith("error")
      <4>1. z = Use({o}, {Text(v) : v \in w.val}, w.no)
        BY <2>7, <2>14, <3>4
      <4>2. {Text(v) : v \in w.val} # {}
        BY <3>4
      <4>3. ~Fine(z)
        BY <3>4, <4>1, <4>2 DEF Fine, Use
      <4> QED
        BY <2>11, <3>4, <4>3
    <3>5. ASSUME w.val # {}, ~(NoArg(o) \/ w.no), NEW v \in w.val, dispatch_optarg(o, {Text(v)}, FALSE, {}, 1) PROVE Means'
      <4>1. w.val = {v} /\ w.no = FALSE
        BY <2>5, <3>5
      <4>2. {Text(y) : y \in w.val} = {Text(v)}
        BY <4>1
      <4>3. z = Use({o}, {Text(v)}, FALSE)
        BY <2>7, <2>14, <3>5, <4>1, <4>2
      <4>4. ~WantsNext(cmd, w)
        BY <2>8, <3>5
      <4>5. ~WantsNext(cmd, Word)
        BY <2>2, <4>4
      <4> QED
        BY <1>1, <2>3, <2>4, <2>6, <3>5, <4>3, <4>5, UseOne
    <3>6. CASE w.val = {} /\ (NoArg(o) \/ w.no) /\ dispatch_optarg(o, {}, w.no, {}, 1)
      <4>1. ~WantsNext(cmd, w)
        BY <2>8, <2>14, <3>6
      <4>2. z = Use({o}, {}, w.no)
        BY <2>7, <2>14, <3>6, <4>1
      <4>3. ~WantsNext(cmd, Word)
        BY <2>2, <4>1
      <4> DEFINE unset == w.no
      <4>4. /\ unset \in BOOLEAN /\ (unset => o.type = "switch") /\ (NoArg(o) \/ unset)
            /\ dispatch_optarg(o, {}, unset, {}, 1)
            /\ z = Use({o}, {}, unset)
        BY <2>5, <3>1, <3>6, <4>2
      <4> HIDE DEF unset
      <4> QED
        BY <1>1, <2>3, <2>4, <2>6, <4>3, <4>4, UseNone
    <3>7. CASE w.val = {} /\ ~(NoArg(o) \/ w.no) /\ argc > 1 /\ dispatch_optarg(o, {mem[at + 1]}, FALSE, {}, 2)
      <4>1. WantsNext(cmd, w) /\ w.no = FALSE
        BY <2>5, <2>8, <2>14, <3>2, <3>7
      <4>2. Following(given, at) = {mem[at + 1]}
        BY <2>2, <3>7 DEF Following
      <4>3. z = Use({o}, {mem[at + 1]}, FALSE)
        BY <2>7, <2>14, <3>7, <4>1, <4>2
      <4>4. WantsNext(cmd, Word)
        BY <2>2, <4>1
      <4> QED
        BY <1>1, <2>3, <2>4, <2>6, <3>7, <4>3, <4>4, UseTwo
    <3>8. CASE w.val = {} /\ ~(NoArg(o) \/ w.no) /\ ~(argc > 1) /\ ExitWith("error")
      <4>1. WantsNext(cmd, w) /\ w.no = FALSE
        BY <2>5, <2>8, <2>14, <3>2, <3>8
      <4>2. Following(given, at) = {}
        BY <2>2, <3>8 DEF Following
      <4>3. z = Use({o}, {}, FALSE)
        BY <2>7, <2>14, <3>8, <4>1, <4>2
      <4>4. ~Fine(z)
        BY <3>8, <4>3 DEF Fine, Use
      <4> QED
        BY <2>11, <3>8, <4>4
    <3> QED
      BY <3>3, <3>4, <3>5, <3>6, <3>7, <3>8
  <2> QED
    BY <2>9, <2>12, <2>13, <2>14
<1> QED
  BY <1>3, <1>4

\* An operand is moved behind the others.
LEMMA OperandMeans == Inv /\ Means /\ Operand => Means'
<1> SUFFICES ASSUME Inv, Means, Operand PROVE Means'
  OBVIOUS
<1>1. /\ Reading /\ result = "parsing" /\ next = {} /\ argc > 0 /\ Word.k = "text"
      /\ ~AP_STOPAT_NONOPT(cmd) /\ ~AP_COMMAND_MODE(cmd)
      /\ mem' = [mem EXCEPT ![outc + 1] = Word] /\ outc' = outc + 1
      /\ argc' = argc - 1 /\ at' = at + 1
      /\ UNCHANGED <<cmd, given, next, set, subcmd, result>>
  BY DEF Operand, Reading
<1> SUFFICES ASSUME Plain(given) PROVE Reads(cmd, given, at, outc, next, mem, set)'
  BY <1>1 DEF Means, Mean, ParsedAsMeant
<1> DEFINE w == given[at]
           p == Uses(cmd, given, at - 1)
           m == mem'
<1>2. AtWord /\ SoFar(cmd, given, at, next, set)
  BY <1>1, AtFact DEF Means
<1>3. /\ given \in Seq(Words) /\ Len(given) \in Nat /\ at \in 1..Len(given) /\ Word = w /\ w \in Words /\ w.k = "text"
  BY <1>1, ReadFact
<1>4. Sets(cmd, p, set)
  BY <1>1, <1>2 DEF SoFar
<1>5. ~IsValue(cmd, given)[at] /\ (\A j \in 1..at - 1 : ~Stops(cmd, given, j))
      /\ SubSeq(mem, 1, outc) = Operands(cmd, given, at - 1)
  BY <1>2 DEF AtWord
<1>6. ~Stops(cmd, given, at)
  <2>1. EndOfOptions.k = "long"
    BY DEF EndOfOptions, Long
  <2>2. w # EndOfOptions
    BY <1>3, <2>1
  <2> QED
    BY <1>1, <1>3, <2>2 DEF Stops
<1>7. ~WantsNext(cmd, w)
  BY <1>3 DEF WantsNext
<1>8. at + 1 <= Len(given) => ~IsValue(cmd, given)[at + 1]
  <2> SUFFICES ASSUME at + 1 <= Len(given) PROVE ~IsValue(cmd, given)[at + 1]
    OBVIOUS
  <2>1. at \in 1..Len(given) - 1
    BY <1>3
  <2>2. \A j \in 1..Len(given) - 1 : IsValue(cmd, given)[j + 1] <=> WantsNext(cmd, given[j]) /\ ~IsValue(cmd, given)[j]
    BY <1>3, ValueFact
  <2> QED
    BY <1>7, <2>1, <2>2
<1>9. at - 1 \in 0..Len(given) /\ at - 1 < Len(given) /\ at - 1 + 1 = at /\ at + 1 \in 1..Len(given) + 1 /\ at + 1 - 1 = at
  BY <1>3
<1>10. Operands(cmd, given, at) = Append(Operands(cmd, given, at - 1), w)
  BY <1>3, <1>5, <1>9, OperandsFact
<1>11. Uses(cmd, given, at) = p
  <2>1. p \in Seq(UsesOf(cmd, given)) /\ Uses(cmd, given, at) = p \o WordUses(cmd, given, at)
    BY <1>3, <1>9, UsesFact
  <2>2. WordUses(cmd, given, at) = <<>>
    BY <1>3, WordUsesFact
  <2> HIDE DEF p
  <2>3. p \o <<>> = p
    BY <2>1
  <2> QED
    BY <2>1, <2>2, <2>3
<1>12. SubSeq(m, 1, outc + 1) = Append(SubSeq(mem, 1, outc), w)
  <2>1. mem \in Seq(Words) /\ outc \in Nat /\ outc + 1 <= Len(mem) /\ Len(mem) \in Nat
    <3>1. /\ mem \in Seq(Words) /\ argc \in Nat /\ at \in Nat /\ outc \in Nat
          /\ Len(given) =< Len(mem) /\ outc < at
      BY <1>1 DEF Inv, Arrays, Counted, Behindhand, UnreadUntouched
    <3> QED
      BY <1>3, <3>1
  <2>2. m = [mem EXCEPT ![outc + 1] = w]
    BY <1>1, <1>3
  <2> HIDE DEF m, w
  <2>3. m \in Seq(Words) /\ Len(m) = Len(mem) /\ m[outc + 1] = w /\ \A j \in 1..outc : m[j] = mem[j]
    BY <1>3, <2>1, <2>2
  <2>4. SubSeq(m, 1, outc + 1) = Append(SubSeq(m, 1, outc), m[outc + 1])
    <3>1. \A k \in 0..Len(m) - 1 : SubSeq(m, 1, k + 1) = Append(SubSeq(m, 1, k), m[k + 1])
      BY <2>3, PrefixFact
    <3>2. outc \in 0..Len(m) - 1
      BY <2>1, <2>3
    <3> QED
      BY <3>1, <3>2
  <2> DEFINE s1 == SubSeq(m, 1, outc)
             s2 == SubSeq(mem, 1, outc)
  <2>5. s1 \in Seq(Words) /\ Len(s1) = outc /\ \A j \in 1..outc : s1[j] = m[j]
    BY <2>1, <2>3
  <2>6. s2 \in Seq(Words) /\ Len(s2) = outc /\ \A j \in 1..outc : s2[j] = mem[j]
    BY <2>1
  <2> HIDE DEF s1, s2
  <2>7. s1 = s2
    BY <2>1, <2>3, <2>5, <2>6, SeqEqual
  <2> QED
    BY <2>3, <2>4, <2>7 DEF s1, s2
<1>13. \A j \in 1..at : ~Stops(cmd, given, j)
  <2>1. \A j \in 1..at : j \in 1..at - 1 \/ j = at
    BY <1>3
  <2> QED
    BY <1>5, <1>6, <2>1
<1> HIDE DEF m, p, w
<1>14. Reads(cmd, given, at + 1, outc + 1, {}, m, set)
  <2>1. SubSeq(m, 1, outc + 1) = Operands(cmd, given, at + 1 - 1)
    BY <1>5, <1>9, <1>10, <1>12
  <2>3. SoFar(cmd, given, at + 1, {}, set)
    <3> DEFINE b == at + 1
    <3>0. b - 1 = at
      BY <1>9
    <3>1. Sets(cmd, Uses(cmd, given, b - 1), set)
      BY <1>4, <1>11, <3>0
    <3> HIDE DEF b
    <3>2. SoFar(cmd, given, b, {}, set)
      BY <3>1, Zenon DEF SoFar
    <3> QED
      BY <3>2 DEF b
  <2>4. \A j \in 1..at + 1 - 1 : ~Stops(cmd, given, j)
    BY <1>9, <1>13
  <2> QED
    BY <1>8, <1>9, <2>1, <2>3, <2>4 DEF Reads
<1> QED
  BY <1>1, <1>14 DEF m

\* What is not a command is said of the words and the options as they are when they have been read.
LEMMA ParsedFact ==
  ASSUME UNCHANGED <<cmd, given>>, result' = "parsed",
         Plain(given) =>
           /\ \A u \in Range(AllUses(cmd, given)) : Fine(u)
           /\ SubSeq(mem', 1, argc') = MeantOperands(cmd, given)
           /\ \A o \in Options(cmd) :
                set'[o.name] = MeantSetting(AllUses(cmd, given), o) \/ (AP_COMMAND_MODE(cmd) /\ o.name \in Command)
  PROVE  Means'
<1>1. Plain(given) <=> \A j \in DOMAIN given : given[j] # Short(<<>>)
  BY DEF Plain
<1>2. Command' = Command
  BY DEF Command
<1> QED
  BY <1>1, <1>2 DEF Means, Mean, Reading, ParsedAsMeant

\* The options end: the words left are the last operands.
LEMMA StopMeans ==
  ASSUME Inv, Means, Plain(given), Reading, next = {}, NEW n \in {0, 1}, n =< argc, ParseDone(n),
         argc = 0 \/ Stops(cmd, given, at),
         n = 0 => argc = 0 \/ (AP_STOPAT_NONOPT(cmd) /\ given[at].k = "text"),
         n = 1 => ~(AP_STOPAT_NONOPT(cmd) /\ given[at].k = "text")
  PROVE  /\ Stop(cmd, given) = at /\ Sets(cmd, AllUses(cmd, given), set)
         /\ SubSeq(mem', 1, argc') = MeantOperands(cmd, given)
<1>1. Reads(cmd, given, at, outc, next, mem, set)
  BY DEF Means, Mean
<1>2. /\ given \in Seq(Words) /\ Len(given) \in Nat /\ argc \in Nat /\ at \in 1..Len(given) + 1 /\ result = "parsing"
      /\ argc = 0 <=> at = Len(given) + 1
  BY DEF Inv, Arrays, Counted, Reading
<1>3. Stop(cmd, given) = at
  BY <1>1, <1>2, StopFact DEF Reads
<1>4. Sets(cmd, Uses(cmd, given, at - 1), set)
  BY <1>1 DEF Reads, SoFar
<1>5. AllUses(cmd, given) = Uses(cmd, given, at - 1)
  BY <1>3, Zenon DEF AllUses
<1>6. SubSeq(mem', 1, argc') = Operands(cmd, given, at - 1) \o SubSeq(given, at + n, Len(given))
  <2>1. SubSeq(mem', 1, argc') = SubSeq(mem, 1, outc) \o SubSeq(given, at + n, Len(given))
    BY <1>2, DoneFact
  <2>2. SubSeq(mem, 1, outc) = Operands(cmd, given, at - 1)
    BY <1>1 DEF Reads
  <2> QED
    BY <2>1, <2>2
<1> DEFINE stays == AP_STOPAT_NONOPT(cmd) /\ at <= Len(given) /\ given[at].k = "text"
<1>7. MeantOperands(cmd, given) = Operands(cmd, given, at - 1) \o SubSeq(given, IF stays THEN at ELSE at + 1, Len(given))
  BY <1>3, Zenon DEF MeantOperands
<1>8. CASE at = Len(given) + 1
  <2>1. ~stays /\ n = 0
    BY <1>2, <1>8
  <2>2. SubSeq(given, at + 1, Len(given)) = SubSeq(given, at + 0, Len(given))
    <3>1. SubSeq(given, at + 1, Len(given)) = <<>>
      BY <1>2, <1>8
    <3>2. SubSeq(given, at + 0, Len(given)) = <<>>
      BY <1>2, <1>8
    <3> QED
      BY <3>1, <3>2
  <2> HIDE DEF stays
  <2> QED
    BY <1>3, <1>4, <1>5, <1>6, <1>7, <2>1, <2>2
<1>9. CASE at # Len(given) + 1
  <2>1. stays <=> n = 0
    <3>1. at <= Len(given) /\ argc # 0
      BY <1>2, <1>9
    <3> QED
      BY <3>1
  <2>2. (IF stays THEN at ELSE at + 1) = at + n
    <3> HIDE DEF stays
    <3> QED
      BY <1>2, <2>1
  <2> HIDE DEF stays
  <2> QED
    BY <1>3, <1>4, <1>5, <1>6, <1>7, <2>2
<1> QED
  BY <1>8, <1>9

\* The parser stops.
LEMMA StopParseMeans == Inv /\ Means /\ StopParse => Means'
<1> SUFFICES ASSUME Inv, Means, StopParse PROVE Means'
  OBVIOUS
<1>1. Reading /\ next = {} /\ UNCHANGED <<cmd, given, next, set, subcmd>> /\ result = "parsing"
  BY DEF StopParse, Reading
<1>2. PICK n \in {0, 1} :
        /\ n =< argc /\ ParseDone(n)
        /\ \/ n = 0 /\ argc = 0
           \/ n = 1 /\ argc > 0 /\ Word = EndOfOptions
           \/ n = 0 /\ argc > 0 /\ Word.k = "text" /\ AP_STOPAT_NONOPT(cmd)
  BY DEF StopParse, Inv, Arrays
<1>3. result' \in {"usage", "parsed"}
  BY <1>2 DEF ParseDone
<1>4. CASE result' = "usage"
  BY <1>4, OtherMeans
<1>5. CASE result' = "parsed"
  <2>1. ASSUME Plain(given)
        PROVE  /\ \A u \in Range(AllUses(cmd, given)) : Fine(u)
               /\ SubSeq(mem', 1, argc') = MeantOperands(cmd, given)
               /\ \A o \in Options(cmd) : set'[o.name] = MeantSetting(AllUses(cmd, given), o)
    <3>1. argc > 0 => /\ ~IsValue(cmd, given)[at] /\ Word = given[at] /\ at \in 1..Len(given)
      BY <1>1, <2>1, AtFact, ReadFact DEF Means, AtWord
    <3>2. EndOfOptions.k = "long"
      BY DEF EndOfOptions, Long
    <3>3. argc = 0 \/ Stops(cmd, given, at)
      BY <1>2, <3>1 DEF Stops
    <3>4. /\ n = 0 => argc = 0 \/ (AP_STOPAT_NONOPT(cmd) /\ given[at].k = "text")
          /\ n = 1 => ~(AP_STOPAT_NONOPT(cmd) /\ given[at].k = "text")
      BY <1>2, <3>1, <3>2
    <3>5. Sets(cmd, AllUses(cmd, given), set) /\ SubSeq(mem', 1, argc') = MeantOperands(cmd, given)
      BY <1>1, <1>2, <2>1, <3>3, <3>4, StopMeans
    <3>6. set' = set
      BY <1>1
    <3> QED
      BY <3>5, <3>6 DEF Sets
  <2> QED
    BY <1>1, <1>5, <2>1, ParsedFact
<1> QED
  BY <1>3, <1>4, <1>5

\* The word that stands for a command.
LEMMA SubcommandMeans == Inv /\ Means /\ Subcommand => Means'
<1> SUFFICES ASSUME Inv, Means, Subcommand PROVE Means'
  OBVIOUS
<1> DEFINE is == {p \in DOMAIN option : option[p].type # "group" /\ option[p].name = Word.text}
           found == FirstOption(is)
<1>1. /\ Reading /\ result = "parsing" /\ next = {} /\ argc > 0 /\ Word.k = "text" /\ AP_COMMAND_MODE(cmd)
      /\ UNCHANGED <<cmd, given, next>>
  BY DEF Subcommand, Reading
<1>2. \/ found = {} /\ result' = "error"
      \/ \E o \in found :
           /\ set' = IF o.type = "subcmd" THEN set ELSE [set EXCEPT ![o.name] = {}]
           /\ ParseDone(1)
  BY DEF Subcommand
<1>3. /\ given \in Seq(Words) /\ Len(given) \in Nat /\ at \in 1..Len(given) /\ Word = given[at]
  BY <1>1, ReadFact
<1>4. ~(AP_STOPAT_NONOPT(cmd) /\ given[at].k = "text")
  BY <1>1 DEF AP_STOPAT_NONOPT, AP_COMMAND_MODE
<1>5. Plain(given) => /\ ~IsValue(cmd, given)[at] /\ (\A j \in 1..at - 1 : ~Stops(cmd, given, j))
                      /\ Stops(cmd, given, at)
  <2> SUFFICES ASSUME Plain(given) PROVE ~IsValue(cmd, given)[at] /\ (\A j \in 1..at - 1 : ~Stops(cmd, given, j)) /\ Stops(cmd, given, at)
    OBVIOUS
  <2>1. AtWord
    BY <1>1, AtFact DEF Means
  <2> QED
    BY <1>1, <1>3, <2>1 DEF AtWord, Stops
<1>6. is \subseteq DOMAIN option
  OBVIOUS
<1>7. /\ \A o \in found : o.type # "group" /\ o.name = Word.text
      /\ found \subseteq Range(option)
      /\ found = {} => \A o \in Range(option) : o.type = "group" \/ o.name # Word.text
  <2>1. \A o \in found : \E p \in is : o = option[p]
    BY DEF FirstOption
  <2>2. \A p \in is : option[p].type # "group" /\ option[p].name = Word.text
    OBVIOUS
  <2>3. \A p \in DOMAIN option : p \in is \/ option[p].type = "group" \/ option[p].name # Word.text
    OBVIOUS
  <2>4. \A o \in Range(option) : \E p \in DOMAIN option : o = option[p]
    BY DEF Range
  <2> HIDE DEF is
  <2>5. found = {} => is = {}
    BY <1>6, FirstFact
  <2> HIDE DEF found
  <2>6. \A o \in found : o.type # "group" /\ o.name = Word.text
    BY <2>1, <2>2
  <2>7. found \subseteq Range(option)
    BY <1>6, EntryFact DEF found
  <2> QED
    BY <2>3, <2>4, <2>5, <2>6, <2>7
<1>8. Plain(given) => Command = {Word.text}
  <2> SUFFICES ASSUME Plain(given) PROVE Command = {Word.text}
    OBVIOUS
  <2>1. at \in 1..Len(given) + 1
    BY <1>3
  <2>2. Stop(cmd, given) = at
    BY <1>3, <1>5, <2>1, StopFact
  <2>3. {Stop(cmd, given)} \cap DOMAIN given = {at}
    BY <1>3, <2>2
  <2> QED
    BY <1>3, <2>3 DEF Command
<1> HIDE DEF is, found
<1>9. CASE found = {} /\ result' = "error"
  <2>1. Plain(given) => \E t \in Command : \A o \in Range(option) : o.type = "group" \/ o.name # t
    BY <1>7, <1>8, <1>9
  <2>2. Command' = Command /\ option' = option
    BY <1>1 DEF Command, option
  <2> QED
    BY <1>1, <1>9, <2>1, <2>2 DEF Means, Mean, Reading, ParsedAsMeant, Plain
<1>10. ASSUME NEW o \in found, set' = IF o.type = "subcmd" THEN set ELSE [set EXCEPT ![o.name] = {}], ParseDone(1)
       PROVE  Means'
  <2>1. result' \in {"usage", "parsed"}
    BY <1>10 DEF ParseDone
  <2>2. ASSUME Plain(given), NEW p \in Options(cmd)
        PROVE  set'[p.name] = set[p.name] \/ p.name \in Command
    <3>1. CASE p.name = o.name
      BY <1>7, <1>8, <2>2, <3>1
    <3>2. CASE p.name # o.name
      BY <1>10, <3>2
    <3> QED
      BY <3>1, <3>2
  <2>3. ASSUME Plain(given)
        PROVE  /\ \A u \in Range(AllUses(cmd, given)) : Fine(u)
               /\ SubSeq(mem', 1, argc') = MeantOperands(cmd, given)
               /\ \A p \in Options(cmd) :
                    set'[p.name] = MeantSetting(AllUses(cmd, given), p) \/ (AP_COMMAND_MODE(cmd) /\ p.name \in Command)
    <3>1. 1 =< argc
      BY <1>1 DEF Inv, Arrays
    <3>2. Sets(cmd, AllUses(cmd, given), set) /\ SubSeq(mem', 1, argc') = MeantOperands(cmd, given)
      BY <1>1, <1>4, <1>5, <1>10, <2>3, <3>1, StopMeans
    <3> QED
      BY <1>1, <2>2, <2>3, <3>2 DEF Sets
  <2>4. CASE result' = "usage"
    BY <2>4, OtherMeans
  <2>5. CASE result' = "parsed"
    BY <1>1, <2>3, <2>5, ParsedFact
  <2> QED
    BY <2>1, <2>4, <2>5
<1> QED
  BY <1>2, <1>9, <1>10

\* Nothing has been read yet.
LEMMA NothingRead ==
  ASSUME NEW c, NEW line, NEW m, NEW s,
         1 \in 1..Len(line) + 1, 1 <= Len(line) => ~IsValue(c, line)[1],
         Uses(c, line, 0) = <<>>, Operands(c, line, 0) = <<>>, SubSeq(m, 1, 0) = <<>>, Sets(c, <<>>, s)
  PROVE  Reads(c, line, 1, 0, {}, m, s)
<1> DEFINE a == 1
           b == a - 1
<1>1. b = 0 /\ \A j \in 1..b : ~Stops(c, line, j)
  OBVIOUS
<1>2. a \in 1..Len(line) + 1 /\ (a <= Len(line) => ~IsValue(c, line)[a])
  OBVIOUS
<1> HIDE DEF b
<1>3. Sets(c, Uses(c, line, b), s) /\ SubSeq(m, 1, 0) = Operands(c, line, b)
  BY <1>1
<1>4. SoFar(c, line, a, {}, s)
  <2> HIDE DEF a
  <2> QED
    BY <1>3, Zenon DEF SoFar, b
<1> HIDE DEF a
<1>5. Reads(c, line, a, 0, {}, m, s)
  BY <1>1, <1>2, <1>3, <1>4, Zenon DEF Reads, b
<1> QED
  BY <1>5 DEF a

\* The next command begins with nothing read and its options as they were at first.
LEMMA RunCommandMeans == Inv /\ Settings /\ RunCommand => Means'
<1> SUFFICES ASSUME Inv, Settings, RunCommand PROVE Means'
  OBVIOUS
<1>1. /\ result = "parsed" /\ cmd \in {"main", "query"} /\ cmd' = subcmd
      /\ given' = SubSeq(mem, 1, argc) /\ result' = "parsing"
      /\ UNCHANGED <<mem, argc, at, outc, next, set>>
  BY DEF RunCommand, AP_COMMAND_MODE
<1>2. at = 1 /\ outc = 0 /\ argc =< Len(mem) /\ next = {} /\ argc \in Nat /\ mem \in Seq(Words)
  BY <1>1 DEF Inv, Arrays, LeftInFront
<1> DEFINE g == SubSeq(mem, 1, argc)
           c == subcmd
<1>3. g \in Seq(Words) /\ Len(g) = argc
  BY <1>2
<1> SUFFICES ASSUME TRUE PROVE Reads(c, g, 1, 0, {}, mem, set)
  BY <1>1, <1>2 DEF Means, Mean, ParsedAsMeant
<1>4. Uses(c, g, 0) = <<>> /\ Operands(c, g, 0) = <<>>
  <2>1. 0 \in 0..Len(g)
    BY <1>2, <1>3
  <2> HIDE DEF g, c
  <2> QED
    BY <1>3, <2>1, UsesFact, OperandsFact
<1>5. ASSUME NEW o \in Options(c) PROVE set[o.name] = MeantSetting(<<>>, o)
  <2>1. c \in {"copy", "sizeof"}
    <3>1. OptionsOf(c) # {}
      BY <1>5, OptionsFact
    <3>2. c # "main"
      BY DEF Settings
    <3> QED
      BY <3>1, <3>2 DEF OptionsOf
  <2>2. c # cmd
    BY <1>1, <2>1
  <2>3. o \in OptionsOf(c)
    BY <1>5, OptionsFact
  <2>4. set[o.name] = Unset(o)
    BY <2>1, <2>2, <2>3 DEF Settings
  <2> QED
    BY <2>4, SettingFirst
<1>6. Sets(c, <<>>, set)
  <2>1. Range(<<>>) = {}
    BY DEF Range
  <2> HIDE DEF c
  <2> QED
    BY <1>5, <2>1 DEF Sets
<1>7. ~IsValue(c, g)[1] \/ Len(g) = 0
  BY <1>3, ValueFact
<1>8. SubSeq(mem, 1, 0) = <<>>
  BY <1>2
<1>9. 1 \in 1..Len(g) + 1 /\ 1 - 1 = 0 /\ (1 <= Len(g) => ~IsValue(c, g)[1])
  BY <1>2, <1>3, <1>7
<1> HIDE DEF c, g
<1> QED
  BY <1>4, <1>6, <1>8, <1>9, NothingRead

LEMMA InitMeans == Init => Means
<1> SUFFICES ASSUME Init PROVE Means
  OBVIOUS
<1>1. Inv
  BY InitInv
<1>2. /\ cmd = "main" /\ result = "parsing" /\ at = 1 /\ outc = 0 /\ next = {}
  BY DEF Init
<1>3. given \in Seq(Words) /\ mem \in Seq(Words) /\ Len(given) \in Nat
  BY <1>1 DEF Inv, Arrays
<1>4. 0 \in 0..Len(given)
  BY <1>3
<1>5. Uses(cmd, given, 0) = <<>> /\ Operands(cmd, given, 0) = <<>>
  BY <1>3, <1>4, UsesFact, OperandsFact
<1>6. ASSUME NEW o \in Options(cmd) PROVE set[o.name] = MeantSetting(<<>>, o)
  <2>1. o \in {dotsav_o, log_o}
    BY <1>2, <1>6, OptionsFact DEF OptionsOf
  <2>2. o.type = "string"
    BY <2>1, FieldsFact
  <2>3. Unset(o) = {}
    BY <2>2 DEF Unset
  <2>4. set[o.name] = {}
    <3>1. set = [n \in Names7 |->
               IF n \in {<<"f", "o">>, <<"f", "r">>} THEN 0 ELSE IF n \in {<<"d", "i">>, <<"f", "i">>} THEN 1 ELSE {}]
      BY DEF Init, Names7
    <3>2. o.name \in Names7
      BY <2>1, NamesFact DEF Options7
    <3>3. o.name \notin {force_o.name, from_o.name} /\ o.name \notin {dir_o.name, file_o.name}
      BY <2>1, NamePairs
    <3>4. /\ force_o.name = <<"f", "o">> /\ from_o.name = <<"f", "r">>
          /\ dir_o.name = <<"d", "i">> /\ file_o.name = <<"f", "i">>
      BY FieldsFact, Zenon
    <3>5. o.name \notin {<<"f", "o">>, <<"f", "r">>} /\ o.name \notin {<<"d", "i">>, <<"f", "i">>}
      BY <3>3, <3>4, Zenon
    <3> QED
      BY <3>1, <3>2, <3>5, Zenon
  <2> QED
    BY <2>3, <2>4, SettingFirst
<1>7. Sets(cmd, <<>>, set)
  <2>1. Range(<<>>) = {}
    BY DEF Range
  <2> QED
    BY <1>6, <2>1 DEF Sets
<1>8. ~IsValue(cmd, given)[1] \/ Len(given) = 0
  BY <1>3, ValueFact
<1>9. SubSeq(mem, 1, 0) = <<>>
  BY <1>3
<1>10. 1 \in 1..Len(given) + 1 /\ 1 - 1 = 0 /\ (1 <= Len(given) => ~IsValue(cmd, given)[1])
  BY <1>3, <1>8
<1>11. Reads(cmd, given, 1, 0, {}, mem, set)
  BY <1>5, <1>7, <1>9, <1>10, NothingRead
<1> QED
  BY <1>2, <1>11 DEF Means, Mean, ParsedAsMeant

\* Every step of the parser does what the words say.
LEMMA MeansStep == Inv /\ Settings /\ Means /\ [Next]_vars => Means'
<1> SUFFICES ASSUME Inv, Settings, Means, [Next]_vars PROVE Means'
  OBVIOUS
<1>1. CASE PromptHelp
  BY <1>1, OtherMeans DEF PromptHelp, ExitWith
<1>2. CASE NoCommand
  BY <1>2, OtherMeans DEF NoCommand
<1>3. CASE StartWork
  <2>1. result' \in {"died", "run"}
    BY <1>3 DEF StartWork, cmd_copy, copy_sav, copy_multisrc
  <2> QED
    BY <2>1, OtherMeans
<1>4. CASE Done \/ UNCHANGED vars
  <2>1. UNCHANGED vars
    BY <1>4 DEF Done
  <2> QED
    BY <2>1 DEF vars, Means, Mean, Reading, ParsedAsMeant, Command, option
<1> QED
  BY <1>1, <1>2, <1>3, <1>4, ShortWordMeans, ShortOptionMeans, LongOptionMeans, OperandMeans, StopParseMeans,
     SubcommandMeans, RunCommandMeans DEF Next

\* What the command line is taken for is what it says, whatever its words and however many of them:
\* no operand is lost, doubled, taken for a value or moved before another, each option has the last
\* value it was given, and what is refused has a word that fits nothing, lacks its value, or has
\* one that str2uint() does not take for a number in its range.
THEOREM CommandLinesAreMeant == TextsSpec => []ParsedAsMeant
<1> DEFINE J == NoCommandLine \/ (Inv /\ Settings /\ Means)
<1>1. TextsInit => J
  BY InitInv, InitSettings, InitMeans DEF TextsInit
<1>2. J /\ [TextsNext]_<<vars, buffer, message>> => J'
  <2>1. [TextsNext]_<<vars, buffer, message>> => [Next]_vars
    BY DEF TextsNext
  <2> QED
    BY <2>1, NoLineStep, NextInv, SettingsStep, MeansStep
<1>3. J => ParsedAsMeant
  BY DEF NoCommandLine, Means, ParsedAsMeant
<1> QED
  BY <1>1, <1>2, <1>3, PTL DEF TextsSpec

=============================================================================
