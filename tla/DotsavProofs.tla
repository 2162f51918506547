----------------------------- MODULE DotsavProofs ----------------------------
(***************************************************************************)
(* Whatever the dotsav, the configurations the commands get are complete   *)
(* and as the file says, have names of their own, the scheduler can tell   *)
(* them apart, and they do not rotate each other's backups.                *)
(***************************************************************************)
EXTENDS Dotsav, FiniteSetTheorems, SequenceTheorems, TLAPS

\* The parts of the invariant: what an entry's bit is, and the names.
BitsByPlace == \A i \in DOMAIN savarr : /\ savarr[i].idx = (i - 1) \div WordSize
                                        /\ savarr[i].pos = (i - 1) % WordSize
NamesApart == \A i, j \in DOMAIN savarr : savarr[i].name = savarr[j].name => i = j
Parsed == state = "done" => savarr # <<>> /\ \A i \in DOMAIN savarr : Complete(savarr[i])

Inv == TypeOK /\ BitsByPlace /\ NamesApart /\ Parsed

\* The keys.
Fields == {"save", "backup", "compress", "period", "stack"}
LEMMA TableFact == Range(Keys) = Fields \cup {"config"}
BY DEF Range, Keys, Fields

\* A field takes the value of its line, and the others are left.
LEMMA FieldSet ==
  ASSUME NEW s \in Entry, NEW l \in Line, NEW k \in Fields, NEW dir \in BOOLEAN, Accepts(k, l)
  PROVE  LET t == Applied(s, k, l, dir)
         IN /\ t \in Entry /\ t.name = s.name /\ t.idx = s.idx /\ t.pos = s.pos
            /\ \A f \in Fields : t[f] = IF f = k THEN Stored(k, l) ELSE s[f]
<1> DEFINE v == Stored(k, l)
           d == IF k = "save" THEN dir ELSE s.isDir
           t == [s EXCEPT ![k] = v, !.isDir = d]
           Good(u) == /\ u \in Entry /\ u.name = s.name /\ u.idx = s.idx /\ u.pos = s.pos
                      /\ \A f \in Fields : u[f] = IF f = k THEN v ELSE s[f]
<1>0. d \in BOOLEAN
  BY DEF Entry
<1>1. Multiplier(l.unit) \in Nat
  BY DEF Multiplier
<1>2. k = "period" => Span(l) \in 0..(PeriodRange - 1)
  <2>1. CASE k = "period"
    <3>1. Unsigned(l.num) \in Nat
      BY DotsavAssumption DEF Unsigned, Line
    <3>2. Unsigned(l.num) * Multiplier(l.unit) \in Nat
      BY <1>1, <3>1
    <3> QED BY <3>2, DotsavAssumption DEF Span
  <2> QED BY <2>1
<1>3. k = "stack" => v \in 1..255
  BY DEF Accepts, Stored
<1>4. ASSUME k = "save" PROVE Good(t)
  <2>1. v \in Wording
    BY <1>4 DEF Stored, Line
  <2>2. [s EXCEPT ![k] = v, !.isDir = d] = [s EXCEPT !.save = v, !.isDir = d]
    BY <1>4, Zenon
  <2> HIDE DEF v, d
  <2>3. Good([s EXCEPT !.save = v, !.isDir = d])
    BY <1>0, <1>4, <2>1 DEF Entry, Fields
  <2> QED BY <2>2, <2>3, Zenon
<1>5. ASSUME k = "backup" PROVE Good(t)
  <2>1. v \in Wording
    BY <1>5 DEF Stored, Line
  <2>2. [s EXCEPT ![k] = v, !.isDir = d] = [s EXCEPT !.backup = v, !.isDir = d]
    BY <1>5, Zenon
  <2> HIDE DEF v, d
  <2>3. Good([s EXCEPT !.backup = v, !.isDir = d])
    BY <1>0, <1>5, <2>1 DEF Entry, Fields
  <2> QED BY <2>2, <2>3, Zenon
<1>6. ASSUME k = "compress" PROVE Good(t)
  <2>1. v \in {0, 1}
    BY <1>6 DEF Stored
  <2>2. [s EXCEPT ![k] = v, !.isDir = d] = [s EXCEPT !.compress = v, !.isDir = d]
    BY <1>6, Zenon
  <2> HIDE DEF v, d
  <2>3. Good([s EXCEPT !.compress = v, !.isDir = d])
    BY <1>0, <1>6, <2>1 DEF Entry, Fields
  <2> QED BY <2>2, <2>3, Zenon
<1>7. ASSUME k = "period" PROVE Good(t)
  <2>1. v \in 0..(PeriodRange - 1)
    BY <1>2, <1>7 DEF Stored
  <2>2. [s EXCEPT ![k] = v, !.isDir = d] = [s EXCEPT !.period = v, !.isDir = d]
    BY <1>7, Zenon
  <2> HIDE DEF v, d
  <2>3. Good([s EXCEPT !.period = v, !.isDir = d])
    BY <1>0, <1>7, <2>1 DEF Entry, Fields
  <2> QED BY <2>2, <2>3, Zenon
<1>8. ASSUME k = "stack" PROVE Good(t)
  <2>1. v \in 0..255
    BY <1>3, <1>8
  <2>2. [s EXCEPT ![k] = v, !.isDir = d] = [s EXCEPT !.stack = v, !.isDir = d]
    BY <1>8, Zenon
  <2> HIDE DEF v, d
  <2>3. Good([s EXCEPT !.stack = v, !.isDir = d])
    BY <1>0, <1>8, <2>1 DEF Entry, Fields
  <2> QED BY <2>2, <2>3, Zenon
<1>9. Good(t)
  BY <1>4, <1>5, <1>6, <1>7, <1>8 DEF Fields
<1> QED
  BY <1>9 DEF Applied

\* A new entry.
LEMMA FreshFact ==
  ASSUME NEW name \in Wording, NEW n \in Nat
  PROVE  /\ Fresh(name, n) \in Entry /\ Fresh(name, n).name = name
         /\ Fresh(name, n).idx = n \div WordSize /\ Fresh(name, n).pos = n % WordSize
<1>1. n \div WordSize \in Nat /\ n % WordSize \in Nat
  BY DotsavAssumption
<1>2. 0 \in 0..(PeriodRange - 1)
  BY DotsavAssumption
<1>3. <<>> \in Wording
  BY DEF Wording
<1> QED
  BY <1>1, <1>2, <1>3 DEF Fresh, Entry

\* Before the first line.
LEMMA InitInv == DotsavInit => Inv
BY DotsavAssumption DEF DotsavInit, Inv, TypeOK, BitsByPlace, NamesApart, Parsed

\* The key and the line at hand.
LEMMA LineFact ==
  ASSUME TypeOK, lineno <= Len(file), HasKey
  PROVE  file[lineno] \in Line /\ Key \in Fields \cup {"config"}
<1>1. lineno \in DOMAIN file /\ file[lineno] \in Line
  BY DEF TypeOK
<1>2. Len(Words) \in DOMAIN Words /\ Key = Words[Len(Words)]
  BY <1>1 DEF HasKey, Words, Key, Line, Last
<1> QED
  BY <1>1, <1>2, TableFact DEF HasKey, Recognized

\* A new configuration.
LEMMA OpenConfigKeeps ==
  ASSUME Inv, state = "reading", lineno <= Len(file), OpenConfig
  PROVE  savarr' \in Seq(Entry) /\ BitsByPlace' /\ NamesApart'
<1> DEFINE n == Len(savarr)
           name == file[lineno].text
           e == Fresh(name, n)
<1>0. file[lineno] \in Line
  BY LineFact DEF Inv, OpenConfig
<1>1. name \in Wording /\ n \in Nat
  BY <1>0 DEF Inv, TypeOK, Line
<1>2. e \in Entry /\ e.name = name /\ e.idx = n \div WordSize /\ e.pos = n % WordSize
  BY <1>1, FreshFact
<1>3. savarr' = Append(savarr, e) /\ ~Collides(name)
  BY DEF OpenConfig
<1> HIDE DEF e, name
<1>4. /\ savarr' \in Seq(Entry) /\ DOMAIN savarr' = DOMAIN savarr \cup {n + 1}
      /\ n + 1 \notin DOMAIN savarr /\ savarr'[n + 1] = e
      /\ \A i \in DOMAIN savarr : savarr'[i] = savarr[i]
  BY <1>1, <1>2, <1>3 DEF Inv, TypeOK
<1>5. BitsByPlace'
  <2>1. (n + 1) - 1 = n
    BY <1>1
  <2> QED BY <1>2, <1>4, <2>1 DEF BitsByPlace, Inv
<1>6. NamesApart'
  BY <1>2, <1>3, <1>4 DEF NamesApart, Inv, Collides
<1> QED
  BY <1>4, <1>5, <1>6

\* A field of the last configuration.
LEMMA SetFieldKeeps ==
  ASSUME Inv, state = "reading", lineno <= Len(file), SetField
  PROVE  savarr' \in Seq(Entry) /\ BitsByPlace' /\ NamesApart'
<1> DEFINE n == Len(savarr)
<1>1. n \in DOMAIN savarr /\ savarr[n] \in Entry
  <2>1. savarr \in Seq(Entry) /\ savarr # <<>>
    BY DEF Inv, TypeOK, SetField
  <2> QED BY <2>1
<1>2. file[lineno] \in Line /\ Key \in Fields /\ Accepts(Key, file[lineno])
  BY LineFact DEF Inv, SetField
<1>3. PICK dir \in BOOLEAN :
        savarr' = [savarr EXCEPT ![n] = Applied(savarr[n], Key, file[lineno], dir)]
  BY DEF SetField
<1> DEFINE e == Applied(savarr[n], Key, file[lineno], dir)
<1>4. /\ e \in Entry /\ e.name = savarr[n].name
      /\ e.idx = savarr[n].idx /\ e.pos = savarr[n].pos
  BY <1>1, <1>2, FieldSet
<1>5. savarr' = [savarr EXCEPT ![n] = e]
  BY <1>3
<1> HIDE DEF e
<1>6. /\ savarr' \in Seq(Entry) /\ DOMAIN savarr' = DOMAIN savarr
      /\ \A i \in DOMAIN savarr : savarr'[i] = IF i = n THEN e ELSE savarr[i]
  BY <1>1, <1>4, <1>5 DEF Inv, TypeOK
<1> QED
  BY <1>4, <1>6 DEF BitsByPlace, NamesApart, Inv

\* The end of the file.
LEMMA FinishKeeps ==
  ASSUME Inv, Finish
  PROVE  Inv'
<1>1. CASE UNCHANGED savarr /\ state' = "dead"
  BY <1>1 DEF Inv, Finish, TypeOK, BitsByPlace, NamesApart, Parsed
<1>2. CASE /\ savarr # <<>> /\ \A i \in DOMAIN savarr : Complete(savarr[i])
           /\ savarr' = [i \in DOMAIN savarr |-> [savarr[i] EXCEPT !.backup = Prefix(savarr[i])]]
           /\ state' = "done"
  <2>1. \A i \in DOMAIN savarr : savarr[i] \in Entry /\ Prefix(savarr[i]) \in Wording
                                 /\ Prefix(savarr[i]) # <<>>
    <3> SUFFICES ASSUME NEW s \in Entry PROVE Prefix(s) \in Wording /\ Prefix(s) # <<>>
      BY DEF Inv, TypeOK
    <3> DEFINE x == IF s.compress = 1 THEN <<".ss">> ELSE <<>>
               y == s.backup \o <<"/">> \o s.name \o x
    <3>0. <<".">> \in Wording /\ <<".ss">> \in Wording /\ <<"/">> \in Wording /\ <<>> \in Wording
      BY DotsavAssumption DEF Wording
    <3>1. x \in Wording
      BY <3>0
    <3> HIDE DEF x
    <3>2. y \in Wording /\ <<".">> \in Wording
      BY <3>0, <3>1 DEF Entry, Wording
    <3> HIDE DEF y
    <3>3. y \o <<".">> \in Wording /\ y \o <<".">> # <<>>
      BY <3>2 DEF Wording
    <3> QED BY <3>3 DEF Prefix, x, y
  <2> DEFINE e(i) == [savarr[i] EXCEPT !.backup = Prefix(savarr[i])]
             Same(x, y) == x.name = y.name /\ x.idx = y.idx /\ x.pos = y.pos
  <2>2. \A i \in DOMAIN savarr : e(i) \in Entry /\ Same(e(i), savarr[i]) /\ Complete(e(i))
    <3> HIDE DEF Prefix
    <3> QED BY <1>2, <2>1 DEF Entry, Complete
  <2>3. savarr' = [i \in DOMAIN savarr |-> e(i)]
    BY <1>2
  <2> HIDE DEF e
  <2>4. /\ savarr' \in Seq(Entry) /\ DOMAIN savarr' = DOMAIN savarr /\ savarr' # <<>>
        /\ \A i \in DOMAIN savarr : Same(savarr'[i], savarr[i]) /\ Complete(savarr'[i])
    <3>1. /\ Len(savarr) \in Nat /\ DOMAIN savarr = 1..Len(savarr) /\ Len(savarr) # 0
      BY <1>2 DEF Inv, TypeOK
    <3>2. savarr' \in [1..Len(savarr) -> Entry] /\ \A i \in DOMAIN savarr : savarr'[i] = e(i)
      BY <2>2, <2>3, <3>1
    <3>3. savarr' \in Seq(Entry) /\ Len(savarr') = Len(savarr)
      BY <3>1, <3>2
    <3> QED BY <2>2, <3>1, <3>2, <3>3
  <2>5. BitsByPlace' /\ NamesApart'
    BY <2>4 DEF BitsByPlace, NamesApart, Inv
  <2>6. TypeOK' /\ Parsed'
    BY <1>2, <2>4 DEF Inv, Finish, TypeOK, Parsed
  <2> QED BY <2>5, <2>6 DEF Inv
<1> QED
  BY <1>1, <1>2 DEF Finish

\* Every step keeps the invariant.
LEMMA NextInv == Inv /\ [DotsavNext]_dotsavVars => Inv'
<1> SUFFICES ASSUME Inv, [DotsavNext]_dotsavVars PROVE Inv'
  OBVIOUS
<1>1. CASE UNCHANGED dotsavVars
  BY <1>1 DEF dotsavVars, Inv, TypeOK, BitsByPlace, NamesApart, Parsed
<1>2. CASE Finish
  BY <1>2, FinishKeeps
<1>3. CASE ParseLine
  <2>1. state = "reading" /\ lineno <= Len(file) /\ lineno' \in 1..(Len(file) + 1) /\ file' = file
    BY <1>3 DEF ParseLine, Inv, TypeOK
  <2>2. CASE UNCHANGED savarr /\ state' \in {"reading", "dead", "crashed"}
    BY <2>1, <2>2 DEF Inv, TypeOK, BitsByPlace, NamesApart, Parsed
  <2>3. CASE OpenConfig
    <3>1. state' = "reading"
      BY <2>1, <2>3 DEF OpenConfig
    <3> QED BY <2>1, <2>3, <3>1, OpenConfigKeeps DEF Inv, TypeOK, Parsed
  <2>4. CASE SetField
    <3>1. state' = "reading"
      BY <2>1, <2>4 DEF SetField
    <3> QED BY <2>1, <2>4, <3>1, SetFieldKeeps DEF Inv, TypeOK, Parsed
  <2> QED BY <1>3, <2>1, <2>2, <2>3, <2>4 DEF ParseLine, SkipLine, BadLine, StrayField
<1> QED
  BY <1>1, <1>2, <1>3 DEF DotsavNext

\* The invariant of the parser.
THEOREM DotsavInvariant == DotsavSpec => []Inv
BY InitInv, NextInv, PTL DEF DotsavSpec

\* The entries keep their types: periods and stacks fit their fields.
THEOREM TypeCorrect == DotsavSpec => []TypeOK
BY DotsavInvariant, PTL DEF Inv

\* Commands get complete configurations with names of their own.
THEOREM TheConfigsAreUsable == DotsavSpec => []ConfigsUsable
<1>1. Inv => ConfigsUsable
  <2> SUFFICES ASSUME Inv, state = "done" PROVE ConfigsUsable
    BY DEF ConfigsUsable
  <2>1. \A i \in DOMAIN savarr : savarr[i] \in Entry /\ Complete(savarr[i])
    BY DEF Inv, TypeOK, Parsed
  <2>2. ASSUME NEW s \in Entry, Complete(s) PROVE s.save # <<>> /\ s.period > 0 /\ s.stack > 0
    <3>1. s.period \in 0..(PeriodRange - 1) /\ s.stack \in 0..255
      BY DEF Entry
    <3>2. s.save # <<>> /\ s.period # 0 /\ s.stack # 0
      BY <2>2 DEF Complete
    <3>3. PeriodRange - 1 \in Int
      BY DotsavAssumption
    <3>4. s.period \in Nat /\ s.stack \in Nat
      BY <3>1, <3>3
    <3> QED BY <3>2, <3>4
  <2> QED BY <2>1, <2>2 DEF ConfigsUsable, Inv, NamesApart, Parsed
<1> QED
  BY <1>1, DotsavInvariant, PTL

\* No two configurations share a bit, however many there are.
THEOREM TheBitsAreApart == DotsavSpec => []BitsApart
<1>1. Inv => BitsApart
  <2> SUFFICES ASSUME Inv PROVE BitsApart
    OBVIOUS
  <2>1. ASSUME NEW a \in Nat, NEW b \in Nat,
               a \div WordSize = b \div WordSize, a % WordSize = b % WordSize
        PROVE  a = b
    BY <2>1, DotsavAssumption
  <2>2. \A i \in DOMAIN savarr : i \in 1..Len(savarr) /\ i - 1 \in Nat
    BY DEF Inv, TypeOK
  <2>3. \A i, j \in DOMAIN savarr :
          savarr[i].idx = savarr[j].idx /\ savarr[i].pos = savarr[j].pos => i = j
    <3> SUFFICES ASSUME NEW i \in DOMAIN savarr, NEW j \in DOMAIN savarr,
                        savarr[i].idx = savarr[j].idx, savarr[i].pos = savarr[j].pos
                 PROVE  i - 1 = j - 1
      BY <2>2
    <3> QED BY <2>1, <2>2 DEF Inv, BitsByPlace
  <2> QED BY <2>3 DEF BitsApart
<1> QED
  BY <1>1, DotsavInvariant, PTL

-----------------------------------------------------------------------------
(* The names of the backups. *)

\* What an archive's name ends with.
Extension(c) == IF c = 1 THEN <<".ss">> ELSE <<>>
Ending(name, c) == (name \o Extension(c)) \o <<".">>

\* When the commands get them, the backups are named after some directory and the name of their
\* configuration.
NamedAfter(s) == \E b \in Wording : s.backup = (b \o <<"/">>) \o Ending(s.name, s.compress)
Prefixed == state = "done" => \A i \in DOMAIN savarr : NamedAfter(savarr[i])

\* The pieces of a name's end are texts.
LEMMA EndingType ==
  ASSUME NEW name \in Wording, NEW c
  PROVE  Extension(c) \in Wording /\ Ending(name, c) \in Wording /\ <<"/">> \in Wording /\ <<".">> \in Wording
<1>1. <<".">> \in Wording /\ <<".ss">> \in Wording /\ <<"/">> \in Wording /\ <<>> \in Wording
  BY DotsavAssumption DEF Wording
<1>2. Extension(c) \in Wording
  BY <1>1 DEF Extension
<1>3. name \o Extension(c) \in Wording
  BY <1>2, ConcatProperties DEF Wording
<1>4. Ending(name, c) \in Wording
  BY <1>1, <1>3, ConcatProperties DEF Wording, Ending
<1> QED
  BY <1>1, <1>2, <1>4

\* Putting texts together: the order of the steps does not matter.
LEMMA Regroup ==
  \A s, t, u \in Seq(Piece) : (s \o t) \o u = s \o (t \o u)
BY ConcatAssociative

\* update_backup_prefix() puts the end behind the directory.
LEMMA PrefixSplits ==
  ASSUME NEW s \in Entry
  PROVE  Prefix(s) = (s.backup \o <<"/">>) \o Ending(s.name, s.compress)
<1> DEFINE b == s.backup \o <<"/">>
           n == s.name
           x == Extension(s.compress)
           e == <<".">>
<1>1. n \in Seq(Piece) /\ x \in Seq(Piece) /\ e \in Seq(Piece) /\ b \in Seq(Piece)
  <2>1. s.backup \in Seq(Piece) /\ s.name \in Seq(Piece)
    BY DEF Entry, Wording
  <2>2. x \in Seq(Piece) /\ e \in Seq(Piece) /\ <<"/">> \in Seq(Piece)
    BY <2>1, EndingType DEF Wording
  <2> QED BY <2>1, <2>2, ConcatProperties
<1>2. Prefix(s) = ((b \o n) \o x) \o e /\ Ending(s.name, s.compress) = (n \o x) \o e
  BY DEF Prefix, Ending, Extension
<1> HIDE DEF b, n, x, e
<1>3. n \o x \in Seq(Piece)
  BY <1>1, ConcatProperties
<1>4. (b \o n) \o x = b \o (n \o x)
  BY <1>1, Regroup, Zenon
<1>5. (b \o (n \o x)) \o e = b \o ((n \o x) \o e)
  BY <1>1, <1>3, Regroup, Zenon
<1>6. Prefix(s) = b \o Ending(s.name, s.compress)
  BY <1>2, <1>4, <1>5
<1> QED
  BY <1>6 DEF b

\* What stands behind the last slash.
LEMMA LastSlash ==
  ASSUME NEW p \in Wording, NEW q \in Wording, NEW m \in Wording, NEW n \in Wording,
         "/" \notin Range(m), "/" \notin Range(n),
         (p \o <<"/">>) \o m = (q \o <<"/">>) \o n
  PROVE  m = n
<1> DEFINE Joined(a, c) == (a \o <<"/">>) \o c
<1>1. ASSUME NEW a \in Wording, NEW c \in Wording
      PROVE  /\ Len(Joined(a, c)) = Len(a) + 1 + Len(c)
             /\ Joined(a, c)[Len(a) + 1] = "/"
             /\ \A i \in 1..Len(c) : Joined(a, c)[Len(a) + 1 + i] = c[i]
  <2>1. <<"/">> \in Seq(Piece) /\ Len(<<"/">>) = 1
    BY DotsavAssumption
  <2>2. /\ a \o <<"/">> \in Seq(Piece) /\ Len(a \o <<"/">>) = Len(a) + 1
        /\ (a \o <<"/">>)[Len(a) + 1] = "/"
    BY <2>1 DEF Wording
  <2> DEFINE d == a \o <<"/">>
  <2>3. d \in Seq(Piece) /\ Len(d) = Len(a) + 1 /\ d[Len(a) + 1] = "/"
    BY <2>2
  <2> HIDE DEF d
  <2>4. c \in Seq(Piece) /\ Len(a) \in Nat /\ Len(c) \in Nat
    BY DEF Wording
  <2>5. /\ Len(d \o c) = Len(a) + 1 + Len(c)
        /\ (d \o c)[Len(a) + 1] = "/"
        /\ \A i \in 1..Len(c) : (d \o c)[Len(a) + 1 + i] = c[i]
    <3>1. /\ Len(d \o c) = Len(d) + Len(c)
          /\ \A i \in 1..(Len(d) + Len(c)) :
               (d \o c)[i] = IF i <= Len(d) THEN d[i] ELSE c[i - Len(d)]
      BY <2>3, <2>4, ConcatProperties, Zenon
    <3>2. ASSUME NEW i \in 1..Len(c) PROVE (d \o c)[Len(a) + 1 + i] = c[i]
      <4>1. /\ Len(a) + 1 + i \in 1..(Len(d) + Len(c)) /\ ~(Len(a) + 1 + i <= Len(d))
            /\ Len(a) + 1 + i - Len(d) = i
        BY <2>3, <2>4
      <4> QED BY <3>1, <4>1
    <3>3. (d \o c)[Len(a) + 1] = d[Len(a) + 1]
      BY <2>3, <2>4, <3>1
    <3> QED BY <2>3, <3>1, <3>2, <3>3
  <2>6. Joined(a, c) = d \o c
    BY DEF d
  <2> QED BY <2>5, <2>6
<1> DEFINE j == Joined(p, m)
<1>2. j = Joined(p, m) /\ j = Joined(q, n)
  OBVIOUS
<1> HIDE DEF Joined, j
<1>p. /\ Len(j) = Len(p) + 1 + Len(m) /\ j[Len(p) + 1] = "/"
      /\ \A i \in 1..Len(m) : j[Len(p) + 1 + i] = m[i]
  <2>1. LET w == Joined(p, m)
        IN /\ Len(w) = Len(p) + 1 + Len(m) /\ w[Len(p) + 1] = "/"
           /\ \A i \in 1..Len(m) : w[Len(p) + 1 + i] = m[i]
    BY <1>1, Zenon
  <2> QED BY <1>2, <2>1, Zenon
<1>q. /\ Len(j) = Len(q) + 1 + Len(n) /\ j[Len(q) + 1] = "/"
      /\ \A i \in 1..Len(n) : j[Len(q) + 1 + i] = n[i]
  <2>1. LET w == Joined(q, n)
        IN /\ Len(w) = Len(q) + 1 + Len(n) /\ w[Len(q) + 1] = "/"
           /\ \A i \in 1..Len(n) : w[Len(q) + 1 + i] = n[i]
    BY <1>1, Zenon
  <2> QED BY <1>2, <2>1, Zenon
<1>3. ASSUME NEW c \in Wording, "/" \notin Range(c)
      PROVE  Len(c) \in Nat /\ \A i \in 1..Len(c) : c[i] # "/"
  BY <1>3 DEF Range, Wording
<1>4. Len(p) \in Nat /\ Len(q) \in Nat /\ Len(m) \in Nat /\ Len(n) \in Nat
  BY DEF Wording
<1>5. Len(p) + 1 + Len(m) = Len(q) + 1 + Len(n)
  BY <1>p, <1>q
<1>6. ~(Len(p) < Len(q))
  <2> SUFFICES ASSUME Len(p) < Len(q) PROVE FALSE
    OBVIOUS
  <2>1. Len(q) - Len(p) \in 1..Len(m) /\ Len(p) + 1 + (Len(q) - Len(p)) = Len(q) + 1
    BY <1>4, <1>5
  <2>2. m[Len(q) - Len(p)] = "/"
    BY <1>p, <1>q, <2>1
  <2> QED BY <1>3, <2>1, <2>2
<1>7. ~(Len(q) < Len(p))
  <2> SUFFICES ASSUME Len(q) < Len(p) PROVE FALSE
    OBVIOUS
  <2>1. Len(p) - Len(q) \in 1..Len(n) /\ Len(q) + 1 + (Len(p) - Len(q)) = Len(p) + 1
    BY <1>4, <1>5
  <2>2. n[Len(p) - Len(q)] = "/"
    BY <1>p, <1>q, <2>1
  <2> QED BY <1>3, <2>1, <2>2
<1>8. Len(p) = Len(q) /\ Len(m) = Len(n)
  BY <1>4, <1>5, <1>6, <1>7
<1>9. \A i \in 1..Len(m) : m[i] = n[i]
  BY <1>p, <1>q, <1>8
<1> QED
  BY <1>8, <1>9 DEF Wording

\* Two texts with one more piece are equal only if the texts and the pieces are.
LEMMA OneMore ==
  ASSUME NEW u \in Wording, NEW v \in Wording, NEW x \in Piece, NEW y \in Piece,
         u \o <<x>> = v \o <<y>>
  PROVE  u = v /\ x = y
<1>1. \A w \in Wording, z \in Piece :
        /\ Len(w \o <<z>>) = Len(w) + 1 /\ (w \o <<z>>)[Len(w) + 1] = z
        /\ Len(w) \in Nat /\ \A i \in 1..Len(w) : (w \o <<z>>)[i] = w[i]
  BY DEF Wording
<1>2. Len(u) = Len(v) /\ x = y
  BY <1>1
<1>3. \A i \in 1..Len(u) : u[i] = v[i]
  BY <1>1, <1>2
<1> QED
  BY <1>2, <1>3 DEF Wording

\* A plain name is recognised by its end, with and without the extension.
LEMMA EndingTells ==
  ASSUME NEW m \in Wording, NEW n \in Wording, NEW c, NEW d, PlainName(m), PlainName(n),
         Ending(m, c) = Ending(n, d)
  PROVE  m = n
<1>1. m \o Extension(c) \in Wording /\ n \o Extension(d) \in Wording /\ "." \in Piece /\ ".ss" \in Piece
  BY EndingType, ConcatProperties, DotsavAssumption DEF Wording
<1> DEFINE u == m \o Extension(c)
           v == n \o Extension(d)
<1>2. u \o <<".">> = v \o <<".">> /\ u \in Wording /\ v \in Wording
  BY <1>1 DEF Ending
<1> HIDE DEF u, v
<1>3. u = v
  BY <1>1, <1>2, OneMore
<1>4. ASSUME NEW a \in Wording
      PROVE  a \o <<>> = a /\ (Last(a) # ".ss" => \A w \in Wording : a # w \o <<".ss">>)
  <2>1. a \o <<>> = a
    BY DEF Wording
  <2>2. ASSUME NEW w \in Wording, a = w \o <<".ss">> PROVE Last(a) = ".ss"
    <3>1. Len(a) = Len(w) + 1 /\ a[Len(w) + 1] = ".ss"
      BY <1>1, <2>2 DEF Wording
    <3> QED BY <3>1 DEF Last
  <2> QED BY <2>1, <2>2
<1>5. CASE c = 1 /\ d = 1
  <2>1. m \o <<".ss">> = n \o <<".ss">>
    BY <1>3, <1>5 DEF u, v, Extension
  <2> QED BY <1>1, <2>1, OneMore
<1>6. CASE c = 1 /\ d # 1
  <2>1. m \o <<".ss">> = n \o <<>>
    BY <1>3, <1>6 DEF u, v, Extension
  <2> QED BY <1>4, <2>1 DEF PlainName
<1>7. CASE c # 1 /\ d = 1
  <2>1. m \o <<>> = n \o <<".ss">>
    BY <1>3, <1>7 DEF u, v, Extension
  <2> QED BY <1>4, <2>1 DEF PlainName
<1>8. CASE c # 1 /\ d # 1
  <2>1. m \o <<>> = n \o <<>>
    BY <1>3, <1>8 DEF u, v, Extension
  <2> QED BY <1>4, <2>1
<1> QED
  BY <1>5, <1>6, <1>7, <1>8

\* There is no slash in the end of a plain name.
LEMMA EndingHasNoSlash ==
  ASSUME NEW m \in Wording, NEW c, PlainName(m)
  PROVE  "/" \notin Range(Ending(m, c))
<1>1. \A i \in 1..Len(m) : m[i] # "/"
  BY DEF PlainName, Range, Wording
<1>2. ASSUME NEW w \in Wording, NEW x \in Piece, x # "/", \A i \in 1..Len(w) : w[i] # "/"
      PROVE  w \o <<x>> \in Wording /\ \A i \in 1..Len(w \o <<x>>) : (w \o <<x>>)[i] # "/"
  BY <1>2 DEF Wording
<1>3. "." \in Piece /\ ".ss" \in Piece /\ m \o <<>> = m
  BY DotsavAssumption DEF Wording
<1> DEFINE u == m \o Extension(c)
<1>4. u \in Wording /\ \A i \in 1..Len(u) : u[i] # "/"
  BY <1>1, <1>2, <1>3 DEF Extension
<1> HIDE DEF u
<1>5. u \o <<".">> \in Wording /\ \A i \in 1..Len(u \o <<".">>) : (u \o <<".">>)[i] # "/"
  BY <1>2, <1>3, <1>4
<1>6. Ending(m, c) = u \o <<".">>
  BY DEF Ending, u
<1> QED
  BY <1>5, <1>6 DEF Range, Wording

\* The end of the file puts the prefixes in.
LEMMA PrefixedStep == Inv /\ Prefixed /\ [DotsavNext]_dotsavVars => Prefixed'
<1> SUFFICES ASSUME Inv, Prefixed, [DotsavNext]_dotsavVars PROVE Prefixed'
  OBVIOUS
<1>1. CASE UNCHANGED dotsavVars
  BY <1>1 DEF dotsavVars, Prefixed
<1>2. CASE ParseLine
  BY <1>2 DEF ParseLine, SkipLine, OpenConfig, SetField, BadLine, StrayField, Prefixed
<1>3. CASE Finish
  <2> SUFFICES ASSUME state' = "done" PROVE \A i \in DOMAIN savarr' : NamedAfter(savarr'[i])
    BY DEF Prefixed
  <2>1. savarr' = [i \in DOMAIN savarr |-> [savarr[i] EXCEPT !.backup = Prefix(savarr[i])]]
    BY <1>3 DEF Finish
  <2>2. ASSUME NEW s \in Entry PROVE NamedAfter([s EXCEPT !.backup = Prefix(s)])
    <3> DEFINE t == [s EXCEPT !.backup = Prefix(s)]
    <3>1. t.backup = Prefix(s) /\ t.name = s.name /\ t.compress = s.compress /\ s.backup \in Wording
      BY DEF Entry
    <3> HIDE DEF t
    <3>2. t.backup = (s.backup \o <<"/">>) \o Ending(t.name, t.compress)
      BY <3>1, PrefixSplits
    <3>3. NamedAfter(t)
      BY <3>1, <3>2 DEF NamedAfter
    <3> QED BY <3>3 DEF t
  <2>3. \A i \in DOMAIN savarr : savarr[i] \in Entry
    BY DEF Inv, TypeOK
  <2> QED BY <2>1, <2>2, <2>3
<1> QED
  BY <1>1, <1>2, <1>3 DEF DotsavNext

\* Whatever directories they share, the backups of two configurations with plain names have
\* different names: one never rotates the other's.
THEOREM ThePrefixesAreApart == DotsavSpec => []PrefixesApart
<1>1. DotsavInit => Prefixed
  BY DEF DotsavInit, Prefixed
<1>2. Inv /\ Prefixed => PrefixesApart
  <2> SUFFICES ASSUME Inv, Prefixed, state = "done",
                      NEW i \in DOMAIN savarr, NEW j \in DOMAIN savarr, i # j,
                      PlainName(savarr[i].name), PlainName(savarr[j].name),
                      savarr[i].backup = savarr[j].backup
               PROVE  FALSE
    BY DEF PrefixesApart
  <2> DEFINE s == savarr[i]
             t == savarr[j]
  <2>1. s.name \in Wording /\ t.name \in Wording /\ s.name # t.name
    <3>1. s \in Entry /\ t \in Entry
      BY DEF Inv, TypeOK
    <3>2. s.name # t.name
      BY DEF Inv, NamesApart
    <3> QED BY <3>1, <3>2 DEF Entry
  <2>2. PICK p \in Wording, q \in Wording :
          (p \o <<"/">>) \o Ending(s.name, s.compress) = (q \o <<"/">>) \o Ending(t.name, t.compress)
    BY DEF Prefixed, NamedAfter
  <2>3. Ending(s.name, s.compress) = Ending(t.name, t.compress)
    <3> DEFINE m == Ending(s.name, s.compress)
               n == Ending(t.name, t.compress)
    <3>1. m \in Wording /\ n \in Wording /\ "/" \notin Range(m) /\ "/" \notin Range(n)
      BY <2>1, EndingType, EndingHasNoSlash
    <3>2. (p \o <<"/">>) \o m = (q \o <<"/">>) \o n
      BY <2>2
    <3> HIDE DEF m, n
    <3>3. m = n
      BY <3>1, <3>2, LastSlash
    <3> QED BY <3>3 DEF m, n
  <2> QED BY <2>1, <2>3, EndingTells
<1> QED
  BY <1>1, <1>2, PrefixedStep, DotsavInvariant, PTL DEF DotsavSpec

-----------------------------------------------------------------------------
(* What a file says. *)

\* The configurations opened in the first n lines of f, and the lines among these that give
\* key k of the c-th.
OpenedIn(f, n) == Cardinality({i \in 1..n : LastWord(f[i]) = "config"})
GivenIn(f, n, c, k) == {i \in 1..n : OpenedIn(f, i) = c /\ LastWord(f[i]) = k}

\* The names are those the lines say.
Named(f, n, sav) ==
  \A i \in 1..n : LastWord(f[i]) = "config" => sav[OpenedIn(f, i)].name = f[i].text

\* The fields of s are those the first n lines of f give the c-th configuration.
Says(f, n, c, s) ==
  \A k \in Fields :
    LET given == GivenIn(f, n, c, k)
    IN IF given = {} THEN s[k] = Fresh(<<>>, 0)[k]
                     ELSE Max(given) \in given /\ s[k] = Stored(k, f[Max(given)])

AsWritten ==
  state = "reading" =>
    /\ Len(savarr) = OpenedIn(file, lineno - 1)
    /\ Named(file, lineno - 1, savarr)
    /\ \A c \in DOMAIN savarr : Says(file, lineno - 1, c, savarr[c])

\* One more line.
LEMMA OpenedNext ==
  ASSUME NEW f, NEW n \in Nat
  PROVE  /\ OpenedIn(f, n) \in Nat
         /\ OpenedIn(f, n + 1) =
              IF LastWord(f[n + 1]) = "config" THEN OpenedIn(f, n) + 1 ELSE OpenedIn(f, n)
<1> DEFINE is(i) == LastWord(f[i]) = "config"
           a == {i \in 1..n : is(i)}
           b == {i \in 1..(n + 1) : is(i)}
<1>1. OpenedIn(f, n) = Cardinality(a) /\ OpenedIn(f, n + 1) = Cardinality(b)
  BY DEF OpenedIn
<1> HIDE DEF is
<1>2. 1..(n + 1) = (1..n) \cup {n + 1} /\ n + 1 \notin 1..n
  OBVIOUS
<1>3. a \subseteq 1..n /\ n + 1 \notin a /\ b = IF is(n + 1) THEN a \cup {n + 1} ELSE a
  BY <1>2
<1> HIDE DEF a, b
<1>4. IsFiniteSet(1..n)
  BY FS_Interval
<1>5. IsFiniteSet(a)
  BY <1>3, <1>4, FS_Subset
<1>6. Cardinality(a) \in Nat /\ Cardinality(a \cup {n + 1}) = Cardinality(a) + 1
  BY <1>3, <1>5, FS_AddElement, FS_CardinalityType
<1> QED
  BY <1>1, <1>3, <1>6 DEF is

\* Earlier, no more configurations were opened.
LEMMA OpenedGrows ==
  ASSUME NEW f, NEW m \in Nat, NEW n \in Nat, m <= n
  PROVE  OpenedIn(f, m) <= OpenedIn(f, n)
<1> DEFINE a == {i \in 1..m : LastWord(f[i]) = "config"}
           b == {i \in 1..n : LastWord(f[i]) = "config"}
<1>1. OpenedIn(f, m) = Cardinality(a) /\ OpenedIn(f, n) = Cardinality(b)
  BY DEF OpenedIn
<1>2. 1..m \subseteq 1..n
  OBVIOUS
<1>3. a \subseteq b /\ b \subseteq 1..n
  BY <1>2
<1> HIDE DEF a, b
<1>4. IsFiniteSet(b)
  <2>1. IsFiniteSet(1..n)
    BY FS_Interval
  <2> QED BY <1>3, <2>1, FS_Subset
<1> QED
  BY <1>1, <1>3, <1>4, FS_Subset

\* A line that gives the key joins the lines that do, as the last one.
LEMMA GivenNext ==
  ASSUME NEW f, NEW n \in Nat, NEW c, NEW k
  PROVE  /\ GivenIn(f, n, c, k) \subseteq 1..n
         /\ OpenedIn(f, n + 1) = c /\ LastWord(f[n + 1]) = k
              => GivenIn(f, n + 1, c, k) = GivenIn(f, n, c, k) \cup {n + 1}
         /\ OpenedIn(f, n + 1) # c \/ LastWord(f[n + 1]) # k
              => GivenIn(f, n + 1, c, k) = GivenIn(f, n, c, k)
<1> DEFINE is(i) == OpenedIn(f, i) = c /\ LastWord(f[i]) = k
           a == {i \in 1..n : is(i)}
           b == {i \in 1..(n + 1) : is(i)}
<1>1. GivenIn(f, n, c, k) = a /\ GivenIn(f, n + 1, c, k) = b
  BY DEF GivenIn
<1> HIDE DEF is
<1>2. 1..(n + 1) = (1..n) \cup {n + 1} /\ n + 1 \notin 1..n
  OBVIOUS
<1>3. a \subseteq 1..n /\ b = IF is(n + 1) THEN a \cup {n + 1} ELSE a
  BY <1>2
<1> QED
  BY <1>1, <1>3 DEF is

\* Lines about other configurations, and those that give no field, change nothing.
LEMMA SaysStill ==
  ASSUME NEW f, NEW n \in Nat, NEW c, NEW s, Says(f, n, c, s),
         OpenedIn(f, n + 1) # c \/ LastWord(f[n + 1]) \notin Fields
  PROVE  Says(f, n + 1, c, s)
<1>1. \A k \in Fields : GivenIn(f, n + 1, c, k) = GivenIn(f, n, c, k)
  <2> SUFFICES ASSUME NEW k \in Fields
               PROVE  GivenIn(f, n + 1, c, k) = GivenIn(f, n, c, k)
    OBVIOUS
  <2>1. OpenedIn(f, n + 1) # c \/ LastWord(f[n + 1]) # k
    OBVIOUS
  <2> QED BY <2>1, GivenNext
<1> QED
  BY <1>1 DEF Says

\* A line that gives a field of the configuration counts from now on.
LEMMA SaysNow ==
  ASSUME NEW f, NEW n \in Nat, NEW c, NEW s, NEW t, Says(f, n, c, s),
         OpenedIn(f, n + 1) = c, LastWord(f[n + 1]) \in Fields,
         \A k \in Fields :
           t[k] = IF k = LastWord(f[n + 1]) THEN Stored(LastWord(f[n + 1]), f[n + 1]) ELSE s[k]
  PROVE  Says(f, n + 1, c, t)
<1> DEFINE key == LastWord(f[n + 1])
<1> SUFFICES ASSUME NEW k \in Fields
             PROVE  LET given == GivenIn(f, n + 1, c, k)
                    IN IF given = {} THEN t[k] = Fresh(<<>>, 0)[k]
                                     ELSE /\ Max(given) \in given
                                          /\ t[k] = Stored(k, f[Max(given)])
  BY DEF Says
<1>1. CASE k # key
  <2>1. GivenIn(f, n + 1, c, k) = GivenIn(f, n, c, k) /\ t[k] = s[k]
    BY <1>1, GivenNext
  <2> QED BY <2>1 DEF Says
<1>2. CASE k = key
  <2> DEFINE old == GivenIn(f, n, c, k)
             given == GivenIn(f, n + 1, c, k)
  <2>1. old \subseteq 1..n /\ given = old \cup {n + 1}
    BY <1>2, GivenNext
  <2> HIDE DEF old, given
  <2>2. Max(given) = n + 1
    <3>1. \A x \in given : x \in Int /\ x <= n + 1
      BY <2>1
    <3>2. n + 1 \in given
      BY <2>1
    <3>3. \A x \in given : (\A y \in given : x >= y) => x = n + 1
      BY <3>1, <3>2
    <3>4. \A y \in given : n + 1 >= y
      BY <3>1
    <3> QED BY <3>2, <3>3, <3>4 DEF Max
  <2>3. given # {} /\ Max(given) \in given /\ t[k] = Stored(k, f[Max(given)])
    BY <1>2, <2>1, <2>2
  <2> QED BY <2>3 DEF given
<1> QED
  BY <1>1, <1>2

\* Nothing is said yet of a configuration that was just opened.
LEMMA SaysNothing ==
  ASSUME NEW f, NEW n \in Nat, NEW name, NEW m, LastWord(f[n + 1]) = "config"
  PROVE  Says(f, n + 1, OpenedIn(f, n + 1), Fresh(name, m))
<1> DEFINE c == OpenedIn(f, n + 1)
<1>1. c = OpenedIn(f, n) + 1 /\ OpenedIn(f, n) \in Nat
  BY OpenedNext
<1>2. ASSUME NEW i \in 1..n PROVE OpenedIn(f, i) # c
  <2>1. OpenedIn(f, i) <= OpenedIn(f, n) /\ OpenedIn(f, i) \in Nat
    BY OpenedGrows, OpenedNext
  <2> QED BY <1>1, <2>1
<1>3. "config" \notin Fields
  BY DEF Fields
<1>4. \A k \in Fields : GivenIn(f, n + 1, c, k) = {}
  <2> SUFFICES ASSUME NEW k \in Fields PROVE GivenIn(f, n, c, k) = {}
    BY <1>3, GivenNext
  <2> HIDE DEF c
  <2> QED BY <1>2 DEF GivenIn
<1>5. \A k \in Fields : Fresh(name, m)[k] = Fresh(<<>>, 0)[k]
  BY DEF Fresh, Fields
<1> QED
  BY <1>4, <1>5 DEF Says

\* Names given by earlier lines stay, whatever happens to what is not a name.
LEMMA NamedStill ==
  ASSUME NEW f, NEW n \in Nat, NEW sav, NEW next, Named(f, n, sav),
         \A i \in 1..n : LastWord(f[i]) = "config" =>
           next[OpenedIn(f, i)].name = sav[OpenedIn(f, i)].name,
         LastWord(f[n + 1]) = "config" =>
           next[OpenedIn(f, n + 1)].name = f[n + 1].text
  PROVE  Named(f, n + 1, next)
<1>1. \A i \in 1..(n + 1) : i \in 1..n \/ i = n + 1
  OBVIOUS
<1> QED
  BY <1>1 DEF Named

\* A line that opens a configuration has it in the array.
LEMMA OpenedInRange ==
  ASSUME NEW f, NEW n \in Nat, NEW i \in 1..n, LastWord(f[i]) = "config"
  PROVE  OpenedIn(f, i) \in 1..OpenedIn(f, n)
<1>1. i \in Nat /\ i - 1 \in Nat /\ i <= n /\ (i - 1) + 1 = i
  OBVIOUS
<1>2. OpenedIn(f, i) <= OpenedIn(f, n)
  BY <1>1, OpenedGrows
<1>3. OpenedIn(f, (i - 1) + 1) = OpenedIn(f, i - 1) + 1 /\ OpenedIn(f, i - 1) \in Nat
  BY <1>1, OpenedNext
<1>4. OpenedIn(f, n) \in Nat
  BY OpenedNext
<1> QED
  BY <1>1, <1>2, <1>3, <1>4

\* Reading a line is reading what it says.
LEMMA ParseLineReads ==
  ASSUME Inv, AsWritten, ParseLine, state' = "reading"
  PROVE  AsWritten'
<1> DEFINE n == lineno - 1
           l == file[n + 1]
<1>1. n \in Nat /\ n + 1 = lineno /\ lineno' - 1 = n + 1 /\ lineno <= Len(file)
      /\ file' = file /\ state = "reading"
  BY DEF ParseLine, Inv, TypeOK
<1>2. /\ Len(savarr) = OpenedIn(file, n) /\ OpenedIn(file, n) \in Nat
      /\ Named(file, n, savarr)
      /\ \A c \in DOMAIN savarr : Says(file, n, c, savarr[c])
  BY <1>1, OpenedNext DEF AsWritten
<1>3. SUFFICES /\ Len(savarr') = OpenedIn(file, n + 1)
               /\ Named(file, n + 1, savarr')
               /\ \A c \in DOMAIN savarr' : Says(file, n + 1, c, savarr'[c])
  BY <1>1 DEF AsWritten
<1>4. l = file[lineno] /\ (HasKey => LastWord(l) = Key) /\ (Words = <<>> => LastWord(l) = "")
  BY <1>1 DEF LastWord, HasKey, Words, Key
<1>5. savarr \in Seq(Entry)
  BY DEF Inv, TypeOK
<1>n. \A i \in 1..n : LastWord(file[i]) = "config" => OpenedIn(file, i) \in DOMAIN savarr
  BY <1>1, <1>2, <1>5, OpenedInRange
<1> HIDE DEF n, l
<1>6. CASE SkipLine
  <2>1. LastWord(l) \notin Fields /\ LastWord(l) # "config" /\ savarr' = savarr
    BY <1>4, <1>6 DEF SkipLine, Fields
  <2>2. OpenedIn(file, n + 1) = OpenedIn(file, n)
    BY <1>1, <2>1, OpenedNext DEF l
  <2>3. \A c \in DOMAIN savarr : Says(file, n + 1, c, savarr[c])
    BY <1>1, <1>2, <2>1, SaysStill DEF l
  <2>4. Named(file, n + 1, savarr)
    BY <1>1, <1>2, <2>1, NamedStill DEF l
  <2> QED BY <1>2, <2>1, <2>2, <2>3, <2>4
<1>7. CASE OpenConfig
  <2> DEFINE e == Fresh(file[lineno].text, Len(savarr))
             m == Len(savarr)
  <2>1. LastWord(l) = "config" /\ savarr' = Append(savarr, e)
    BY <1>4, <1>7 DEF OpenConfig
  <2>2. OpenedIn(file, n + 1) = m + 1
    BY <1>1, <1>2, <2>1, OpenedNext DEF l
  <2>3. Says(file, n + 1, m + 1, e)
    BY <1>1, <2>1, <2>2, SaysNothing DEF l
  <2> HIDE DEF e
  <2>4. /\ Len(savarr') = m + 1 /\ DOMAIN savarr' = DOMAIN savarr \cup {m + 1}
        /\ m + 1 \notin DOMAIN savarr /\ savarr'[m + 1] = e
        /\ \A c \in DOMAIN savarr : savarr'[c] = savarr[c]
    BY <1>5, <2>1
  <2>5. LastWord(l) \notin Fields
    BY <2>1 DEF Fields
  <2>6. \A c \in DOMAIN savarr : Says(file, n + 1, c, savarr[c])
    BY <1>1, <1>2, <2>5, SaysStill DEF l
  <2>7. Named(file, n + 1, savarr')
    <3>1. e.name = l.text
      BY <1>4 DEF e, Fresh
    <3>2. \A i \in 1..n : LastWord(file[i]) = "config" =>
            savarr'[OpenedIn(file, i)].name = savarr[OpenedIn(file, i)].name
      BY <1>n, <2>4
    <3>3. savarr'[OpenedIn(file, n + 1)].name = file[n + 1].text
      BY <2>2, <2>4, <3>1 DEF l
    <3> QED BY <1>1, <1>2, <3>2, <3>3, NamedStill
  <2> QED BY <2>2, <2>3, <2>4, <2>6, <2>7
<1>8. CASE SetField
  <2> DEFINE m == Len(savarr)
  <2>1. m \in DOMAIN savarr /\ savarr[m] \in Entry
    <3>1. savarr # <<>>
      BY <1>8 DEF SetField
    <3> QED BY <1>5, <3>1
  <2>2. l \in Line /\ Key \in Fields /\ Accepts(Key, l) /\ LastWord(l) = Key
    BY <1>1, <1>4, <1>8, LineFact DEF Inv, SetField
  <2>3. PICK dir \in BOOLEAN : savarr' = [savarr EXCEPT ![m] = Applied(savarr[m], Key, l, dir)]
    BY <1>4, <1>8 DEF SetField
  <2> DEFINE e == Applied(savarr[m], Key, l, dir)
  <2>4. /\ \A k \in Fields : e[k] = IF k = Key THEN Stored(Key, l) ELSE savarr[m][k]
        /\ e.name = savarr[m].name
    BY <2>1, <2>2, FieldSet
  <2>5. savarr' = [savarr EXCEPT ![m] = e]
    BY <2>3
  <2> HIDE DEF e
  <2>6. /\ Len(savarr') = m /\ DOMAIN savarr' = DOMAIN savarr
        /\ \A c \in DOMAIN savarr : savarr'[c] = IF c = m THEN e ELSE savarr[c]
    BY <1>5, <2>5
  <2>7. LastWord(l) # "config"
    BY <2>2 DEF Fields
  <2>8. OpenedIn(file, n + 1) = m
    BY <1>1, <1>2, <2>7, OpenedNext DEF l
  <2>9. Says(file, n + 1, m, e)
    <3>1. Says(file, n, m, savarr[m])
      BY <1>2, <2>1
    <3> QED BY <1>1, <2>2, <2>4, <2>8, <3>1, SaysNow DEF l
  <2>10. \A c \in DOMAIN savarr : c # m => Says(file, n + 1, c, savarr[c])
    BY <1>1, <1>2, <2>8, SaysStill
  <2>11. Named(file, n + 1, savarr')
    <3>1. \A i \in 1..n : LastWord(file[i]) = "config" =>
            savarr'[OpenedIn(file, i)].name = savarr[OpenedIn(file, i)].name
      BY <1>n, <2>4, <2>6
    <3> QED BY <1>1, <1>2, <2>7, <3>1, NamedStill DEF l
  <2> QED BY <1>2, <2>6, <2>8, <2>9, <2>10, <2>11
<1>9. ~BadLine /\ ~StrayField
  BY DEF BadLine, StrayField
<1> QED
  BY <1>6, <1>7, <1>8, <1>9 DEF ParseLine

\* A number that fits its field is stored as it is meant.
LEMMA FitsIsStored ==
  ASSUME NEW l \in Line, NEW k \in Fields, Fits(k, l)
  PROVE  Stored(k, l) = AsRead(k, l)
<1>1. Multiplier(l.unit) \in {1, 60, 3600} /\ l.num \in Int
  BY DEF Multiplier, Line
<1>2. CASE k = "period"
  <2> DEFINE v == l.num * Multiplier(l.unit)
  <2>1. v \in 0..(PeriodRange - 1)
    BY <1>2 DEF Fits, AsRead
  <2>2. l.num \in Nat /\ l.num < LongRange
    BY <1>1, <2>1, DotsavAssumption
  <2> DEFINE w == l.num
  <2>6. w \in Nat /\ w < LongRange
    BY <2>2
  <2> HIDE DEF w
  <2>7. w % LongRange = w
    BY <2>6, DotsavAssumption
  <2>3. Unsigned(l.num) = l.num
    BY <2>7 DEF Unsigned, w
  <2>4. Span(l) = v % PeriodRange
    BY <2>3 DEF Span
  <2> HIDE DEF v
  <2>5. v % PeriodRange = v
    BY <2>1, DotsavAssumption
  <2> QED BY <1>2, <2>4, <2>5 DEF Stored, AsRead, v
<1>3. CASE k = "stack"
  <2>1. l.num \in 0..255
    BY <1>3 DEF Fits
  <2> DEFINE v == l.num
  <2>3. v \in 0..255
    BY <2>1
  <2> HIDE DEF v
  <2>5. LongRange \in Nat /\ LongRange > 255
    BY DotsavAssumption
  <2>4. v % LongRange = v
    BY <2>3, <2>5
  <2>2. Unsigned(l.num) = l.num
    BY <2>4 DEF Unsigned, v
  <2> QED BY <1>3, <2>2 DEF Stored, AsRead
<1>4. CASE k \notin {"period", "stack"}
  BY <1>4 DEF Stored, AsRead
<1> QED
  BY <1>2, <1>3, <1>4

\* A file means what a reader thinks: while it is read, every configuration has the name its line
\* gives it and holds what the lines about it say, the later of two lines with a key counting,
\* except for numbers that are too large for their fields.
THEOREM ItReadsAsWritten == DotsavSpec => []ReadsAsWritten
<1>1. Inv /\ DotsavInit => AsWritten
  <2> SUFFICES ASSUME DotsavInit PROVE AsWritten
    OBVIOUS
  <2>1. lineno - 1 = 0 /\ savarr = <<>> /\ Len(savarr) = 0 /\ DOMAIN savarr = {}
    BY DEF DotsavInit
  <2>2. {i \in 1..0 : LastWord(file[i]) = "config"} = {}
    OBVIOUS
  <2>3. OpenedIn(file, 0) = 0
    BY <2>2, FS_EmptySet DEF OpenedIn
  <2>4. Named(file, 0, savarr)
    BY DEF Named
  <2> QED BY <2>1, <2>3, <2>4 DEF AsWritten
<1>2. Inv /\ AsWritten /\ [DotsavNext]_dotsavVars => AsWritten'
  <2> SUFFICES ASSUME Inv, AsWritten, [DotsavNext]_dotsavVars, state' = "reading" PROVE AsWritten'
    BY DEF AsWritten
  <2>1. CASE UNCHANGED dotsavVars
    BY <2>1 DEF dotsavVars, AsWritten
  <2>2. CASE Finish
    BY <2>2 DEF Finish
  <2>3. CASE ParseLine
    BY <2>3, ParseLineReads
  <2> QED BY <2>1, <2>2, <2>3 DEF DotsavNext
<1>3. Inv /\ AsWritten => ReadsAsWritten
  <2>1. \A n : Opened(n) = OpenedIn(file, n)
    BY DEF Opened, OpenedIn
  <2>2. Range(Keys) \ {"config"} = Fields
    BY TableFact DEF Fields
  <2> SUFFICES ASSUME Inv, AsWritten, state = "reading" PROVE ReadsAsWritten
    BY DEF ReadsAsWritten
  <2>3. Len(savarr) = Opened(lineno - 1)
    BY <2>1 DEF AsWritten
  <2>4. \A i \in 1..(lineno - 1) :
          LastWord(file[i]) = "config" => savarr[Opened(i)].name = file[i].text
    BY <2>1 DEF AsWritten, Named
  <2>5. ASSUME NEW c \in DOMAIN savarr, NEW k \in Fields
        PROVE  LET line == file[Max(Given(c, k))]
               IN IF Given(c, k) = {} THEN savarr[c][k] = Fresh(<<>>, 0)[k]
                                      ELSE Fits(k, line) => savarr[c][k] = AsRead(k, line)
    <3> DEFINE given == Given(c, k)
               line == file[Max(given)]
    <3>1. given = GivenIn(file, lineno - 1, c, k)
      BY <2>1 DEF GivenIn, Given
    <3>2. Says(file, lineno - 1, c, savarr[c])
      BY DEF AsWritten
    <3>3. given \subseteq 1..(lineno - 1)
      BY DEF Given
    <3>4. lineno - 1 \in Nat /\ file \in Seq(Line) /\ lineno - 1 <= Len(file)
      BY DEF Inv, TypeOK
    <3> HIDE DEF given
    <3>5. IF given = {} THEN savarr[c][k] = Fresh(<<>>, 0)[k]
                        ELSE /\ Max(given) \in given
                             /\ savarr[c][k] = Stored(k, file[Max(given)])
      BY <3>1, <3>2 DEF Says
    <3>6. ASSUME given # {} PROVE line \in Line
      <4>1. Max(given) \in 1..(lineno - 1)
        BY <3>3, <3>5, <3>6
      <4> QED BY <3>4, <4>1
    <3> HIDE DEF line
    <3>7. ASSUME given # {}, Fits(k, line) PROVE savarr[c][k] = AsRead(k, line)
      BY <3>5, <3>6, <3>7, FitsIsStored DEF line
    <3> QED BY <3>5, <3>7 DEF given, line
  <2> QED BY <2>2, <2>3, <2>4, <2>5 DEF ReadsAsWritten
<1> QED
  BY <1>1, <1>2, <1>3, InitInv, DotsavInvariant, PTL DEF DotsavSpec
=============================================================================
