------------------------------ MODULE MCDotsav -------------------------------
(* Dotsavs for TLC. *)
EXTENDS Dotsav

With(key, text) == [words |-> <<key>>, text |-> text, num |-> -1, unit |-> ""]
Numeric(key, num, unit) == [words |-> <<key>>, text |-> <<"#">>, num |-> num, unit |-> unit]
Config(name) == With("config", name)

Save == With("save", <<"/", "s">>)
Backup == With("backup", <<"/", "d">>)
Period == Numeric("period", 1, "h")
Stack == Numeric("stack", 3, "")
Compress == With("compress", <<"y">>)

\* The lines every configuration needs, in some orders.
Bodies == {<<Save, Backup, Period, Stack>>, <<Stack, Period, Backup, Save>>,
           <<Backup, Stack, Save, Period>>}

\* One more line, good or bad: other values, values at and beyond the limits (with ranges
\* of 4096 and 65536, 4096 does not fit, 256 hours are stored as none and 2 hours as 3104
\* seconds, -65535 is read as 1, and 65537 is out of range), and keys that are put together or unknown, a blank line.
MoreLines ==
  {Compress, With("compress", <<"n">>), With("compress", <<"x">>),
   With("save", <<"/", "t">>), With("save", <<"t">>), With("backup", <<"/", "d", "/", "a">>),
   Numeric("period", 2, "h"), Numeric("period", 256, "h"), Numeric("period", 4095, ""),
   Numeric("period", 4096, ""), Numeric("period", 1, "w"), Numeric("period", -1, ""),
   Numeric("stack", 255, ""), Numeric("stack", 256, ""), Numeric("stack", 0, ""),
   Numeric("stack", 2, "h"), Numeric("stack", -65535, ""), Numeric("stack", 65537, ""),
   [words |-> <<"save", "backup">>, text |-> <<"/", "e">>, num |-> -1, unit |-> ""],
   [words |-> <<"backup", "save">>, text |-> <<"/", "e">>, num |-> -1, unit |-> ""],
   With("snapshot", <<"n">>), With("stack", <<>>),
   [words |-> <<>>, text |-> <<>>, num |-> -1, unit |-> ""]}

\* A body with one more line, or with one line less.
Varied == {InsertAt(b, i, x) : b \in Bodies, i \in 1..5, x \in MoreLines}
Shortened == {RemoveAt(b, i) : b \in Bodies, i \in 1..4}

Pieces == STRING

NameA == <<"a">>
NameB == <<"b">>
Spaced == <<"a", " ", "b">>
Archive == <<"a", ".ss">>
Deep == <<"a", "/", "b">>

Section(name, body) == <<Config(name)>> \o body
First == {Section(NameA, b) : b \in Varied \cup Shortened}
Whole == <<Stack, Save, Backup, Period>>
Packed == <<Save, Backup, Compress, Period, Stack>>
Second == {Section(NameB, b) : b \in {Packed, <<Save, Period, Stack>>, <<With("save", <<"/", "t">>), Backup, Stack>>}}
          \cup {Section(n, Whole) : n \in {NameA, NameB, Spaced, Archive, Deep}}
Third == {Section(n, b) : n \in {NameA, NameB, <<"c">>}, b \in {Whole, Packed}}

SmallFiles ==
  {<<>>} \cup {<<x>> \o s : x \in MoreLines, s \in Third}
  \cup {s \o t : s \in First, t \in Second}
  \cup {s \o t \o u : s \in {Section(NameA, b) : b \in Bodies}, t \in Second, u \in Third}

=============================================================================
