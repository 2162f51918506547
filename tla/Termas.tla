------------------------------- MODULE Termas -------------------------------
(***************************************************************************)
(* Warnings and errors (platfree/termas.c): a line is put together in an   *)
(* array of fixed size, cut where it does not fit; its control characters  *)
(* are replaced in place by a replacement of several bytes, if there is    *)
(* room for all of them, or by a question mark each; and it is written at  *)
(* once.                                                                   *)
(***************************************************************************)
EXTENDS Integers, SequencesExt

CONSTANTS
  Size,       \* of the array: 4096
  Table,      \* how many control characters can be recorded: 24
  Lead,       \* prefixes, shorter than the array
  Message,    \* formatted messages, as sequences of bytes
  Extra       \* {}, or {what strerror() says}

VARIABLES
  pc,
  parts,      \* what is to be reported
  msg,        \* the array
  buf,        \* how much of it is used
  avail,      \* how much is left, but for the newline
  cntrl,      \* the positions of control characters
  off, lasidx, i,   \* format_cntrl_char_advanced()'s
  written     \* what has been written

vars == <<pc, parts, msg, buf, avail, cntrl, off, lasidx, i, written>>

Cntrl == "cntrl"
\* CNTRL_REPLACEMENT, U+FFFD in UTF-8
Replacement == <<"ef", "bf", "bd">>
replen == Len(Replacement)

Least(x, y) == IF x <= y THEN x ELSE y

\* memcpy(); no more than the array holds
Put(m, at, t) == [j \in DOMAIN m |-> IF j \in at..at + Len(t) - 1 THEN t[j - at + 1] ELSE m[j]]
Add(t) ==
  /\ msg' = Put(msg, buf, t)
  /\ buf' = buf + Len(t)
  /\ avail' = avail - Len(t)
Cut(t, n) == SubSeq(t, 1, Least(Len(t), n))

Scanning == UNCHANGED <<parts, cntrl, off, lasidx, i, written>>

vreport_prefix ==
  /\ pc = "prefix" /\ pc' = "message"
  /\ Add(parts.lead)
  /\ Scanning

\* vsnprintf() also writes a terminator, behind which nothing counts.
vreport_message ==
  /\ pc = "message" /\ pc' = "extra"
  /\ Add(Cut(parts.message, avail))
  /\ Scanning

vreport_extra ==
  /\ pc = "extra" /\ pc' = "scan"
  /\ IF avail > 2
       THEN \/ parts.extra = {} /\ UNCHANGED <<msg, buf, avail>>
            \/ \E e \in parts.extra : Add(<<";", " ">> \o Cut(e, avail - 2))
       ELSE UNCHANGED <<msg, buf, avail>>
  /\ Scanning

\* The positions of control characters, one after the other.
record_cntrl_char(str, nr) ==
  LET upto[n \in 0..nr] == IF n = 0 THEN <<>>
                          ELSE IF str[n - 1] = Cntrl THEN Append(upto[n - 1], n - 1) ELSE upto[n - 1]
  IN  upto[nr]

format_cntrl_char_simple(at) == msg' = [j \in DOMAIN msg |-> IF j \in Range(at) THEN "?" ELSE msg[j]]

\* The choice of a replacement.  Only so much of the array is given to the replacements as
\* they need; that much is taken even when it is not there.  The table never grows: a position
\* stored behind its end leaves the program to chance.
vreport_format_cntrl_char ==
  LET at == record_cntrl_char(msg, buf)
      need == Len(at) * (replen - 1)
  IN
  /\ pc = "scan"
  /\ cntrl' = at
  /\ \/ Len(at) > Table /\ pc' = "wild" /\ UNCHANGED <<msg, avail, off, lasidx, i>>
     \/ /\ Len(at) <= Table /\ need > avail
        /\ format_cntrl_char_simple(at) /\ avail' = avail - need
        /\ pc' = "write" /\ UNCHANGED <<off, lasidx, i>>
     \/ /\ Len(at) <= Table /\ need <= avail
        /\ off' = need /\ lasidx' = buf - 1 /\ i' = Len(at) /\ avail' = avail - need
        /\ pc' = "format" /\ UNCHANGED msg
  /\ UNCHANGED <<parts, buf, written>>

\* Mutant of format_cntrl_char_advanced: the text before a control character is moved with it.
format_cntrl_char_advancedLate ==
  /\ pc = "format"
  /\ IF i = 0 THEN pc' = "write" /\ UNCHANGED <<msg, off, lasidx, i>>
     ELSE LET at == cntrl[i]
              moved == [j \in DOMAIN msg |-> IF j \in at + 1 + off..lasidx + off THEN msg[j - off] ELSE msg[j]]
          IN  /\ msg' = Put(moved, at + 1 + off - replen, Replacement)
              /\ lasidx' = at - 1
              /\ i' = i - 1
              /\ UNCHANGED <<pc, off>>
  /\ UNCHANGED <<parts, buf, avail, cntrl, written>>

\* The last control character not yet replaced: what follows it moves to its place, the
\* replacement goes before that.
format_cntrl_char_advanced ==
  /\ pc = "format"
  /\ IF i = 0 THEN pc' = "write" /\ UNCHANGED <<msg, off, lasidx, i>>
     ELSE LET at == cntrl[i]
              moved == [j \in DOMAIN msg |-> IF j \in at + 1 + off..lasidx + off THEN msg[j - off] ELSE msg[j]]
          IN  /\ msg' = Put(moved, at + 1 + off - replen, Replacement)
              /\ off' = off - (replen - 1)
              /\ lasidx' = at - 1
              /\ i' = i - 1
              /\ UNCHANGED pc
  /\ UNCHANGED <<parts, buf, avail, cntrl, written>>

\* The newline is the last byte of the line, wherever avail puts it.
vreportf ==
  LET len == Size - avail IN
  /\ pc = "write" /\ pc' = "out"
  /\ written' = [j \in 1..len |-> IF j = len THEN "newline" ELSE IF j <= Size THEN msg[j - 1] ELSE "outside"]
  /\ UNCHANGED <<parts, msg, buf, avail, cntrl, off, lasidx, i>>

Init ==
  /\ pc = "prefix"
  /\ parts \in [lead : Lead, message : Message, extra : {{}} \cup {{e} : e \in Extra}]
  /\ msg = [j \in 0..Size - 1 |-> "junk"]
  /\ buf = 0 /\ avail = Size - 1
  /\ cntrl = <<>> /\ off = 0 /\ lasidx = 0 /\ i = 0
  /\ written = <<>>

Done == pc \in {"out", "wild"} /\ UNCHANGED vars

Next ==
  \/ vreport_prefix \/ vreport_message \/ vreport_extra
  \/ vreport_format_cntrl_char \/ format_cntrl_char_advanced
  \/ vreportf
  \/ Done

Spec == Init /\ [][Next]_vars

-----------------------------------------------------------------------------
\* What the report says, cut where the array ends.
Line ==
  LET begin == Cut(parts.lead \o parts.message, Size - 1) IN
  IF parts.extra # {} /\ Len(begin) < Size - 3
    THEN Cut(begin \o <<";", " ">> \o CHOOSE e \in parts.extra : TRUE, Size - 1)
    ELSE begin
With(r) == FlattenSeq([j \in DOMAIN Line |-> IF Line[j] = Cntrl THEN r ELSE <<Line[j]>>])

\* A report with room for its replacements is written as it was made: prefix first, cut at the
\* end if it is too long, with a replacement for each control character, in its place, and
\* with the newline right behind.  One without that room begins with its text, a question
\* mark for each control character; how it goes on is not the program's doing, since the
\* newline is behind the array (termas.c:157).  Nothing is said of a report with more control
\* characters than the table takes (termas.c:80).
ReportAsMade ==
  pc = "out" =>
    LET wide == With(Replacement)
        narrow == With(<<"?">>)
    IN  IF Len(wide) < Size THEN written = Append(wide, "newline")
        ELSE IsPrefix(narrow, written) /\ Cntrl \notin Range(written)

=============================================================================
