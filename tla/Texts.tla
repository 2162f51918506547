------------------------------- MODULE Texts -------------------------------
(***************************************************************************)
(* The parts of the program that work on texts and share nothing: the      *)
(* command line (ArguPar), buffers and lists (StrBuf), and messages        *)
(* (Termas).  One of them runs in each behaviour; the others stand still.  *)
(***************************************************************************)
EXTENDS ArguPar

CONSTANTS User, Root, Base, Usage, LineWidth, Spare, MaxSteps    \* of StrBuf
CONSTANTS Size, Table, Lead, Message, Extra                       \* of Termas

VARIABLES user, phase, sb, sl, meant, pushed, drifted, steps        \* of StrBuf
VARIABLES pc, parts, msg, buf, avail, cntrl, off, lasidx, i, written  \* of Termas

\* Paths and names are C strings, and a path that is walked is not empty (fileiter() would
\* read before its first byte; an empty path cannot be opened).  No word of a usage is longer
\* than a line, and no usage ends with a blank.
ASSUME BuffersAssumption ==
  /\ User \subseteq {"walk", "names", "query", "sources", "pid", "usage"}
  /\ Spare \in Nat /\ LineWidth \in Nat
  /\ \A t \in Root \cup Base \cup Usage : t \in Seq(Range(t)) /\ "NUL" \notin Range(t)
  /\ <<>> \notin Root
  /\ \A t \in Usage :
       /\ t # <<>> => Last(t) # " "
       /\ \A x \in 1..Len(t) - LineWidth : \E y \in x..x + LineWidth : t[y] = " "

\* Prefixes of reports fit the array: a longer one aborts (termas.c:25).
ASSUME ReportsAssumption ==
  /\ Size \in Nat \ {0} /\ Table \in Nat
  /\ \A t \in Lead \cup Message \cup Extra : t \in Seq(Range(t))
  /\ \A t \in Lead : Len(t) < Size

B == INSTANCE StrBuf
M == INSTANCE Termas

NoCommandLine ==
  /\ cmd = "none" /\ given = <<>> /\ mem = <<>> /\ argc = 0 /\ at = 1 /\ outc = 0
  /\ next = {} /\ set = <<>> /\ subcmd = "" /\ result = "none"
NoBuffer ==
  /\ user = "none" /\ phase = "none" /\ sb = B!STRBUF_INIT /\ sl = B!STRLIST_INIT
  /\ meant = <<>> /\ pushed = <<>> /\ drifted = FALSE /\ steps = 0
NoMessage ==
  /\ pc = "none" /\ parts = <<>> /\ msg = <<>> /\ buf = 0 /\ avail = 0
  /\ cntrl = <<>> /\ off = 0 /\ lasidx = 0 /\ i = 0 /\ written = <<>>

TextsInit ==
  \/ Init /\ NoBuffer /\ NoMessage
  \/ NoCommandLine /\ B!Init /\ NoMessage
  \/ NoCommandLine /\ NoBuffer /\ M!Init

buffer == <<user, phase, sb, sl, meant, pushed, drifted, steps>>
message == <<pc, parts, msg, buf, avail, cntrl, off, lasidx, i, written>>

TextsNext ==
  \/ Next /\ UNCHANGED <<buffer, message>>
  \/ B!Next /\ UNCHANGED <<vars, message>>
  \/ M!Next /\ UNCHANGED <<vars, buffer>>
TextsSpec == TextsInit /\ [][TextsNext]_<<vars, buffer, message>>

\* StrBuf's: the text a user reads is the one it has put together.
TextAsMeant == user # "none" => B!TextAsMeant

\* Termas': a report with room for its replacements is written as it was made.
ReportAsMade == pc # "none" => M!ReportAsMade

=============================================================================
