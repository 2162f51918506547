------------------------------ MODULE MCTexts ------------------------------
(***************************************************************************)
(* Command lines, paths and messages for Texts, and the dotsavs of MCDotsav *)
(* beside them: in each behaviour one of the four parts runs.              *)
(***************************************************************************)
EXTENDS Texts, MCDotsav

-----------------------------------------------------------------------------
(* Command lines. *)
DigitWorth == [d \in {"0", "7"} |-> IF d = "0" THEN 0 ELSE 7]
Configs == {Text(<<"x">>)}
Upto(n, S) == UNION {[1..k -> S] : k \in 0..n}
T(x) == Text(<<x>>)

MainWords ==
  {T("copy"), T("x"), T("sizeof"), Text(<<"l", "o">>), Text(<<"t", "i">>), Short(<<"q">>), Short(<<>>), Short(<<"h">>), EndOfOptions}
  \cup {Long(FALSE, t, v) : t \in {<<>>, <<"l">>, <<"d", "o">>, <<"t">>, <<"help">>}, v \in {{}, {<<"x">>}}}
CopyWords ==
  {T("x"), T("y"), T("7"), T("0"), EndOfOptions, Long(FALSE, <<"t">>, {}), Long(FALSE, <<"t", "h">>, {<<"7">>}),
   Long(FALSE, <<"t", "h">>, {<<>>}), Long(FALSE, <<"f">>, {}), Long(FALSE, <<"f">>, {<<"7">>}),
   Long(TRUE, <<"t">>, {}), Long(FALSE, <<"t", "h", "q">>, {})}
  \cup {Short(t) : t \in {<<>>, <<"f">>, <<"n">>, <<"f", "n">>, <<"n", "f">>, <<"f", "n", "7">>}}
SizeofWords ==
  {T("x"), EndOfOptions, Short(<<"s">>), Short(<<"s", "s">>), Short(<<>>)}
  \cup {Long(no, t, {}) : no \in BOOLEAN, t \in {<<>>, <<"f">>, <<"f", "r">>, <<"d", "i">>}}
QueryWords ==
  {T("path"), T("limit"), T("x"), EndOfOptions, Short(<<>>), Long(FALSE, <<>>, {<<"x">>}), Long(FALSE, <<"t", "i">>, {}),
   Long(FALSE, <<"help">>, {})}

\* Values around the limits 69 and 99: 77 and 770 are too big, and so is -7, which is 93, but
\* not -77, which is 23.
Numbers ==
  {Text(s \o t) : s \in {<<>>, <<"+">>}, t \in {<<>>, <<"0">>, <<"0", "7">>, <<"7", "7">>, <<"7", "7", "0">>, <<"7", "x">>}}
  \cup {Short(t) : t \in {<<"0">>, <<"7">>, <<"7", "7">>, <<"7", "7", "0">>}}
Paths == {Text(t) : t \in {<<>>, <<"/">>, <<"a", "/", "x">>, <<"x", "/">>, <<"x">>}}

Lines ==
  {<<T("copy"), Short(<<"n">>), w, T("x"), T("y")>> : w \in Numbers}
  \cup {<<T("copy"), Long(FALSE, <<"t">>, {Bytes(w)}), T("x")>> : w \in Numbers}
  \cup {<<T("copy"), v, w, T("y")>> : v, w \in Paths}
  \cup Upto(2, MainWords)
  \cup {<<T("copy")>> \o l : l \in Upto(3, CopyWords)}
  \cup {<<T("sizeof")>> \o l : l \in Upto(3, SizeofWords)}
  \cup {<<Long(FALSE, <<"l">>, {<<"x">>}), T("query")>> \o l : l \in Upto(3, QueryWords)}
  \cup {<<T(c)>> : c \in {"backup", "help", "version"}}

-----------------------------------------------------------------------------
(* Buffers and messages. *)

X == <<"x">>
XY == <<"x", "y">>
XYXY == <<"x", "y", "x", "y">>
Joint(ws) == FoldLeft(LAMBDA t, w : Append(t, " ") \o w, Head(ws), Tail(ws))
Usages == {Joint(ws) : ws \in {<<XYXY>>, <<X, X>>, <<X, XY>>, <<XY, XY>>, <<X, XY, X, XYXY>>, <<XYXY, XYXY, X>>, <<X, X, X, X, XY>>}}

Users == {"walk", "names", "query", "sources", "pid", "usage"}
Roots == {<<"/">>, <<"/", "a">>, <<"/", "a", "\\">>, <<"/", "a", "/", "b", "/">>}
Bases == {<<"a">>, <<"a", "b", "c">>}

\* Messages that fit an array of 12 bytes, and that do not, with more control characters than
\* a table of 3 positions takes.
Leads == {<<"w">>}
Messages ==
  Upto(6, {"x", "cntrl"}) \cup {[k \in 1..n |-> IF k = c THEN "cntrl" ELSE "x"] : n \in 7..12, c \in 0..12}
Extras == {<<"e">>, <<"e", "cntrl", "e">>}

-----------------------------------------------------------------------------
(* A dotsav is read, or one of the other texts is worked on. *)

NoDotsav == file = <<>> /\ lineno = 1 /\ savarr = <<>> /\ state = "dead"
NoText == cmd = "none" /\ user = "none" /\ pc = "none"

MCInit ==
  \/ TextsInit /\ NoDotsav
  \/ NoCommandLine /\ NoBuffer /\ NoMessage /\ DotsavInit

\* The parser has ended.
DotsavOver == NoText /\ state # "reading" /\ UNCHANGED <<vars, buffer, message, dotsavVars>>

MCNext ==
  \/ TextsNext /\ UNCHANGED dotsavVars
  \/ DotsavNext /\ UNCHANGED <<vars, buffer, message>>
  \/ DotsavOver
MCSpec == MCInit /\ [][MCNext]_<<vars, buffer, message, dotsavVars>>

=============================================================================
