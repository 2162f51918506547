------------------------------- MODULE StrBuf -------------------------------
(***************************************************************************)
(* Text buffers and lists of them (platfree/strbuf.c, platfree/strlist.c), *)
(* in the orders of calls their users make: the walk of a tree, the names  *)
(* made behind a prefix by the copy and by the rotation, the query of      *)
(* paths, the list of a copy with several sources, the search for a pid    *)
(* file, the lines of a usage.                                             *)
(*                                                                         *)
(* A buffer keeps the length of its text beside the text, which ends with  *)
(* NUL wherever that stands: the two may disagree.                         *)
(***************************************************************************)
EXTENDS Integers, SequencesExt

CONSTANTS
  User,       \* which of the users are looked at
  Root,       \* prefixes and paths
  Base,       \* names that go behind them
  Usage,      \* texts that are printed in lines
  LineWidth,  \* the length of a line, and of every word at most
  Spare,      \* fix_grow()'s addend: 16
  MaxSteps    \* how many calls a user makes

VARIABLES
  user,     \* whose buffer it is
  phase,    \* what the user does next
  sb,       \* the buffer
  sl,       \* the list
  meant,    \* the text the user has put together
  pushed,   \* the texts on the list
  drifted,  \* the length has been normalised with when it was not the text's
  steps

vars == <<user, phase, sb, sl, meant, pushed, drifted, steps>>

NUL == "NUL"
Junk == "junk"

-----------------------------------------------------------------------------
(* A buffer: the memory it holds, the length of its text and of the initial text. *)

STRBUF_INIT == [str |-> <<>>, len |-> 0, baslen |-> 0]
Visible(b) == SubSeq(b.str, 1, SelectInSeq(b.str, LAMBDA c : c = NUL) - 1)

fix_grow(n) == ((n + Spare) * 3) \div 2
\* CAP_ALLOC(): at least n.
CapAlloc(cap, n) == IF n <= cap THEN cap ELSE IF fix_grow(cap) < n THEN n ELSE fix_grow(cap)
Grown(m, n) == [i \in 1..CapAlloc(Len(m), n) |-> IF i <= Len(m) THEN m[i] ELSE Junk]

\* Mutant of strbuf_growlen: no place for the terminator.
strbuf_growlenShort(b, n) == [b EXCEPT !.str = Grown(@, b.len + n)]

strbuf_growlen(b, n) == [b EXCEPT !.str = Grown(@, b.len + n + 1)]

\* memcpy() of a text with its terminator; what goes past the end is lost.
Put(m, idx, t) ==
  [i \in DOMAIN m |-> IF i \in idx + 1..idx + Len(t) THEN t[i - idx] ELSE IF i = idx + Len(t) + 1 THEN NUL ELSE m[i]]

strbuf_concat2(b, t, extalloc) ==
  LET g == strbuf_growlen(b, Len(t) + extalloc)
  IN  [g EXCEPT !.str = Put(@, b.len, t), !.len = @ + Len(t)]
strbuf_concat(b, t) == strbuf_concat2(b, t, 0)
strbuf_from2(t, extalloc) == [strbuf_concat2(STRBUF_INIT, t, extalloc) EXCEPT !.baslen = Len(t)]
strbuf_reset_from(b, t) == [strbuf_concat([b EXCEPT !.len = 0], t) EXCEPT !.baslen = Len(t)]
strbuf_require_cap(b, n) == [b EXCEPT !.str = Grown(@, n)]

\* The text is cut at its new end, its length is not: it stays, or is one too many.
strbuf_concatat_base(b, t) ==
  LET idx == b.baslen
      overlap == b.len - (idx + 1)
      alloc == IF Len(t) > overlap THEN Len(t) - overlap ELSE 0
      g == IF alloc > 0 THEN strbuf_growlen(b, alloc) ELSE b
  IN  IF idx = b.len THEN strbuf_concat(b, t)
      ELSE [g EXCEPT !.str = Put(@, idx, t), !.len = @ + alloc]

strbuf_reset_length(b) == [b EXCEPT !.len = b.baslen]
strbuf_trunc(b, n) == [b EXCEPT !.len = @ - n, !.str = [@ EXCEPT ![b.len - n + 1] = NUL]]
strbuf_reset(b) == strbuf_trunc(b, b.len - b.baslen)
strbuf_strrsep(t) == SelectLastInSeq(t, LAMBDA c : c = "/")
strbuf_to_dirname(b) == strbuf_trunc(b, b.len - (strbuf_strrsep(Visible(b)) - 1))

strbuf_normalize_path(b) ==
  LET n == [b EXCEPT !.str = [i \in DOMAIN @ |-> IF i <= b.len /\ @[i] = "\\" THEN "/" ELSE @[i]]]
      sep == strbuf_strrsep(Visible(n))
      cut == strbuf_trunc(n, 1)
  IN  IF sep = 0 \/ sep # Len(Visible(n)) THEN n
      ELSE IF b.baslen = b.len THEN [cut EXCEPT !.baslen = cut.len] ELSE cut

strbuf_concat_basename(b, t) ==
  LET g == strbuf_growlen(b, Len(t) + 1)
  IN  [g EXCEPT !.str = Put(@, b.len, <<"/">> \o t), !.len = @ + Len(t) + 1]
strbuf_concat_path(b, prefix, t) ==
  LET g == strbuf_growlen(b, Len(prefix) + Len(t) + 1)
  IN  [g EXCEPT !.str = Put(@, b.len, prefix \o <<"/">> \o t), !.len = @ + Len(prefix) + Len(t) + 1]

-----------------------------------------------------------------------------
(* A list: its buffers, how many are in use, and how many have ever been. *)

STRLIST_INIT == [list |-> <<>>, nl |-> 0, uninit |-> 0]
Unmade == [STRBUF_INIT EXCEPT !.len = -1]

\* strlist_grow1(): what is new in the array is marked as having no memory.
strlist_grow1(l) ==
  LET cap == CapAlloc(Len(l.list), l.nl + 1)
  IN  [l EXCEPT !.list = [i \in 1..cap |-> IF i <= l.uninit THEN l.list[i] ELSE Unmade]]

strlist_push2(l, t, extalloc) ==
  LET g == IF l.nl = Len(l.list) THEN strlist_grow1(l) ELSE l
      b == IF g.list[l.nl + 1].str = <<>> THEN STRBUF_INIT ELSE g.list[l.nl + 1]
  IN  [g EXCEPT !.list[l.nl + 1] = strbuf_concat2(b, t, extalloc), !.nl = @ + 1,
                !.uninit = IF @ <= l.nl + 1 THEN l.nl + 1 ELSE @]

\* strlist_pop2(): the text stays where it is until the next push.
strlist_pop2(l) == [l EXCEPT !.nl = @ - 1, !.list[l.nl] = strbuf_reset_length(@)]
Popped(l) == Visible(l.list[l.nl])

\* strlist_reset(): everything is popped.
strlist_reset(l) == [l EXCEPT !.nl = 0, !.list = [i \in DOMAIN @ |-> IF i <= l.nl THEN strbuf_reset_length(@[i]) ELSE @[i]]]

\* The next line of a text, from s.ptr on: it ends at the last blank that lets it fit, or is
\* what is left.
NextLine(t, bound, s) ==
  LET p == Max({j \in s.ptr..s.ptr + bound : t[j] = " "}) IN
  IF s.ptr > Len(t) THEN s
  ELSE IF s.ptr + bound > Len(t) THEN [ptr |-> Len(t) + 1, lines |-> Append(s.lines, SubSeq(t, s.ptr, Len(t)))]
  ELSE [ptr |-> p + 1, lines |-> Append(s.lines, SubSeq(t, s.ptr, p - 1))]
strlist_split_word(t, bound) ==
  LET read[k \in 0..Len(t)] == IF k = 0 THEN [ptr |-> 1, lines |-> <<>>] ELSE NextLine(t, bound, read[k - 1])
  IN  read[Len(t)].lines
PushAll(l, lines) ==
  LET list[k \in 0..Len(lines)] == IF k = 0 THEN l ELSE strlist_push2(list[k - 1], lines[k], 0)
  IN  list[Len(lines)]

-----------------------------------------------------------------------------
(* The users.  What they have put together is meant to be read in the phases Shown. *)

Shown == {"dir", "entry", "name", "up"}
Goes(from, to) == phase = from /\ phase' = to /\ steps < MaxSteps /\ steps' = steps + 1 /\ UNCHANGED user
Becomes(b, t) == sb' = b /\ meant' = t
NoList == UNCHANGED <<sl, pushed>>

\* fileiter()
StartWalk ==
  /\ user = "walk" /\ Goes("start", "dir")
  /\ \E dir \in Root : Becomes(strbuf_reset_from(sb, dir), dir)
  /\ NoList /\ UNCHANGED drifted

WalkEntry ==
  /\ user = "walk" /\ Goes("dir", "entry")
  /\ \E t \in Base :
       LET slashed == IF sb.str[sb.len] = "/" THEN sb ELSE strbuf_concat(sb, <<"/">>)
       IN  Becomes(strbuf_concat(slashed, t), (IF Last(meant) = "/" THEN meant ELSE Append(meant, "/")) \o t)
  /\ NoList /\ UNCHANGED drifted

\* dispatch_file(): a directory is put on the list.
WalkPush ==
  /\ user = "walk" /\ Goes("entry", "entry")
  /\ ~Contains(pushed, meant)
  /\ sl' = strlist_push2(sl, Visible(sb), 2)
  /\ pushed' = Append(pushed, meant)
  /\ UNCHANGED <<sb, meant, drifted>>

WalkReset ==
  /\ user = "walk" /\ Goes("entry", "dir")
  /\ Becomes(strbuf_reset(sb), SubSeq(meant, 1, sb.baslen))
  /\ NoList /\ UNCHANGED drifted

WalkPop ==
  /\ user = "walk" /\ Goes("dir", "dir") /\ pushed # <<>>
  /\ Becomes(strbuf_reset_from(sb, Popped(sl)), Last(pushed))
  /\ sl' = strlist_pop2(sl) /\ pushed' = Front(pushed)
  /\ UNCHANGED drifted

WalkUp ==
  /\ user = "walk" /\ (Goes("dir", "up") \/ Goes("up", "up"))
  /\ strbuf_strrsep(meant) > 1
  /\ Becomes(strbuf_to_dirname(sb), SubSeq(meant, 1, strbuf_strrsep(meant) - 1))
  /\ NoList /\ UNCHANGED drifted

\* copy(), the rotation: names behind a prefix.
StartNames ==
  /\ user = "names" /\ Goes("start", "name")
  /\ \E prefix \in Root, ext \in {0, 2} : Becomes(strbuf_from2(prefix, ext), prefix)
  /\ NoList /\ UNCHANGED drifted

NextName ==
  /\ user = "names" /\ Goes("name", "name")
  /\ \E t \in Base \cup {<<>>} : Becomes(strbuf_concatat_base(sb, t), SubSeq(meant, 1, sb.baslen) \o t)
  /\ NoList /\ UNCHANGED drifted

\* cmd_query_path()
StartQuery ==
  /\ user = "query" /\ Goes("start", "asked")
  /\ Becomes(strbuf_require_cap(sb, 3), <<>>)
  /\ NoList /\ UNCHANGED drifted

Slashes(t) == [i \in DOMAIN t |-> IF t[i] = "\\" THEN "/" ELSE t[i]]
Normal(t) == LET s == Slashes(t) IN IF s # <<>> /\ Last(s) = "/" THEN Front(s) ELSE s

QueryPath ==
  /\ user = "query" /\ (Goes("asked", "name") \/ Goes("name", "name"))
  /\ \E path \in Root :
       LET b == strbuf_concatat_base(sb, path)
       IN  Becomes(strbuf_normalize_path(b), Normal(path)) /\ drifted' = (drifted \/ b.len # Len(path))
  /\ NoList

\* copy_multisrc()
StartSources ==
  /\ user = "sources" /\ Goes("start", "base")
  /\ \E dest \in Root : Becomes(strbuf_normalize_path(strbuf_from2(dest, 0)), Normal(dest))
  /\ NoList /\ UNCHANGED drifted

NextSource ==
  /\ user = "sources" /\ Goes("base", "name")
  /\ \E t \in Base : Becomes(strbuf_concat_basename(sb, t), meant \o <<"/">> \o t)
  /\ NoList /\ UNCHANGED drifted

NextSourceBase ==
  /\ user = "sources" /\ Goes("name", "base")
  /\ Becomes(strbuf_reset_length(sb), SubSeq(meant, 1, sb.baslen))
  /\ NoList /\ UNCHANGED drifted

\* check_unique_process()
PidFile ==
  /\ user = "pid" /\ (Goes("start", "name") \/ Goes("base", "name"))
  /\ \E dir \in Root, t \in Base : Becomes(strbuf_concat_path(sb, dir, t), dir \o <<"/">> \o t)
  /\ NoList /\ UNCHANGED drifted

NextPidFile ==
  /\ user = "pid" /\ Goes("name", "base")
  /\ Becomes(strbuf_reset(sb), <<>>)
  /\ NoList /\ UNCHANGED drifted

\* print_command_usage(), print_option_usage(): the lines of one usage after the other.
SplitUsage ==
  /\ user = "usage" /\ Goes("start", "lines")
  /\ \E t \in Usage :
       LET lines == strlist_split_word(t, LineWidth) IN
       /\ meant' = t /\ pushed' = lines
       /\ sl' = PushAll(sl, lines)
  /\ UNCHANGED <<sb, drifted>>

NextUsage ==
  /\ user = "usage" /\ Goes("lines", "start")
  /\ sl' = strlist_reset(sl) /\ pushed' = <<>>
  /\ UNCHANGED <<sb, meant, drifted>>

Init ==
  /\ user \in User
  /\ phase = "start"
  /\ sb = STRBUF_INIT /\ sl = STRLIST_INIT
  /\ meant = <<>> /\ pushed = <<>>
  /\ drifted = FALSE
  /\ steps = 0

\* The user's work ends anywhere.
Done == UNCHANGED vars

Next ==
  \/ StartWalk \/ WalkEntry \/ WalkPush \/ WalkReset \/ WalkPop \/ WalkUp
  \/ StartNames \/ NextName
  \/ StartQuery \/ QueryPath
  \/ StartSources \/ NextSource \/ NextSourceBase
  \/ PidFile \/ NextPidFile
  \/ SplitUsage \/ NextUsage
  \/ Done

Spec == Init /\ [][Next]_vars

-----------------------------------------------------------------------------
\* Lines with a blank between them.
Joined(lines) == FlattenSeq([k \in DOMAIN lines |-> IF k = 1 THEN lines[k] ELSE <<" ">> \o lines[k]])

\* Whatever the length says, the text a user reads is the one it has put together, also in
\* memory used before, and ends within its length, which is within the memory; and the list
\* gives back what was put on it, last first; and the lines of a usage hold all of its text
\* and fit.  (A path that is normalised while the length
\* is not the text's, as the second of a query is, may keep its last slash.)
TextAsMeant ==
  /\ phase \in Shown =>
       /\ ~drifted => Visible(sb) = meant
       /\ Len(Visible(sb)) <= sb.len /\ sb.len < Len(sb.str)
  /\ sl.nl = Len(pushed)
  /\ \A i \in DOMAIN pushed : Visible(sl.list[i]) = pushed[i]
  /\ phase = "lines" => Joined(pushed) = meant /\ \A i \in DOMAIN pushed : Len(pushed[i]) <= LineWidth

=============================================================================
