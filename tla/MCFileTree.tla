----------------------------- MODULE MCFileTree -----------------------------
(* Command lines and file systems for FileTree. *)
EXTENDS FileTree

Names == {"s", "d", "a", "b"}
\* b is as long as a/a: names of one length stand for directories on different levels.
Widths == [x \in Names |-> IF x = "b" THEN 3 ELSE 1]

\* Maps a tree of relative paths to the place it stands at.
At(root, t) == [p \in {root \o q : q \in DOMAIN t} |-> t[SubSeq(p, Len(root) + 1, Len(p))]]
Leaf(k) == [p \in {<<>>} |-> k]
Node(x, y) ==
  LET below(n, t) == IF DOMAIN t = {} THEN t ELSE At(<<n>>, t)
  IN  [p \in {<<>>} \cup DOMAIN below("a", x) \cup DOMAIN below("b", y) |->
         IF p = <<>> THEN "dir" ELSE IF p \in DOMAIN below("a", x) THEN below("a", x)[p] ELSE below("b", y)[p]]

Nothing == [p \in {} |-> "reg"]
\* Every tree of the given depth whose leaves are of the given kinds.
RECURSIVE TreesOf(_, _)
TreesOf(depth, kinds) ==
  {Leaf(k) : k \in kinds} \cup
    (IF depth = 0 THEN {} ELSE LET sub == TreesOf(depth - 1, kinds) \cup {Nothing} IN {Node(x, y) : x, y \in sub})

Src == <<"s">>
Dst == <<"d", "d">>
Ground == [p \in {<<>>} |-> "dir"]

Place(t, u) == [p \in DOMAIN Ground \cup DOMAIN t \cup DOMAIN u |->
                  IF p \in DOMAIN t THEN t[p] ELSE IF p \in DOMAIN u THEN u[p] ELSE Ground[p]]
Parent == [p \in {<<"d">>} |-> "dir"]

Line(c, f, d, w) == [cmd |-> c, force |-> f, src |-> Src, dst |-> d, was |-> w]

\* One entry of any kind, or a directory of one, or two, and some with a file beside it.
Sources ==
  {Node(x, Nothing) : x \in {Leaf(k) : k \in Kind \ {"part"}} \cup TreesOf(1, {"reg"})}
  \cup {Node(x, Leaf("reg")) : x \in {Leaf("lnk"), Node(Leaf("reg"), Nothing)}}

\* Copies of small trees to a place that is free, taken, or cannot be made; removals of
\* trees of up to four levels, with little to copy; sizes; a destination inside the source,
\* one that is there, one where the source's deepest files no longer fit, one with too long
\* a parent, one right under the root, and a source that is not there.
JobSet ==
  {Line("copy", FALSE, Dst, Place(At(Src, t), Parent)) : t \in Sources \cup {Leaf("reg")}}
  \cup {Line("copy", FALSE, Dst, Place(At(Src, Node(Leaf("reg"), Nothing)), u)) :
          u \in {Nothing, At(<<"d">>, Leaf("reg"))}}
  \cup {Line("copy", f, Dst, Place(At(Src, Node(Leaf("reg"), Nothing)), Place(Parent, At(Dst, u)))) :
          f \in BOOLEAN, u \in {Leaf("lnk"), Leaf("reg")}}
  \cup {Line("copy", TRUE, Dst, Place(At(Src, Node(Leaf("reg"), Nothing)), Place(Parent, At(Dst, u)))) :
          u \in TreesOf(3, {}) \cup TreesOf(1, {"reg"})}
  \cup {Line("copy", FALSE, <<"s", "d">>, Place(At(Src, Node(Leaf("reg"), Nothing)), Nothing))}
  \cup {Line("copy", FALSE, <<"d", "d", "d", "d">>, Place(At(Src, Node(Node(x, Nothing), Nothing)), Parent)) :
          x \in {Leaf("reg"), Leaf("dir")}}
  \cup {Line("copy", FALSE, Dst, Place(Nothing, Parent)),
        Line("copy", FALSE, <<"d">>, Place(At(Src, Leaf("reg")), Nothing)),
        Line("copy", FALSE, <<"d", "d", "d", "d", "d", "d", "d">>, Place(At(Src, Leaf("reg")), Parent)),
        Line("copy", TRUE, <<"s", "d">>, Place(At(Src, Node(Leaf("reg"), Nothing)), At(<<"s", "d">>, Leaf("reg"))))}
  \cup {Line("sizeof", FALSE, Dst, Place(At(Src, t), Nothing)) : t \in Sources \cup {Leaf("reg"), Leaf("empty")}}

=============================================================================
