--------------------------- MODULE FileTreeProofs ---------------------------
(***************************************************************************)
(* What the commands that walk a tree promise, for every tree and every    *)
(* failure.                                                                *)
(*                                                                         *)
(* The invariant grows in layers, each proved with the help of those       *)
(* before it.  Types: the file system stays a tree, the walk stays under   *)
(* its root.  Untouched: what another program has not touched is as it     *)
(* was, outside the destination.  Known and Stage: the copy knows entries  *)
(* of the source only, and the destination holds either what it held or    *)
(* copies of them.  Whole: every entry of the source is copied, or known   *)
(* to be lost, or with the threads, or before the walk.  Explained: it is  *)
(* in one of these places only, so that its own copy is not in its way.    *)
(*                                                                         *)
(* Beside these, Removing says of a removal what is left of the tree and   *)
(* in which order the walk will come to it, and Adding of sizeof that what *)
(* it has added up is what its walk has passed.                            *)
(***************************************************************************)
EXTENDS FileTree, DataFacts, TLAPS

-----------------------------------------------------------------------------
(* Paths. *)

Path == Seq(Name)

\* A path is under another if it begins with it.
LEMMA UnderFact ==
  ASSUME NEW p \in Path, NEW q \in Path
  PROVE  Under(p, q) <=> Len(q) <= Len(p) /\ \A i \in 1..Len(q) : p[i] = q[i]
  <1>1. CASE ~(Len(q) <= Len(p))
    BY <1>1 DEF Under, IsPrefix
  <1>2. CASE Len(q) <= Len(p)
    <2>1. Len(p) \in Nat /\ Len(q) \in Nat
      BY DEF Path
    <2>2. SubSeq(q, 1, Len(q)) = q
      BY <2>1 DEF Path
    <2> DEFINE r == SubSeq(p, 1, Len(q))
    <2>3. r \in Seq(Name) /\ Len(r) = Len(q) /\ \A i \in 1..Len(q) : r[i] = p[i]
      BY <1>2, <2>1 DEF Path
    <2> HIDE DEF r
    <2>4. r = q <=> \A i \in 1..Len(q) : p[i] = q[i]
      BY <2>1, <2>3, SeqEqual DEF Path
    <2>5. Under(p, q) <=> q = r
      BY <1>2, <2>2 DEF Under, IsPrefix, r
    <2> QED
      BY <1>2, <2>4, <2>5
  <1> QED
    BY <1>1, <1>2

\* The directory a path is in.
LEMMA DirFact ==
  ASSUME NEW p \in Path
  PROVE  /\ Front(<<>>) = <<>>
         /\ Front(p) \in Path
         /\ p # <<>> => /\ Len(p) \in Nat \ {0} /\ Len(Front(p)) = Len(p) - 1
                        /\ \A i \in 1..Len(p) - 1 : Front(p)[i] = p[i]
                        /\ Under(p, Front(p)) /\ Front(p) # p
  <1>1. Front(<<>>) = <<>>
    BY DEF Front
  <1>2. CASE p = <<>>
    BY <1>1, <1>2
  <1>3. CASE p # <<>>
    <2>1. /\ Front(p) \in Path /\ Len(Front(p)) = Len(p) - 1 /\ Len(p) \in Nat \ {0}
          /\ \A i \in 1..Len(p) - 1 : Front(p)[i] = p[i]
      BY <1>3, FrontFact DEF Path
    <2>2. Under(p, Front(p)) /\ Front(p) # p
      BY <2>1, UnderFact
    <2> QED
      BY <1>1, <2>1, <2>2
  <1> QED
    BY <1>2, <1>3

\* Being under is an order, in which what a path is under is in a line.
LEMMA UnderIsOrder ==
  ASSUME NEW p \in Path, NEW q \in Path, NEW r \in Path
  PROVE  /\ Under(p, p)
         /\ Under(p, q) /\ Under(q, r) => Under(p, r)
         /\ Under(p, q) /\ Under(p, r) => Under(q, r) \/ Under(r, q)
         /\ Under(p, q) /\ Len(p) = Len(q) => p = q
         /\ Under(p, q) /\ Under(q, p) => p = q
         /\ Under(p, q) /\ p # q => Len(p) > Len(q)
  <1>1. Len(p) \in Nat /\ Len(q) \in Nat /\ Len(r) \in Nat
    BY DEF Path
  <1>2. Under(p, p) /\ (Under(p, q) /\ Under(q, r) => Under(p, r))
    BY <1>1, UnderFact
  <1>3. Under(p, q) /\ Under(p, r) => Under(q, r) \/ Under(r, q)
    BY <1>1, UnderFact
  <1>4. Under(p, q) /\ Len(p) = Len(q) => p = q
    BY <1>1, UnderFact, SeqEqual DEF Path
  <1>5. (Under(p, q) => Len(q) <= Len(p)) /\ (Under(q, p) => Len(p) <= Len(q))
    BY UnderFact
  <1> QED
    BY <1>1, <1>2, <1>3, <1>4, <1>5

\* What is strictly under another is in a directory that is under it, too.
LEMMA UpFact ==
  ASSUME NEW p \in Path, NEW r \in Path, Under(p, r), p # r
  PROVE  p # <<>> /\ Front(p) \in Path /\ Under(Front(p), r)
  <1>1. Len(p) > Len(r) /\ Len(r) \in Nat
    BY UnderIsOrder DEF Path
  <1>2. p # <<>>
    BY <1>1
  <1> QED
    BY <1>1, <1>2, DirFact, UnderFact

\* The beginnings of a path are what it is under.
LEMMA BeginningFact ==
  ASSUME NEW q \in Path
  PROVE  /\ \A i \in 0..Len(q) : /\ SubSeq(q, 1, i) \in Path /\ Len(SubSeq(q, 1, i)) = i
                                 /\ Under(q, SubSeq(q, 1, i))
         /\ \A d \in Path : Under(q, d) => Len(d) \in 0..Len(q) /\ d = SubSeq(q, 1, Len(d))
         /\ \A i \in 1..Len(q) : SubSeq(q, 1, i) # <<>> /\ Front(SubSeq(q, 1, i)) = SubSeq(q, 1, i - 1)
  <1>1. Len(q) \in Nat
    BY DEF Path
  <1>2. ASSUME NEW i \in 0..Len(q)
        PROVE  SubSeq(q, 1, i) \in Path /\ Len(SubSeq(q, 1, i)) = i /\ Under(q, SubSeq(q, 1, i))
    <2> DEFINE s == SubSeq(q, 1, i)
    <2>1. s \in Path /\ Len(s) = i /\ \A j \in 1..i : s[j] = q[j]
      BY <1>1 DEF Path
    <2> HIDE DEF s
    <2>2. Under(q, s)
      BY <1>1, <2>1, UnderFact
    <2> QED
      BY <2>1, <2>2 DEF s
  <1>3. ASSUME NEW d \in Path, Under(q, d)
        PROVE  Len(d) \in 0..Len(q) /\ d = SubSeq(q, 1, Len(d))
    <2>1. Len(d) \in 0..Len(q)
      BY <1>1, <1>3, UnderFact DEF Path
    <2> DEFINE s == SubSeq(q, 1, Len(d))
    <2>2. s \in Path /\ Len(s) = Len(d) /\ Under(q, s)
      BY <1>2, <2>1
    <2> HIDE DEF s
    <2>3. Under(d, s)
      BY <1>3, <2>2, UnderFact
    <2> QED
      BY <2>1, <2>2, <2>3, UnderIsOrder DEF s
  <1>4. ASSUME NEW i \in 1..Len(q)
        PROVE  SubSeq(q, 1, i) # <<>> /\ Front(SubSeq(q, 1, i)) = SubSeq(q, 1, i - 1)
    <2> DEFINE s == SubSeq(q, 1, i)
               t == SubSeq(q, 1, i - 1)
    <2>1. s \in Path /\ Len(s) = i /\ Under(q, s) /\ t \in Path /\ Len(t) = i - 1 /\ Under(q, t)
      BY <1>1, <1>2
    <2> HIDE DEF s, t
    <2>2. s # <<>> /\ i \in Nat /\ i >= 1
      BY <1>1, <2>1
    <2>3. Front(s) \in Path /\ Len(Front(s)) = i - 1 /\ Under(s, Front(s))
      BY <2>1, <2>2, DirFact
    <2>4. Under(q, Front(s))
      BY <2>1, <2>3, UnderIsOrder
    <2>5. Under(Front(s), t)
      BY <2>1, <2>2, <2>3, <2>4, UnderFact
    <2>6. Front(s) = t
      BY <2>1, <2>3, <2>5, UnderIsOrder
    <2> QED
      BY <2>2, <2>6 DEF s, t
  <1> QED
    BY <1>2, <1>3, <1>4

\* The tree: everything above what exists is a directory, and on the way down from a directory to
\* what is under it is something in the directory.
LEMMA TreeFact ==
  ASSUME NEW f, IsTree(f), NEW q \in DOMAIN f, NEW d \in Path, Under(q, d), q # d
  PROVE  /\ d \in DOMAIN f /\ f[d] = "dir"
         /\ \E c \in DOMAIN f : /\ c # <<>> /\ Front(c) = d /\ Under(q, c)
                                /\ c # q => f[c] = "dir"
  <1>1. q \in Path /\ \A i \in 0..Len(q) - 1 : SubSeq(q, 1, i) \in DOMAIN f /\ f[SubSeq(q, 1, i)] = "dir"
    BY DEF IsTree, Path
  <1>2. Len(d) \in Nat /\ Len(q) \in Nat /\ Len(d) < Len(q) /\ d = SubSeq(q, 1, Len(d))
    <2>1. Len(d) \in Nat /\ Len(q) \in Nat
      BY <1>1 DEF Path
    <2>2. Len(q) > Len(d)
      BY <1>1, UnderIsOrder
    <2>3. d = SubSeq(q, 1, Len(d))
      BY <1>1, BeginningFact
    <2> QED
      BY <2>1, <2>2, <2>3
  <1> DEFINE n == Len(d) + 1
             c == SubSeq(q, 1, n)
  <1>3. n \in 1..Len(q) /\ n - 1 = Len(d)
    BY <1>2
  <1>4. c \in Path /\ Len(c) = n /\ Under(q, c) /\ c # <<>> /\ Front(c) = SubSeq(q, 1, n - 1)
    <2>1. n \in 0..Len(q)
      BY <1>2
    <2> QED
      BY <1>1, <1>3, <2>1, BeginningFact
  <1>5. c # q => c \in DOMAIN f /\ f[c] = "dir"
    <2>1. Len(c) = Len(q) => c = q
      BY <1>1, <1>4, UnderIsOrder
    <2>2. n # Len(q) => n \in 0..Len(q) - 1
      BY <1>2
    <2> QED
      BY <1>1, <1>4, <2>1, <2>2
  <1> HIDE DEF c
  <1>6. Front(c) = d
    BY <1>2, <1>3, <1>4
  <1>7. d \in DOMAIN f /\ f[d] = "dir"
    <2>1. Len(d) \in 0..Len(q) - 1
      BY <1>2
    <2>2. SubSeq(q, 1, Len(d)) \in DOMAIN f /\ f[SubSeq(q, 1, Len(d))] = "dir"
      BY <1>1, <2>1
    <2> QED
      BY <1>2, <2>2, Zenon
  <1> QED
    BY <1>4, <1>5, <1>6, <1>7

\* What is left of a sequence behind its first elements.
LEMMA RestFact ==
  ASSUME NEW S, NEW p \in Seq(S), NEW m \in Nat
  PROVE  /\ SubSeq(p, m + 1, Len(p)) \in Seq(S)
         /\ m <= Len(p) => Len(SubSeq(p, m + 1, Len(p))) = Len(p) - m
         /\ \A i \in 1..Len(p) - m : SubSeq(p, m + 1, Len(p))[i] = p[m + i]
  <1> DEFINE n == Len(p)
             k == m + 1
  <1>1. n \in Nat /\ k \in Nat
    OBVIOUS
  <1>2. \A i \in k..n : p[i] \in S
    OBVIOUS
  <1> HIDE DEF n, k
  <1> DEFINE r == SubSeq(p, k, n)
  <1>3. /\ r \in Seq(S)
        /\ Len(r) = IF k <= n THEN n - k + 1 ELSE 0
        /\ \A i \in 1..n - k + 1 : r[i] = p[k + i - 1]
    BY <1>1, <1>2, SubSeqProperties
  <1> HIDE DEF r
  <1>4. m <= n => Len(r) = n - m
    BY <1>1, <1>3 DEF k
  <1>5. ASSUME NEW i \in 1..n - m PROVE r[i] = p[m + i]
    <2>1. i \in 1..n - k + 1 /\ k + i - 1 = m + i
      BY <1>1 DEF k
    <2> QED
      BY <1>3, <2>1
  <1> QED
    BY <1>3, <1>4, <1>5 DEF r, k, n

\* The place of a copy.
LEMMA DestFact ==
  ASSUME job.src \in Path, job.dst \in Path, NEW p \in Path
  PROVE  /\ DestOf(p) \in Path /\ Under(DestOf(p), job.dst)
         /\ Under(p, job.src) =>
              /\ Len(DestOf(p)) = Len(job.dst) + (Len(p) - Len(job.src))
              /\ \A i \in 1..Len(p) - Len(job.src) : DestOf(p)[Len(job.dst) + i] = p[Len(job.src) + i]
  <1> DEFINE r == SubSeq(p, Len(job.src) + 1, Len(p))
  <1>1. Len(p) \in Nat /\ Len(job.src) \in Nat /\ Len(job.dst) \in Nat
    BY DEF Path
  <1>2. /\ r \in Path
        /\ Len(job.src) <= Len(p) =>
             /\ Len(r) = Len(p) - Len(job.src)
             /\ \A i \in 1..Len(p) - Len(job.src) : r[i] = p[Len(job.src) + i]
    BY <1>1, RestFact DEF Path
  <1> HIDE DEF r
  <1>3. /\ DestOf(p) \in Path /\ Len(DestOf(p)) = Len(job.dst) + Len(r)
        /\ \A i \in 1..Len(job.dst) : DestOf(p)[i] = job.dst[i]
        /\ \A i \in 1..Len(r) : DestOf(p)[Len(job.dst) + i] = r[i]
    <2>1. DestOf(p) = job.dst \o r
      BY DEF DestOf, r
    <2> QED
      BY <1>1, <1>2, <2>1 DEF Path
  <1>4. Len(r) \in Nat
    BY <1>2 DEF Path
  <1>5. Under(DestOf(p), job.dst)
    BY <1>1, <1>3, <1>4, UnderFact
  <1>6. Under(p, job.src) => Len(job.src) <= Len(p)
    BY UnderFact
  <1> QED
    BY <1>1, <1>2, <1>3, <1>5, <1>6

\* Entries of the source have places of their own, in the copies of their directories.
LEMMA DestsApart ==
  ASSUME job.src \in Path, job.dst \in Path,
         NEW p \in Path, Under(p, job.src), NEW q \in Path, Under(q, job.src)
  PROVE  /\ DestOf(p) = DestOf(q) => p = q
         /\ DestOf(job.src) = job.dst
         /\ p # job.src => DestOf(p) # <<>> /\ Front(DestOf(p)) = DestOf(Front(p))
  <1>1. Len(p) \in Nat /\ Len(q) \in Nat /\ Len(job.src) \in Nat /\ Len(job.dst) \in Nat
    BY DEF Path
  <1>2. Len(job.src) <= Len(p) /\ Len(job.src) <= Len(q)
    BY UnderFact
  <1>3. \A i \in 1..Len(job.src) : p[i] = q[i]
    BY UnderFact
  <1>4. ASSUME DestOf(p) = DestOf(q) PROVE p = q
    <2>1. Len(p) = Len(q)
      BY <1>1, <1>4, DestFact
    <2>2. ASSUME NEW i \in 1..Len(p) PROVE p[i] = q[i]
      <3>1. CASE i <= Len(job.src)
        BY <1>1, <1>3, <3>1
      <3>2. CASE i > Len(job.src)
        <4> DEFINE j == i - Len(job.src)
        <4>1. j \in 1..Len(p) - Len(job.src) /\ Len(job.src) + j = i
          BY <1>1, <1>2, <3>2
        <4> HIDE DEF j
        <4>2. DestOf(p)[Len(job.dst) + j] = p[i] /\ DestOf(q)[Len(job.dst) + j] = q[i]
          BY <2>1, <4>1, DestFact
        <4> QED
          BY <1>4, <4>2
      <3> QED
        BY <1>1, <3>1, <3>2
    <2> QED
      BY <2>1, <2>2, SeqEqual DEF Path
  <1>5. DestOf(job.src) = job.dst
    <2>1. Under(job.src, job.src)
      BY UnderIsOrder
    <2>2. /\ DestOf(job.src) \in Path /\ Under(DestOf(job.src), job.dst)
          /\ Len(DestOf(job.src)) = Len(job.dst) + (Len(job.src) - Len(job.src))
      BY <2>1, DestFact
    <2> QED
      BY <1>1, <2>2, UnderIsOrder
  <1>6. ASSUME p # job.src PROVE DestOf(p) # <<>> /\ Front(DestOf(p)) = DestOf(Front(p))
    <2> DEFINE d == DestOf(p)
               e == DestOf(Front(p))
    <2>1. p # <<>> /\ Front(p) \in Path /\ Under(Front(p), job.src) /\ Len(Front(p)) = Len(p) - 1
          /\ \A i \in 1..Len(p) - 1 : Front(p)[i] = p[i]
      BY <1>6, UpFact, DirFact
    <2>2. Len(p) > Len(job.src)
      BY <1>6, UnderIsOrder
    <2>3. d \in Path /\ Len(d) = Len(job.dst) + (Len(p) - Len(job.src)) /\ Under(d, job.dst)
          /\ \A i \in 1..Len(p) - Len(job.src) : d[Len(job.dst) + i] = p[Len(job.src) + i]
      BY DestFact
    <2>4. e \in Path /\ Len(e) = Len(job.dst) + (Len(p) - 1 - Len(job.src)) /\ Under(e, job.dst)
          /\ \A i \in 1..Len(p) - 1 - Len(job.src) : e[Len(job.dst) + i] = Front(p)[Len(job.src) + i]
      BY <2>1, DestFact
    <2> HIDE DEF d, e
    <2>5. d # <<>> /\ Len(d) \in Nat \ {0}
      BY <1>1, <2>2, <2>3
    <2>6. Len(Front(d)) = Len(d) - 1 /\ Front(d) \in Path /\ \A i \in 1..Len(d) - 1 : Front(d)[i] = d[i]
      BY <2>3, <2>5, DirFact
    <2>7. Len(Front(d)) = Len(e)
      BY <1>1, <2>3, <2>4, <2>6
    <2>8. ASSUME NEW i \in 1..Len(e) PROVE Front(d)[i] = e[i]
      <3>1. i \in 1..Len(d) - 1 /\ Front(d)[i] = d[i]
        BY <2>6, <2>7, <2>8
      <3>2. CASE i <= Len(job.dst)
        BY <1>1, <2>3, <2>4, <3>1, <3>2, UnderFact
      <3>3. CASE i > Len(job.dst)
        <4> DEFINE j == i - Len(job.dst)
        <4>1. /\ j \in 1..Len(p) - 1 - Len(job.src) /\ Len(job.dst) + j = i
              /\ j \in 1..Len(p) - Len(job.src) /\ Len(job.src) + j \in 1..Len(p) - 1
          <5>1. ASSUME NEW m \in Nat, NEW n \in Nat, NEW l \in Nat, NEW k \in 1..l + (n - 1 - m), k > l
                PROVE  /\ k - l \in 1..n - 1 - m /\ l + (k - l) = k
                       /\ k - l \in 1..n - m /\ m + (k - l) \in 1..n - 1
            BY <5>1
          <5>2. i \in 1..Len(job.dst) + (Len(p) - 1 - Len(job.src))
            BY <2>4
          <5> QED
            BY <1>1, <3>3, <5>1, <5>2
        <4> HIDE DEF j
        <4>2. d[i] = p[Len(job.src) + j] /\ e[i] = Front(p)[Len(job.src) + j]
          BY <2>3, <2>4, <4>1
        <4> QED
          BY <2>1, <3>1, <4>1, <4>2
      <3> QED
        BY <1>1, <2>4, <3>2, <3>3
    <2> QED
      BY <2>4, <2>5, <2>6, <2>7, <2>8, SeqEqual DEF d, e, Path
  <1> QED
    BY <1>4, <1>5, <1>6

-----------------------------------------------------------------------------
(* The file system stays a tree. *)

\* What one system call or callback does at a path: nothing, something is made there, or
\* what is there and holds nothing is removed.
MadeAt(p) == MayCreate(p) /\ \E k \in Kind : fs' = With(fs, p, k)
GoneAt(p) == p \in DOMAIN fs /\ p # <<>> /\ Kids(p) = {} /\ fs' = Without(fs, p)
FsOK == IsTree(fs) /\ IsDir(<<>>)

\* What exists is something, in directories.
LEMMA TreeDef ==
  ASSUME NEW f
  PROVE  IsTree(f) <=> \A p \in DOMAIN f : /\ p \in Path /\ f[p] \in Kind
                                           /\ p # <<>> => Front(p) \in DOMAIN f /\ f[Front(p)] = "dir"
                                           /\ \A d \in Path : Under(p, d) /\ d # p => d \in DOMAIN f /\ f[d] = "dir"
  <1>1. ASSUME IsTree(f), NEW p \in DOMAIN f
        PROVE  /\ p \in Path /\ f[p] \in Kind
               /\ p # <<>> => Front(p) \in DOMAIN f /\ f[Front(p)] = "dir"
               /\ \A d \in Path : Under(p, d) /\ d # p => d \in DOMAIN f /\ f[d] = "dir"
    <2>1. p \in Path /\ f[p] \in Kind
      BY <1>1 DEF IsTree, Path
    <2>2. \A d \in Path : Under(p, d) /\ d # p => d \in DOMAIN f /\ f[d] = "dir"
      BY <1>1, TreeFact
    <2> QED
      BY <2>1, <2>2, DirFact
  <1>2. ASSUME NEW p \in DOMAIN f, p \in Path, f[p] \in Kind,
               \A d \in Path : Under(p, d) /\ d # p => d \in DOMAIN f /\ f[d] = "dir",
               NEW i \in 0..Len(p) - 1
        PROVE  SubSeq(p, 1, i) \in DOMAIN f /\ f[SubSeq(p, 1, i)] = "dir"
    <2>1. i \in 0..Len(p) /\ i # Len(p)
      BY <1>2 DEF Path
    <2>2. SubSeq(p, 1, i) \in Path /\ Len(SubSeq(p, 1, i)) = i /\ Under(p, SubSeq(p, 1, i))
      BY <1>2, <2>1, BeginningFact
    <2> QED
      BY <1>2, <2>1, <2>2
  <1> QED
    BY <1>1, <1>2 DEF IsTree, Path

\* A file system in which whatever exists stands in a directory is a tree if a tree is part of it.
LEMMA GrowsFact ==
  ASSUME NEW f, IsTree(f), NEW p \in Path, p \notin DOMAIN f, NEW k \in Kind,
         p # <<>>, Front(p) \in DOMAIN f, f[Front(p)] = "dir"
  PROVE  IsTree(With(f, p, k))
  <1> DEFINE g == With(f, p, k)
  <1>1. DOMAIN g = DOMAIN f \cup {p} /\ g[p] = k /\ \A q \in DOMAIN f : g[q] = f[q]
    BY DEF With
  <1>2. Front(p) \in Path /\ Under(p, Front(p)) /\ Len(Front(p)) = Len(p) - 1 /\ Len(p) \in Nat
    BY DirFact
  <1>3. ASSUME NEW d \in Path, Under(p, d), d # p
        PROVE  d \in DOMAIN f /\ f[d] = "dir"
    <2>1. Len(d) \in Nat /\ Len(d) < Len(p)
      BY <1>3, UnderIsOrder DEF Path
    <2>2. Under(Front(p), d)
      BY <1>3, UpFact
    <2>3. CASE d = Front(p)
      BY <2>3
    <2>4. CASE d # Front(p)
      BY <1>2, <2>2, <2>4, TreeDef
    <2> QED
      BY <2>3, <2>4
  <1> HIDE DEF g
  <1>4. \A q \in DOMAIN g : /\ q \in Path /\ g[q] \in Kind
                            /\ q # <<>> => Front(q) \in DOMAIN g /\ g[Front(q)] = "dir"
                            /\ \A d \in Path : Under(q, d) /\ d # q => d \in DOMAIN g /\ g[d] = "dir"
    BY <1>1, <1>3, TreeDef
  <1> QED
    BY <1>4, TreeDef DEF g

\* A tree stays one when something that holds nothing is removed.
LEMMA ShrinksFact ==
  ASSUME NEW f, IsTree(f), NEW p \in DOMAIN f, KidsIn(f, p) = {}
  PROVE  IsTree(Without(f, p)) /\ \A q \in DOMAIN f : Under(q, p) => q = p
  <1> DEFINE g == Without(f, p)
  <1>1. DOMAIN g = DOMAIN f \ {p} /\ \A q \in DOMAIN g : g[q] = f[q]
    BY DEF Without
  <1>2. p \in Path
    BY TreeDef
  <1>3. ASSUME NEW q \in DOMAIN f, Under(q, p), q # p PROVE FALSE
    <2>1. q \in Path
      BY TreeDef
    <2>2. PICK c \in DOMAIN f : c # <<>> /\ Front(c) = p
      BY <1>2, <1>3, <2>1, TreeFact
    <2> QED
      BY <2>2 DEF KidsIn
  <1> HIDE DEF g
  <1>4. \A q \in DOMAIN g : /\ q \in Path /\ g[q] \in Kind
                            /\ \A d \in Path : Under(q, d) /\ d # q => d \in DOMAIN g /\ g[d] = "dir"
    BY <1>1, <1>3, TreeDef
  <1>5. \A q \in DOMAIN g : q # <<>> => Front(q) \in DOMAIN g /\ g[Front(q)] = "dir"
    BY <1>4, DirFact
  <1> QED
    BY <1>3, <1>4, <1>5, TreeDef DEF g

\* Making or removing one thing keeps the tree, and changes nothing else.
LEMMA OneChange ==
  ASSUME FsOK, NEW p \in Path, MadeAt(p) \/ GoneAt(p) \/ UNCHANGED fs
  PROVE  /\ FsOK'
         /\ \A q : q # p => (q \in DOMAIN fs <=> q \in DOMAIN fs')
         /\ \A q \in DOMAIN fs : q # p => fs'[q] = fs[q]
  <1>1. CASE UNCHANGED fs
    BY <1>1 DEF FsOK, IsDir, IsA
  <1>2. CASE MadeAt(p)
    <2>1. PICK k \in Kind : fs' = With(fs, p, k)
      BY <1>2 DEF MadeAt
    <2>2. p \notin DOMAIN fs /\ Front(p) \in DOMAIN fs /\ fs[Front(p)] = "dir" /\ p # <<>>
      BY <1>2 DEF MadeAt, MayCreate, IsDir, IsA, FsOK
    <2>3. DOMAIN fs' = DOMAIN fs \cup {p} /\ \A q \in DOMAIN fs : fs'[q] = fs[q]
      BY <2>1, <2>2 DEF With
    <2>4. IsTree(fs')
      BY <2>1, <2>2, GrowsFact DEF FsOK
    <2> QED
      BY <2>3, <2>4 DEF FsOK, IsDir, IsA
  <1>3. CASE GoneAt(p)
    <2>1. DOMAIN fs' = DOMAIN fs \ {p} /\ \A q \in DOMAIN fs' : fs'[q] = fs[q]
      BY <1>3 DEF GoneAt, Without
    <2>2. IsTree(fs')
      BY <1>3, ShrinksFact DEF GoneAt, FsOK, Kids
    <2>3. p # <<>>
      BY <1>3 DEF GoneAt
    <2> QED
      BY <2>1, <2>2, <2>3 DEF FsOK, IsDir, IsA
  <1> QED
    BY <1>1, <1>2, <1>3

-----------------------------------------------------------------------------
(* The walk. *)

Rec(m, r, d, s, l, a, b, u) ==
  [mode |-> m, root |-> r, dir |-> d, stack |-> s, listing |-> l, at |-> a, sb |-> b, upto |-> u]

\* The walk stays under its root, and what it has listed is in the directory it is in.  Only
\* a walk that calls back for directories goes up again, or calls back on its way in.
WalkOK(w) ==
  /\ w = Rec(w.mode, w.root, w.dir, w.stack, w.listing, w.at, w.sb, w.upto)
  /\ w.mode \in Mode
  /\ w.root \in Path /\ w.dir \in Path /\ w.sb \in Path
  /\ Under(w.dir, w.root) /\ Under(w.sb, w.root)
  /\ w.stack \in Seq(Path)
  /\ \A i \in DOMAIN w.stack : Under(w.stack[i], w.root) /\ w.stack[i] # w.root
  /\ \A e \in w.listing : e \in Path \X Kind /\ e[1] # <<>> /\ Front(e[1]) = w.dir
  /\ w.at \in {"enter", "open", "read", "up", "blocked"}
  /\ w.at \in {"enter", "open", "up"} => w.listing = {}
  /\ w.at = "enter" => w.mode \in {"makedir", "accumsize"}
  /\ w.at = "up" => w.mode = "do_rmdirr"
  /\ w.at = "blocked" => w.mode = "cpyfile"

\* The parts of a walk, and what assignments to them make of it.
LEMMA RecParts ==
  ASSUME NEW m, NEW r, NEW d, NEW s, NEW l, NEW a, NEW b, NEW u
  PROVE  LET w == Rec(m, r, d, s, l, a, b, u)
         IN  w.mode = m /\ w.root = r /\ w.dir = d /\ w.stack = s /\ w.listing = l /\ w.at = a
             /\ w.sb = b /\ w.upto = u
  BY DEF Rec


\* The assignments to its parts.
SetAt(w, a) == [w EXCEPT !.at = a]
SetListing(w, l) == [w EXCEPT !.listing = l]
Reads(w, l) == [w EXCEPT !.at = "read", !.listing = l]
Push(w, l, p) == [[w EXCEPT !.listing = l] EXCEPT !.stack = Append(@, p)]
GoesUp(w, b, u) == [w EXCEPT !.at = "up", !.sb = b, !.upto = u]
Leaves(w, b, a) == [w EXCEPT !.sb = b, !.at = a]

LEMMA RecFact ==
  ASSUME NEW m, NEW r, NEW d, NEW s, NEW l, NEW a, NEW b, NEW u, NEW c, NEW e, NEW g,
         NEW w, w = Rec(m, r, d, s, l, a, b, u)
  PROVE  /\ SetAt(w, c) = Rec(m, r, d, s, l, c, b, u)
         /\ SetListing(w, c) = Rec(m, r, d, s, c, a, b, u)
         /\ Reads(w, c) = Rec(m, r, d, s, c, "read", b, u)
         /\ Push(w, c, e) = Rec(m, r, d, Append(s, e), c, a, b, u)
         /\ GoesUp(w, c, e) = Rec(m, r, d, s, l, "up", c, e)
         /\ Leaves(w, c, e) = Rec(m, r, d, s, l, e, c, u)
  <1>1. SetAt(w, c) = Rec(m, r, d, s, l, c, b, u)
    BY DEF Rec, SetAt
  <1>2. SetListing(w, c) = Rec(m, r, d, s, c, a, b, u)
    BY DEF Rec, SetListing
  <1>3. Reads(w, c) = Rec(m, r, d, s, c, "read", b, u)
    <2> DEFINE v == [w EXCEPT !.at = "read"]
    <2>1. Reads(w, c) = [v EXCEPT !.listing = c]
      BY DEF Reads
    <2>2. v = Rec(m, r, d, s, l, "read", b, u)
      BY DEF Rec
    <2> HIDE DEF v
    <2>3. [v EXCEPT !.listing = c] = Rec(m, r, d, s, c, "read", b, u)
      BY <2>2 DEF Rec
    <2> QED
      BY <2>1, <2>3
  <1>4. Push(w, c, e) = Rec(m, r, d, Append(s, e), c, a, b, u)
    <2> DEFINE v == [w EXCEPT !.listing = c]
    <2>1. Push(w, c, e) = [v EXCEPT !.stack = Append(@, e)]
      BY DEF Push
    <2>2. v = Rec(m, r, d, s, c, a, b, u)
      BY DEF Rec
    <2> HIDE DEF v
    <2>3. v.stack = s
      BY <2>2 DEF Rec
    <2>4. ASSUME NEW x PROVE [v EXCEPT !.stack = x] = Rec(m, r, d, x, c, a, b, u)
      BY <2>2 DEF Rec
    <2>5. [v EXCEPT !.stack = Append(s, e)] = Rec(m, r, d, Append(s, e), c, a, b, u)
      BY <2>4
    <2> QED
      BY <2>1, <2>3, <2>5
  <1>5. GoesUp(w, c, e) = Rec(m, r, d, s, l, "up", c, e)
    <2> DEFINE v == [w EXCEPT !.at = "up"]
               z == [v EXCEPT !.sb = c]
    <2>1. GoesUp(w, c, e) = [z EXCEPT !.upto = e]
      BY DEF GoesUp
    <2>2. v = Rec(m, r, d, s, l, "up", b, u)
      BY DEF Rec
    <2> HIDE DEF v
    <2>3. z = Rec(m, r, d, s, l, "up", c, u)
      BY <2>2 DEF Rec
    <2> HIDE DEF z
    <2>4. [z EXCEPT !.upto = e] = Rec(m, r, d, s, l, "up", c, e)
      BY <2>3 DEF Rec
    <2> QED
      BY <2>1, <2>4
  <1>6. Leaves(w, c, e) = Rec(m, r, d, s, l, e, c, u)
    <2> DEFINE v == [w EXCEPT !.sb = c]
    <2>1. Leaves(w, c, e) = [v EXCEPT !.at = e]
      BY DEF Leaves
    <2>2. v = Rec(m, r, d, s, l, a, c, u)
      BY DEF Rec
    <2> HIDE DEF v
    <2>3. [v EXCEPT !.at = e] = Rec(m, r, d, s, l, e, c, u)
      BY <2>2 DEF Rec
    <2> QED
      BY <2>1, <2>3
  <1> QED
    BY <1>1, <1>2, <1>3, <1>4, <1>5, <1>6

\* The same for a walk as it should be.
LEMMA PartsFact ==
  ASSUME NEW w, WalkOK(w), NEW c, NEW e
  PROVE  /\ SetAt(w, c) = Rec(w.mode, w.root, w.dir, w.stack, w.listing, c, w.sb, w.upto)
         /\ SetListing(w, c) = Rec(w.mode, w.root, w.dir, w.stack, c, w.at, w.sb, w.upto)
         /\ Reads(w, c) = Rec(w.mode, w.root, w.dir, w.stack, c, "read", w.sb, w.upto)
         /\ Push(w, c, e) = Rec(w.mode, w.root, w.dir, Append(w.stack, e), c, w.at, w.sb, w.upto)
         /\ GoesUp(w, c, e) = Rec(w.mode, w.root, w.dir, w.stack, w.listing, "up", c, e)
         /\ Leaves(w, c, e) = Rec(w.mode, w.root, w.dir, w.stack, w.listing, e, c, w.upto)
  <1>1. w = Rec(w.mode, w.root, w.dir, w.stack, w.listing, w.at, w.sb, w.upto)
    BY DEF WalkOK
  <1> QED
    BY <1>1, RecFact

Same(v, w) == WalkOK(v) /\ v.mode = w.mode /\ v.root = w.root

LEMMA EnterFact ==
  ASSUME NEW m \in Mode, NEW r \in Path, NEW d \in Path, Under(d, r), NEW s \in Seq(Path),
         \A i \in DOMAIN s : Under(s[i], r) /\ s[i] # r
  PROVE  /\ WalkOK(Enter(m, r, d, s))
         /\ Enter(m, r, d, s) = Rec(m, r, d, s, {}, IF ListsDirs(m) THEN "enter" ELSE "open", d, -1)
  <1>1. Enter(m, r, d, s) = Rec(m, r, d, s, {}, IF ListsDirs(m) THEN "enter" ELSE "open", d, -1)
    BY DEF Enter, Rec
  <1> QED
    BY <1>1, RecParts DEF WalkOK, ListsDirs

LEMMA NoWalkFact == WalkOK(NoWalk)
  <1>1. <<>> \in Path /\ <<>> \in Seq(Path) /\ Under(<<>>, <<>>) /\ DOMAIN <<>> = {} /\ "cpyfile" \in Mode
    <2>1. <<>> \in Path
      BY DEF Path
    <2>2. <<>> \in Seq(Path) /\ DOMAIN <<>> = {}
      OBVIOUS
    <2> QED
      BY <2>1, <2>2, UnderIsOrder DEF Mode
  <1> QED
    BY <1>1, EnterFact DEF NoWalk

\* It goes on in the directory it is in.
LEMMA RecOK ==
  ASSUME NEW w, WalkOK(w), NEW l, NEW a \in {"enter", "open", "read", "up", "blocked"}, NEW b \in Path, NEW u,
         NEW v, v = Rec(w.mode, w.root, w.dir, w.stack, l, a, b, u),
         \A e \in l : e \in Path \X Kind /\ e[1] # <<>> /\ Front(e[1]) = w.dir,
         Under(b, w.root),
         a \in {"enter", "open", "up"} => l = {},
         a = "enter" => w.mode \in {"makedir", "accumsize"},
         a = "up" => w.mode = "do_rmdirr",
         a = "blocked" => w.mode = "cpyfile"
  PROVE  Same(v, w)
  <1>1. /\ v.mode = w.mode /\ v.root = w.root /\ v.dir = w.dir /\ v.stack = w.stack /\ v.listing = l
        /\ v.at = a /\ v.sb = b /\ v.upto = u
    BY RecParts
  <1>2. v = Rec(v.mode, v.root, v.dir, v.stack, v.listing, v.at, v.sb, v.upto)
    BY <1>1
  <1> QED
    BY <1>1, <1>2 DEF WalkOK, Same

LEMMA SameFact ==
  ASSUME NEW w, WalkOK(w)
  PROVE  /\ w.listing = {} => Same(SetAt(w, "open"), w)
         /\ w.mode = "cpyfile" => Same(SetAt(w, "blocked"), w)
         /\ \A l : (\A e \in l : e \in Path \X Kind /\ e[1] # <<>> /\ Front(e[1]) = w.dir) =>
              /\ Same(Reads(w, l), w)
              /\ w.at = "read" \/ l \subseteq w.listing => Same(SetListing(w, l), w)
         /\ \A b \in Path : \A u : Under(b, w.root) /\ w.mode = "do_rmdirr" /\ w.listing = {} => Same(GoesUp(w, b, u), w)
         /\ \A b \in Path, a \in {"open", "up"} : Under(b, w.root) /\ w.mode = "do_rmdirr" /\ w.listing = {} =>
              Same(Leaves(w, b, a), w)
  <1>0. /\ \A e \in w.listing : e \in Path \X Kind /\ e[1] # <<>> /\ Front(e[1]) = w.dir
        /\ w.sb \in Path /\ Under(w.sb, w.root)
        /\ w.at \in {"enter", "open", "read", "up", "blocked"}
        /\ w.at \in {"enter", "open", "up"} => w.listing = {}
        /\ w.at = "enter" => w.mode \in {"makedir", "accumsize"}
        /\ w.at = "up" => w.mode = "do_rmdirr"
        /\ w.at = "blocked" => w.mode = "cpyfile"
    BY DEF WalkOK
  <1>1. ASSUME w.listing = {}
        PROVE  Same(SetAt(w, "open"), w)
    <2>1. SetAt(w, "open") = Rec(w.mode, w.root, w.dir, w.stack, w.listing, "open", w.sb, w.upto)
      BY PartsFact
    <2> QED
      BY <1>1, <1>0, <2>1, RecOK
  <1>2. ASSUME w.mode = "cpyfile"
        PROVE  Same(SetAt(w, "blocked"), w)
    <2>1. SetAt(w, "blocked") = Rec(w.mode, w.root, w.dir, w.stack, w.listing, "blocked", w.sb, w.upto)
      BY PartsFact
    <2> QED
      BY <1>2, <1>0, <2>1, RecOK
  <1>3. ASSUME NEW l, \A e \in l : e \in Path \X Kind /\ e[1] # <<>> /\ Front(e[1]) = w.dir
        PROVE  Same(Reads(w, l), w)
    <2>1. Reads(w, l) = Rec(w.mode, w.root, w.dir, w.stack, l, "read", w.sb, w.upto)
      BY PartsFact
    <2> QED
      BY <1>3, <1>0, <2>1, RecOK
  <1>4. ASSUME NEW l, \A e \in l : e \in Path \X Kind /\ e[1] # <<>> /\ Front(e[1]) = w.dir,
               w.at = "read" \/ l \subseteq w.listing
        PROVE  Same(SetListing(w, l), w)
    <2>1. SetListing(w, l) = Rec(w.mode, w.root, w.dir, w.stack, l, w.at, w.sb, w.upto)
      BY PartsFact
    <2>2. w.at \in {"enter", "open"} => l = {}
      BY <1>0, <1>4
    <2> QED
      BY <1>4, <1>0, <2>1, <2>2, RecOK
  <1>5. ASSUME NEW b \in Path, NEW u, Under(b, w.root), w.mode = "do_rmdirr", w.listing = {}
        PROVE  Same(GoesUp(w, b, u), w)
    <2>1. GoesUp(w, b, u) = Rec(w.mode, w.root, w.dir, w.stack, w.listing, "up", b, u)
      BY PartsFact
    <2> QED
      BY <1>5, <1>0, <2>1, RecOK
  <1>6. ASSUME NEW b \in Path, NEW a \in {"open", "up"}, Under(b, w.root), w.mode = "do_rmdirr", w.listing = {}
        PROVE  Same(Leaves(w, b, a), w)
    <2>1. Leaves(w, b, a) = Rec(w.mode, w.root, w.dir, w.stack, w.listing, a, b, w.upto)
      BY PartsFact
    <2> QED
      BY <1>6, <1>0, <2>1, RecOK
  <1> QED
    BY <1>1, <1>2, <1>3, <1>4, <1>5, <1>6

\* It puts a directory on its list.
LEMMA PushFact ==
  ASSUME NEW w, WalkOK(w), NEW p \in Path, p # <<>>, Front(p) = w.dir, NEW l \in SUBSET w.listing
  PROVE  /\ Same(Push(w, l, p), w)
         /\ Under(p, w.root) /\ p # w.root
  <1>1. Under(p, w.dir) /\ w.dir # p /\ w.dir \in Path /\ w.root \in Path /\ Under(w.dir, w.root)
    BY DirFact DEF WalkOK
  <1>2. Under(p, w.root) /\ p # w.root
    BY <1>1, UnderIsOrder
  <1> DEFINE s == Append(w.stack, p)
  <1>3. w.stack \in Seq(Path)
    BY DEF WalkOK
  <1>4. s \in Seq(Path) /\ \A i \in DOMAIN s : s[i] = p \/ (i \in DOMAIN w.stack /\ s[i] = w.stack[i])
    BY <1>3
  <1> HIDE DEF s
  <1>5. \A i \in DOMAIN s : Under(s[i], w.root) /\ s[i] # w.root
    BY <1>2, <1>4 DEF WalkOK
  <1>6. Push(w, l, p) = Rec(w.mode, w.root, w.dir, s, l, w.at, w.sb, w.upto)
    BY PartsFact DEF s
  <1> QED
    BY <1>2, <1>4, <1>5, <1>6, RecParts DEF WalkOK, Same

\* It takes the last directory from its list.
LEMMA PopFact ==
  ASSUME NEW w, WalkOK(w), w.stack # <<>>
  PROVE  LET next == Last(w.stack)
             v == Enter(w.mode, w.root, next, Front(w.stack))
         IN  /\ next \in Path /\ Under(next, w.root) /\ next # w.root
             /\ next = w.stack[Len(w.stack)] /\ Len(w.stack) \in DOMAIN w.stack
             /\ Front(w.stack) \in Seq(Path)
             /\ \A i \in DOMAIN Front(w.stack) : i \in DOMAIN w.stack /\ i # Len(w.stack) /\ Front(w.stack)[i] = w.stack[i]
             /\ Same(v, w)
             /\ v = Rec(w.mode, w.root, next, Front(w.stack), {}, IF ListsDirs(w.mode) THEN "enter" ELSE "open", next, -1)
  <1> DEFINE next == Last(w.stack)
             s == Front(w.stack)
             v == Enter(w.mode, w.root, next, s)
  <1>1. w.stack \in Seq(Path) /\ w.mode \in Mode /\ w.root \in Path
    BY DEF WalkOK
  <1>2. /\ s \in Seq(Path) /\ Len(s) = Len(w.stack) - 1 /\ \A i \in 1..(Len(w.stack) - 1) : s[i] = w.stack[i]
        /\ next \in Path /\ next = w.stack[Len(w.stack)] /\ Len(w.stack) \in Nat \ {0}
    BY <1>1, FrontFact
  <1> HIDE DEF s, next
  <1>3. Len(w.stack) \in DOMAIN w.stack /\ \A i \in DOMAIN s : i \in DOMAIN w.stack /\ i # Len(w.stack) /\ s[i] = w.stack[i]
    BY <1>1, <1>2
  <1>4. /\ Under(next, w.root) /\ next # w.root
        /\ \A i \in DOMAIN s : Under(s[i], w.root) /\ s[i] # w.root
    BY <1>2, <1>3 DEF WalkOK
  <1>5. WalkOK(v) /\ v = Rec(w.mode, w.root, next, s, {}, IF ListsDirs(w.mode) THEN "enter" ELSE "open", next, -1)
    BY <1>1, <1>2, <1>4, EnterFact
  <1>6. Same(v, w)
    BY <1>5, RecParts DEF Same
  <1> QED
    BY <1>2, <1>3, <1>4, <1>5, <1>6 DEF s, next

-----------------------------------------------------------------------------
(* Types. *)

\* How far the command is, and what its walk is about.
Control ==
  /\ job \in Jobs
  /\ pc \in {"access", "unlink", "remove", "parent", "mkdirs", "files", "join",
             "stat", "sizeof", "over"}
  /\ pc = "remove" => walk.mode = "do_rmdirr" /\ walk.root = job.dst
  /\ pc = "mkdirs" => walk.mode = "makedir" /\ walk.root = job.src
  /\ pc = "files" => walk.mode = "cpyfile" /\ walk.root = job.src /\ pool # "none"
  /\ pc = "sizeof" => walk.mode = "accumsize" /\ walk.root = job.src
  /\ pool \in {"none", "running", "error"}
  /\ pool # "none" \/ queue # {} => pc \in {"files", "join"}
  /\ pc \in {"stat", "sizeof"} => job.cmd = "sizeof"
  /\ pc \notin {"stat", "sizeof", "over"} => job.cmd = "copy"
  /\ result \in {"ok", "error", "died", "bug"}
  /\ pc \notin {"join", "over"} => result = "ok"

Entries == \A e \in queue : e \in Path \X ((Kind \cup {"open"}) \ {"dir"}) /\ Under(e[1], job.src)
Losses == \A l \in lost : Under(l[1], job.src) /\ l[2] \in Why
Counted == info \in [size : Nat, files : Nat, dirs : Nat]
Troubles ==
  /\ faults \in Nat /\ IsFiniteSet(changed) /\ faults + Cardinality(changed) <= MaxTroubles
  /\ \A p \in changed : p \in Path /\ Under(p, job.src) /\ p # job.src

Types == FsOK /\ WalkOK(walk) /\ Control /\ Entries /\ Losses /\ Counted /\ Troubles

\* What the command line is.
LEMMA JobFact ==
  ASSUME job \in Jobs
  PROVE  /\ job.cmd \in {"copy", "sizeof"} /\ job.force \in BOOLEAN
         /\ job.src \in Path /\ job.dst \in Path /\ job.dst # <<>>
         /\ IsTree(job.was) /\ <<>> \in DOMAIN job.was /\ job.was[<<>>] = "dir"
  BY FileTreeAssumption DEF Path

\* What a system call can do to the number of failures, and a copy to the list of losses.
FaultsKept == faults' = faults \/ (MoreTrouble /\ faults' = faults + 1)
LostKept(p) == lost' = lost \/ \E y \in Why : lost' = lost \cup {<<p, y>>}
\* What a failing readdir() hides.
Hides ==
  /\ faults' = faults + 1
  /\ \E S \in SUBSET Path : /\ \A q \in S : Under(q, job.src)
                            /\ lost' = lost \cup {<<q, "unread">> : q \in S}

\* A file is copied, as what it is or in part, or not.
LEMMA CopyFact ==
  ASSUME NEW p, NEW k \in Kind, NEW r \in {"ok", "error"}, Copy(p, k, r)
  PROVE  /\ MadeAt(DestOf(p)) \/ UNCHANGED fs
         /\ FaultsKept /\ LostKept(p)
  <1>1. CASE k = "lnk"
    BY <1>1 DEF Copy, copy_symlink, Create, FailsIf, Fault, NoFault, MadeAt, FaultsKept, LostKept, Kind
  <1>2. CASE k # "lnk"
    <2>1. copy_regfile(p, k, r)
      BY <1>2 DEF Copy
    <2>2. FaultsKept
      BY <2>1 DEF copy_regfile, Create, FailsIf, Fault, NoFault, FaultsKept
    <2>3. LostKept(p)
      BY <2>1 DEF copy_regfile, LostKept, Why
    <2>4. MadeAt(DestOf(p)) \/ UNCHANGED fs
      BY <2>1 DEF copy_regfile, Create, MadeAt, Kind
    <2> QED
      BY <2>2, <2>3, <2>4
  <1> QED
    BY <1>1, <1>2

\* What a walk does at a path.
CallStep(p, k) ==
  /\ \/ UNCHANGED fs
     \/ pc = "remove" /\ GoneAt(p)
     \/ pc \in {"mkdirs", "files"} /\ MadeAt(DestOf(p))
  /\ queue' = queue \/ (pc = "files" /\ pool = "running" /\ queue' = queue \cup {<<p, k>>})
  /\ lost' = lost \/ (pc = "files" /\ LostKept(p)) \/ Hides
  /\ info' = info \/ info' \in [size : Nat, files : Nat, dirs : Nat]
  /\ FaultsKept

LEMMA CallbackFact ==
  ASSUME Types, Walking, NEW p \in Path, Under(p, walk.root), NEW k \in Kind, NEW r \in {"ok", "error"},
         Callback(p, k, r)
  PROVE  CallStep(p, k)
  <1>1. CASE pc = "remove"
    <2>1. do_rmdirr(p, r)
      BY <1>1 DEF Callback, Types, Control
    <2>2. p # <<>>
      <3>1. walk.root \in Path /\ walk.root # <<>>
        BY <1>1, JobFact DEF Types, Control, WalkOK
      <3>2. Len(walk.root) \in Nat \ {0}
        BY <3>1 DEF Path
      <3> QED
        BY <3>1, <3>2, UnderFact
    <2> QED
      BY <1>1, <2>1, <2>2 DEF do_rmdirr, CallStep, GoneAt, FailsIf, Fault, NoFault, FaultsKept
  <1>2. CASE pc = "mkdirs"
    <2>1. makedir(p, r)
      BY <1>2 DEF Callback, Types, Control
    <2> QED
      BY <1>2, <2>1 DEF makedir, CallStep, Create, MadeAt, FailsIf, Fault, NoFault, FaultsKept, Kind
  <1>3. CASE pc = "files"
    <2>1. cpyfile(p, k, r)
      BY <1>3 DEF Callback, Types, Control
    <2>2. CASE Copy(p, k, r) /\ UNCHANGED <<queue, info>>
      BY <1>3, <2>2, CopyFact DEF CallStep
    <2> QED
      BY <1>3, <2>1, <2>2 DEF cpyfile, CallStep, FaultsKept
  <1>4. CASE pc = "sizeof"
    <2>1. accumsize(p, k, r)
      BY <1>4 DEF Callback, Types, Control
    <2> DEFINE n == IF Size[k] = 0 THEN SizeOfEmpty ELSE Size[k]
               v == [info EXCEPT !.files = @ + 1]
    <2>2. n \in Nat
      BY DEF Size, SizeOfEmpty, Kind
    <2>3. info' \in [size : Nat, files : Nat, dirs : Nat]
      <3>1. info \in [size : Nat, files : Nat, dirs : Nat]
        BY DEF Types, Counted
      <3>2. CASE k = "dir"
        BY <2>1, <3>1, <3>2 DEF accumsize
      <3>3. CASE k # "dir"
        <4>1. info' = [v EXCEPT !.size = @ + n]
          BY <2>1, <3>3 DEF accumsize
        <4>2. v \in [size : Nat, files : Nat, dirs : Nat]
          BY <3>1
        <4> HIDE DEF v, n
        <4> QED
          BY <2>2, <4>1, <4>2
      <3> QED
        BY <3>2, <3>3
    <2> QED
      BY <2>1, <2>3 DEF accumsize, CallStep, FaultsKept
  <1> QED
    BY <1>1, <1>2, <1>3, <1>4 DEF Walking

\* Failures stay within their number.
LEMMA FaultsFact ==
  ASSUME Troubles, FaultsKept, UNCHANGED <<job, changed>>
  PROVE  Troubles'
  <1>1. Cardinality(changed) \in Nat
    BY FS_CardinalityType DEF Troubles
  <1>2. faults' \in Nat /\ faults' + Cardinality(changed) <= MaxTroubles
    BY <1>1, FileTreeAssumption DEF Troubles, FaultsKept, MoreTrouble
  <1> QED
    BY <1>2 DEF Troubles

\* The walk's callbacks keep all but how far the command is.
LEMMA CallTypes ==
  ASSUME Types, Walking, NEW p \in Path, Under(p, walk.root), NEW k \in Kind, pc = "files" => k # "dir",
         CallStep(p, k), UNCHANGED <<job, changed>>
  PROVE  FsOK' /\ Entries' /\ Losses' /\ Counted' /\ Troubles'
  <1>1. job.src \in Path /\ job.dst \in Path /\ DestOf(p) \in Path
    BY JobFact, DestFact DEF Types, Control
  <1>2. FsOK'
    BY <1>1, OneChange DEF Types, CallStep
  <1>3. pc = "files" => Under(p, job.src)
    BY DEF Types, Control
  <1>4. Entries'
    BY <1>3 DEF Types, Entries, CallStep
  <1>5. Losses'
    <2>1. CASE Hides
      BY <2>1 DEF Types, Losses, Hides, Why
    <2> QED
      BY <1>3, <2>1 DEF Types, Losses, CallStep, LostKept
  <1>6. Counted'
    BY DEF Types, Counted, CallStep
  <1>7. Troubles'
    BY FaultsFact DEF Types, CallStep
  <1> QED
    BY <1>2, <1>4, <1>5, <1>6, <1>7

\* Where a walk's caller goes on.
LEMMA LeaveFact ==
  ASSUME Types, Walking, NEW r \in {"ok", "error"}, Leave(r)
  PROVE  \/ /\ pc = "mkdirs" /\ r = "ok" /\ pc' = "files" /\ pool' = "running" /\ UNCHANGED result
            /\ walk' = Enter("cpyfile", job.src, job.src, <<>>)
         \/ pc = "files" /\ pc' = "join" /\ result' = r /\ walk' = NoWalk /\ UNCHANGED pool
         \/ pc = "remove" /\ r = "ok" /\ pc' = "parent" /\ walk' = NoWalk /\ UNCHANGED <<result, pool>>
         \/ pc = "remove" /\ r = "error" /\ pc' = "over" /\ result' = "died" /\ walk' = NoWalk /\ UNCHANGED pool
         \/ pc = "mkdirs" /\ r = "error" /\ pc' = "over" /\ result' = "error" /\ walk' = NoWalk /\ UNCHANGED pool
         \/ pc = "sizeof" /\ pc' = "over" /\ result' = r /\ walk' = NoWalk /\ UNCHANGED pool
  <1>1. CASE pc = "remove"
    BY <1>1 DEF Leave, End, Types, Control
  <1>2. CASE pc = "mkdirs"
    BY <1>2 DEF Leave, End, Begin, Types, Control
  <1>3. CASE pc = "files"
    BY <1>3 DEF Leave, End, Types, Control
  <1>4. CASE pc = "sizeof"
    BY <1>4 DEF Leave, End, Types, Control
  <1> QED
    BY <1>1, <1>2, <1>3, <1>4 DEF Walking

\* A walk that starts is one as it should be.
LEMMA BeginFact ==
  ASSUME NEW m \in Mode, NEW r \in Path
  PROVE  LET w == Enter(m, r, r, <<>>)
         IN  /\ WalkOK(w)
             /\ w = Rec(m, r, r, <<>>, {}, IF ListsDirs(m) THEN "enter" ELSE "open", r, -1)
  <1>1. <<>> \in Seq(Path) /\ DOMAIN <<>> = {}
    OBVIOUS
  <1>2. Under(r, r)
    BY UnderIsOrder
  <1> QED
    BY <1>1, <1>2, EnterFact

\* The walk goes on or is left.
LEMMA MovesFact ==
  ASSUME Types, Walking, UNCHANGED job, queue' = {} \/ queue' = queue \/ pc = "files",
         \/ \E w : Same(w, walk) /\ GoOn(w)
         \/ \E r \in {"ok", "error"} : Leave(r)
  PROVE  Control' /\ WalkOK(walk')
  <1>1. CASE \E w : Same(w, walk) /\ GoOn(w)
    BY <1>1 DEF Same, GoOn, Types, Control, Walking
  <1>2. ASSUME NEW r \in {"ok", "error"}, Leave(r)
        PROVE  Control' /\ WalkOK(walk')
    <2>1. "cpyfile" \in Mode /\ job.src \in Path
      BY JobFact DEF Mode, Types, Control
    <2>2. CASE /\ pc = "mkdirs" /\ r = "ok" /\ pc' = "files" /\ pool' = "running" /\ UNCHANGED result
               /\ walk' = Enter("cpyfile", job.src, job.src, <<>>)
      <3>1. WalkOK(walk') /\ walk'.mode = "cpyfile" /\ walk'.root = job.src
        BY <2>1, <2>2, BeginFact, RecParts
      <3> QED
        BY <2>2, <3>1 DEF Types, Control
    <2>3. CASE pc = "files" /\ pc' = "join" /\ result' = r /\ walk' = NoWalk /\ UNCHANGED pool
      BY <2>3, NoWalkFact DEF Types, Control
    <2>4. CASE pc = "remove" /\ r = "ok" /\ pc' = "parent" /\ walk' = NoWalk /\ UNCHANGED <<result, pool>>
      BY <2>4, NoWalkFact DEF Types, Control
    <2>5. CASE /\ pc \in {"remove", "mkdirs", "sizeof"} /\ pc' = "over" /\ result' \in {r, "died", "error"}
               /\ walk' = NoWalk /\ UNCHANGED pool
      BY <2>5, NoWalkFact DEF Types, Control
    <2> QED
      BY <1>2, <2>2, <2>3, <2>4, <2>5, LeaveFact
  <1> QED
    BY <1>1, <1>2

\* What a step of the walk does.
WalkEffect ==
  /\ Walking /\ UNCHANGED <<job, changed>>
  /\ \E p \in Path, k \in Kind : Under(p, walk.root) /\ (pc = "files" => k # "dir") /\ CallStep(p, k)
  /\ Control' /\ WalkOK(walk')

LEMMA DispatchFact ==
  ASSUME Types, Walking, UNCHANGED <<job, changed>>,
         NEW p \in Path, Under(p, walk.root), NEW k \in Kind, pc = "files" => k # "dir",
         NEW w, Same(w, walk), Dispatch(p, k, w)
  PROVE  WalkEffect
  <1>1. PICK r \in {"ok", "error"} : Callback(p, k, r) /\ IF r = "ok" THEN GoOn(w) ELSE Leave("error")
    BY DEF Dispatch
  <1>2. CallStep(p, k)
    BY <1>1, CallbackFact
  <1>3. Control' /\ WalkOK(walk')
    BY <1>1, <1>2, MovesFact DEF CallStep
  <1> QED
    BY <1>2, <1>3 DEF WalkEffect

\* A step without a callback.
LEMMA QuietFact ==
  ASSUME Types, Walking, UNCHANGED <<job, fs, queue, lost, info, changed>>, FaultsKept,
         Control', WalkOK(walk')
  PROVE  WalkEffect
  <1>1. walk.root \in Path /\ Under(walk.root, walk.root) /\ "reg" \in Kind /\ "reg" # "dir"
    BY UnderIsOrder DEF Types, WalkOK, Kind
  <1>2. CallStep(walk.root, "reg")
    BY DEF CallStep
  <1> QED
    BY <1>1, <1>2 DEF WalkEffect

LEMMA FailFact ==
  ASSUME NEW c, FailsIf(c) \/ NoFault \/ Fault
  PROVE  FaultsKept
  BY DEF FailsIf, NoFault, Fault, FaultsKept

\* The walk's directory is one, and its entries are under the root.
LEMMA UnderRoot ==
  ASSUME NEW w, WalkOK(w)
  PROVE  \A e \in w.listing : e[1] \in Path /\ e[2] \in Kind /\ Under(e[1], w.root) /\ e[1] # w.root
  <1>1. ASSUME NEW e \in w.listing
        PROVE  e[1] \in Path /\ e[2] \in Kind /\ Under(e[1], w.root) /\ e[1] # w.root
    <2>1. e[1] \in Path /\ e[2] \in Kind /\ e[1] # <<>> /\ Front(e[1]) = w.dir
          /\ w.dir \in Path /\ w.root \in Path /\ Under(w.dir, w.root)
      BY DEF WalkOK
    <2>2. Under(e[1], w.dir) /\ w.dir # e[1]
      BY <2>1, DirFact
    <2> QED
      BY <2>1, <2>2, UnderIsOrder
  <1> QED
    BY <1>1

LEMMA EnterDirTypes ==
  ASSUME Types, EnterDir
  PROVE  WalkEffect
  <1>1. /\ Walking /\ walk.at = "enter" /\ UNCHANGED <<job, changed>>
        /\ Dispatch(walk.dir, "dir", SetAt(walk, "open"))
    BY DEF EnterDir, SetAt
  <1>2. WalkOK(walk) /\ walk.listing = {} /\ walk.dir \in Path /\ Under(walk.dir, walk.root) /\ pc # "files"
    BY <1>1 DEF Types, WalkOK, Control
  <1>3. Same(SetAt(walk, "open"), walk)
    BY <1>2, SameFact
  <1> QED
    BY <1>1, <1>2, <1>3, DispatchFact DEF Kind

LEMMA OpenDirTypes ==
  ASSUME Types, OpenDir
  PROVE  WalkEffect
  <1> DEFINE l == {<<p, fs[p]>> : p \in Kids(walk.dir)}
  <1>1. /\ Walking /\ UNCHANGED <<job, fs, queue, lost, info, changed>>
        /\ \/ NoFault /\ GoOn(Reads(walk, l))
           \/ FailsIf(~IsDir(walk.dir)) /\ Leave("error")
    BY DEF OpenDir, Reads
  <1>2. \A e \in l : e \in Path \X Kind /\ e[1] # <<>> /\ Front(e[1]) = walk.dir
    BY TreeDef DEF Types, FsOK, Kids, KidsIn
  <1> HIDE DEF l
  <1>3. Same(Reads(walk, l), walk)
    BY <1>2, SameFact DEF Types
  <1>4. Control' /\ WalkOK(walk')
    BY <1>1, <1>3, MovesFact
  <1> QED
    BY <1>1, <1>4, QuietFact, FailFact

LEMMA ReadEntryTypes ==
  ASSUME Types, NEW p, NEW k, ReadEntry(p, k)
  PROVE  WalkEffect
  <1> DEFINE l == walk.listing \ {<<p, k>>}
  <1>1. /\ Walking /\ walk.at = "read" /\ <<p, k>> \in walk.listing /\ UNCHANGED <<job, changed>>
        /\ \/ GoOn(Push(walk, l, p)) /\ UNCHANGED dataVars
           \/ k # "dir" /\ GoOn(SetListing(walk, l)) /\ UNCHANGED dataVars
           \/ k # "dir" /\ Dispatch(p, k, SetListing(walk, l))
    BY DEF ReadEntry, Push, SetListing
  <1>2. p \in Path /\ k \in Kind /\ Under(p, walk.root) /\ WalkOK(walk)
    BY <1>1, UnderRoot DEF Types
  <1>3. Same(SetListing(walk, l), walk)
    <2>1. \A e \in l : e \in Path \X Kind /\ e[1] # <<>> /\ Front(e[1]) = walk.dir
      BY <1>2 DEF WalkOK
    <2> QED
      BY <1>1, <1>2, <2>1, SameFact
  <1>4. Same(Push(walk, l, p), walk)
    <2>1. p # <<>> /\ Front(p) = walk.dir /\ l \in SUBSET walk.listing
      BY <1>1, <1>2 DEF WalkOK
    <2> QED
      BY <1>2, <2>1, PushFact
  <1> HIDE DEF l
  <1>5. CASE UNCHANGED dataVars /\ \E w : Same(w, walk) /\ GoOn(w)
    <2>1. Control' /\ WalkOK(walk')
      BY <1>1, <1>5, MovesFact DEF dataVars
    <2> QED
      BY <1>1, <1>5, <2>1, QuietFact DEF dataVars, FaultsKept
  <1>6. CASE k # "dir" /\ Dispatch(p, k, SetListing(walk, l))
    BY <1>1, <1>2, <1>3, <1>6, DispatchFact
  <1> QED
    BY <1>1, <1>3, <1>4, <1>5, <1>6

\* What is hidden is under the listed entries, and so in the source.
LEMMA SkippedFact ==
  ASSUME Types, Walking
  PROVE  /\ Skipped \in SUBSET Path /\ \A q \in Skipped : Under(q, job.src)
         /\ pc = "remove" => Skipped = {}
  <1>1. WalkOK(walk) /\ walk.root \in Path /\ (pc = "remove" => walk.mode = "do_rmdirr")
    BY DEF Types, Control, WalkOK
  <1>2. pc # "remove" => walk.root = job.src
    BY DEF Types, Control, Walking
  <1>3. ASSUME NEW q \in Skipped
        PROVE  q \in Path /\ pc # "remove" /\ Under(q, job.src)
    <2>1. q \in DOMAIN fs /\ walk.mode # "do_rmdirr"
      BY <1>3 DEF Skipped
    <2>2. PICK e \in walk.listing : Under(q, e[1])
      BY <1>3 DEF Skipped
    <2>3. q \in Path
      BY <2>1, TreeDef DEF Types, FsOK
    <2>4. e[1] \in Path /\ Under(e[1], walk.root)
      BY <1>1, UnderRoot
    <2>5. Under(q, walk.root)
      BY <1>1, <2>2, <2>3, <2>4, UnderIsOrder
    <2> QED
      BY <1>1, <1>2, <2>1, <2>3, <2>5
  <1> QED
    BY <1>3

LEMMA ReadFailsTypes ==
  ASSUME Types, ReadFails
  PROVE  WalkEffect
  <1>1. /\ Walking /\ UNCHANGED <<job, fs, queue, info, changed>> /\ FaultsKept /\ faults' = faults + 1
        /\ GoOn(SetListing(walk, {}))
        /\ lost' = lost \cup {<<q, "unread">> : q \in Skipped}
    BY DEF ReadFails, SetListing, Fault, FaultsKept
  <1>2. Same(SetListing(walk, {}), walk)
    <2>1. \A e \in {} : e \in Path \X Kind /\ e[1] # <<>> /\ Front(e[1]) = walk.dir
      OBVIOUS
    <2>2. walk.at = "read" /\ WalkOK(walk)
      BY DEF ReadFails, Types
    <2> QED
      BY <2>1, <2>2, SameFact
  <1>3. Control' /\ WalkOK(walk')
    BY <1>1, <1>2, MovesFact
  <1>4. Hides
    BY <1>1, SkippedFact DEF Hides
  <1>5. walk.root \in Path /\ Under(walk.root, walk.root) /\ "reg" \in Kind /\ "reg" # "dir"
    BY UnderIsOrder DEF Types, WalkOK, Kind
  <1>6. CallStep(walk.root, "reg")
    BY <1>1, <1>4 DEF CallStep
  <1> QED
    BY <1>1, <1>3, <1>5, <1>6 DEF WalkEffect

LEMMA EntryFailsTypes ==
  ASSUME Types, NEW p, NEW k, EntryFails(p, k)
  PROVE  WalkEffect
  <1>1. /\ Walking /\ UNCHANGED <<job, fs, queue, lost, info, changed>> /\ FaultsKept
        /\ \/ Leave("error")
           \/ walk.mode = "accumsize" /\ End("bug") /\ UNCHANGED pool
    BY FailFact DEF EntryFails
  <1>2. CASE Leave("error")
    BY <1>1, <1>2, MovesFact, QuietFact
  <1>3. CASE walk.mode = "accumsize" /\ End("bug") /\ UNCHANGED pool
    <2>1. pc = "sizeof"
      BY <1>1, <1>3 DEF Types, Control, Walking
    <2>2. Control' /\ WalkOK(walk')
      BY <1>1, <1>3, <2>1, NoWalkFact DEF End, Types, Control
    <2> QED
      BY <1>1, <2>2, QuietFact
  <1> QED
    BY <1>1, <1>2, <1>3

LEMMA OpenFifoTypes ==
  ASSUME Types, NEW p, NEW k, OpenFifo(p, k)
  PROVE  WalkEffect
  <1>1. /\ Walking /\ walk.mode = "cpyfile" /\ UNCHANGED <<job, dataVars, changed>>
        /\ GoOn(SetAt(walk, "blocked"))
    BY DEF OpenFifo, SetAt
  <1>2. Same(SetAt(walk, "blocked"), walk)
    BY <1>1, SameFact DEF Types
  <1>3. Control' /\ WalkOK(walk')
    BY <1>1, <1>2, MovesFact DEF dataVars
  <1> QED
    BY <1>1, <1>3, QuietFact DEF dataVars, FaultsKept

LEMMA NextDirTypes ==
  ASSUME Types, NextDir
  PROVE  WalkEffect
  <1> DEFINE next == Last(walk.stack)
             v == Enter(walk.mode, walk.root, next, Front(walk.stack))
  <1>1. /\ Walking /\ UNCHANGED <<job, changed>> /\ WalkOK(walk)
        /\ walk.dir \in Path /\ Under(walk.dir, walk.root)
    BY DEF NextDir, Types, WalkOK
  <1>2. CASE walk.stack = <<>>
    <2>1. /\ UNCHANGED dataVars
          /\ \/ walk.mode = "do_rmdirr" /\ GoOn(GoesUp(walk, walk.dir, -1))
             \/ Leave("ok")
      BY <1>2 DEF NextDir, GoesUp
    <2>2. walk.mode = "do_rmdirr" => Same(GoesUp(walk, walk.dir, -1), walk)
      BY <1>1, SameFact DEF NextDir
    <2>3. Control' /\ WalkOK(walk')
      BY <1>1, <2>1, <2>2, MovesFact DEF dataVars
    <2> QED
      BY <1>1, <2>1, <2>3, QuietFact DEF dataVars, FaultsKept
  <1>3. CASE walk.stack # <<>>
    <2>1. /\ Same(v, walk) /\ WalkOK(v) /\ v.mode = walk.mode /\ v.root = walk.root /\ v.listing = {}
      BY <1>1, <1>3, PopFact, RecParts DEF Same
    <2>2. \/ UNCHANGED dataVars /\ GoOn(v)
          \/ walk.mode = "do_rmdirr" /\ Dispatch(walk.dir, "dir", v)
          \/ walk.mode = "do_rmdirr" /\ UNCHANGED dataVars /\ GoOn(GoesUp(v, walk.dir, TextLen(Dirname(next))))
      BY <1>3 DEF NextDir, GoesUp
    <2> HIDE DEF next, v
    <2>3. CASE UNCHANGED dataVars /\ GoOn(v)
      <3>1. Control' /\ WalkOK(walk')
        BY <1>1, <2>1, <2>3, MovesFact DEF dataVars
      <3> QED
        BY <1>1, <2>3, <3>1, QuietFact DEF dataVars, FaultsKept
    <2>4. CASE walk.mode = "do_rmdirr" /\ Dispatch(walk.dir, "dir", v)
      <3>1. pc # "files" /\ "dir" \in Kind
        BY <2>4 DEF Types, Control, Kind
      <3> QED
        BY <1>1, <2>1, <2>4, <3>1, DispatchFact
    <2>5. CASE walk.mode = "do_rmdirr" /\ UNCHANGED dataVars /\ GoOn(GoesUp(v, walk.dir, TextLen(Dirname(next))))
      <3> DEFINE z == GoesUp(v, walk.dir, TextLen(Dirname(next)))
      <3>1. Same(z, v)
        BY <1>1, <2>1, <2>5, SameFact
      <3> HIDE DEF z
      <3>2. Same(z, walk) /\ GoOn(z) /\ UNCHANGED dataVars
        BY <2>1, <2>5, <3>1 DEF Same, z
      <3>3. Control' /\ WalkOK(walk')
        BY <1>1, <3>2, MovesFact DEF dataVars
      <3> QED
        BY <1>1, <3>2, <3>3, QuietFact DEF dataVars, FaultsKept
    <2> QED
      BY <2>2, <2>3, <2>4, <2>5
  <1> QED
    BY <1>2, <1>3

LEMMA UnwindTypes ==
  ASSUME Types, Unwind
  PROVE  WalkEffect
  <1> DEFINE a == IF TextLen(Dirname(walk.sb)) = walk.upto THEN "open" ELSE "up"
             w == Leaves(walk, Dirname(walk.sb), a)
  <1>1. /\ Walking /\ walk.at = "up" /\ UNCHANGED <<job, changed>> /\ WalkOK(walk)
        /\ walk.mode = "do_rmdirr" /\ walk.sb \in Path /\ Under(walk.sb, walk.root) /\ pc # "files"
    BY DEF Unwind, Types, WalkOK, Control
  <1>2. PICK r \in {"ok", "error"} :
          /\ Callback(walk.sb, "dir", r)
          /\ IF r = "error" THEN Leave("error")
             ELSE IF TextLen(walk.sb) = TextLen(walk.root) THEN Leave("ok") ELSE GoOn(w)
    BY DEF Unwind, Leaves
  <1>3. CallStep(walk.sb, "dir")
    BY <1>1, <1>2, CallbackFact DEF Kind
  <1>4. CASE walk.sb = walk.root \/ ~GoOn(w)
    <2>1. \E x \in {"ok", "error"} : Leave(x)
      BY <1>2, <1>4
    <2>2. Control' /\ WalkOK(walk')
      BY <1>1, <1>3, <2>1, MovesFact DEF CallStep
    <2> QED
      BY <1>1, <1>3, <2>2 DEF WalkEffect, Kind
  <1>5. CASE walk.sb # walk.root /\ GoOn(w)
    <2>1. Dirname(walk.sb) \in Path /\ Under(Dirname(walk.sb), walk.root)
      BY <1>1, <1>5, UpFact DEF Dirname, WalkOK
    <2>2. a \in {"open", "up"} /\ walk.listing = {}
      BY <1>1 DEF WalkOK
    <2> HIDE DEF a
    <2>3. Same(w, walk)
      BY <1>1, <2>1, <2>2, SameFact
    <2>4. Control' /\ WalkOK(walk')
      BY <1>1, <1>3, <1>5, <2>3, MovesFact DEF CallStep
    <2> QED
      BY <1>1, <1>3, <2>4 DEF WalkEffect, Kind
  <1> QED
    BY <1>4, <1>5

\* The steps before the copy and after it, and those of the copy threads.
LEMMA AccessTypes ==
  ASSUME Types, Access
  PROVE  Types'
  <1>1. FaultsKept
    BY DEF Access, FailsIf, Fault, NoFault, FaultsKept
  <1>2. Troubles'
    BY <1>1, FaultsFact DEF Access, Types
  <1>3. Control' /\ WalkOK(walk')
    BY NoWalkFact DEF Access, Goto, End, Types, Control
  <1> QED
    BY <1>2, <1>3 DEF Access, Types, FsOK, IsDir, IsA, Entries, Losses, Counted

LEMMA FlexRemoveTypes ==
  ASSUME Types, FlexRemove
  PROVE  Types' /\ (GoneAt(job.dst) \/ UNCHANGED fs)
  <1>1. FaultsKept
    BY DEF FlexRemove, FailsIf, Fault, NoFault, FaultsKept
  <1>2. Troubles'
    BY <1>1, FaultsFact DEF FlexRemove, Types
  <1>3. job.dst \in Path /\ job.dst # <<>> /\ "do_rmdirr" \in Mode
    BY JobFact DEF Types, Control, Mode
  <1>4. Control' /\ WalkOK(walk')
    <2>1. CASE Goto("parent")
      BY <2>1 DEF FlexRemove, Goto, Types, Control
    <2>2. CASE pc' = "remove" /\ Begin("do_rmdirr", job.dst) /\ UNCHANGED result
      <3>1. WalkOK(walk') /\ walk'.mode = "do_rmdirr" /\ walk'.root = job.dst
        BY <1>3, <2>2, BeginFact, RecParts DEF Begin
      <3> QED
        BY <2>2, <3>1 DEF FlexRemove, Types, Control
    <2>3. CASE End("died")
      BY <2>3, NoWalkFact DEF FlexRemove, End, Types, Control
    <2> QED
      BY <2>1, <2>2, <2>3 DEF FlexRemove
  <1>5. GoneAt(job.dst) \/ UNCHANGED fs
    <2>1. ASSUME ~IsDir(job.dst), job.dst \in DOMAIN fs
          PROVE  Kids(job.dst) = {}
      BY <2>1, TreeDef DEF Types, FsOK, IsDir, IsA, Kids, KidsIn
    <2> QED
      BY <1>3, <2>1 DEF FlexRemove, GoneAt
  <1>6. FsOK'
    BY <1>3, <1>5, OneChange DEF Types
  <1> QED
    BY <1>2, <1>4, <1>5, <1>6 DEF FlexRemove, Types, Entries, Losses, Counted

LEMMA JoinTypes ==
  ASSUME Types, Join
  PROVE  Types'
  <1>1. Control' /\ WalkOK(walk')
    BY NoWalkFact DEF Join, End, Types, Control
  <1>2. Losses'
    BY DEF Join, Types, Losses, Entries, Why
  <1> QED
    BY <1>1, <1>2 DEF Join, Types, FsOK, IsDir, IsA, Entries, Counted, Troubles

LEMMA StatTypes ==
  ASSUME Types, Stat
  PROVE  Types'
  <1>1. FaultsKept
    BY DEF Stat, FailsIf, Fault, NoFault, FaultsKept
  <1>2. Troubles'
    BY <1>1, FaultsFact DEF Stat, Types
  <1>3. job.src \in Path /\ "accumsize" \in Mode
    BY JobFact DEF Types, Control, Mode
  <1>4. Control' /\ WalkOK(walk')
    <2>1. CASE pc' = "sizeof" /\ Begin("accumsize", job.src) /\ UNCHANGED result
      <3>1. WalkOK(walk') /\ walk'.mode = "accumsize" /\ walk'.root = job.src
        BY <1>3, <2>1, BeginFact, RecParts DEF Begin
      <3> QED
        BY <2>1, <3>1 DEF Stat, Types, Control
    <2>2. CASE \E r \in {"ok", "error"} : End(r)
      BY <2>2, NoWalkFact DEF Stat, End, Types, Control
    <2> QED
      BY <2>1, <2>2 DEF Stat
  <1>5. Counted'
    <2>1. \A k \in Kind : Size[k] \in Nat
      BY DEF Size, Kind
    <2>2. job.src \in DOMAIN fs => fs[job.src] \in Kind
      BY TreeDef DEF Types, FsOK
    <2> QED
      BY <2>1, <2>2 DEF Stat, Types, Counted
  <1> QED
    BY <1>2, <1>4, <1>5 DEF Stat, Types, FsOK, IsDir, IsA, Entries, Losses

LEMMA WorkerCopiesTypes ==
  ASSUME Types, NEW p, NEW k, WorkerCopies(p, k)
  PROVE  /\ Types' /\ p \in Path /\ k \in Kind /\ pc \in {"files", "join"}
         /\ (MadeAt(DestOf(p)) \/ UNCHANGED fs) /\ LostKept(p)
  <1>1. p \in Path /\ k \in Kind /\ Under(p, job.src) /\ pc \in {"files", "join"}
    BY DEF WorkerCopies, Types, Entries, Control
  <1>2. PICK r \in {"ok", "error"} : Copy(p, k, r) /\ pool' = IF r = "ok" THEN pool ELSE "error"
    BY DEF WorkerCopies
  <1>3. (MadeAt(DestOf(p)) \/ UNCHANGED fs) /\ FaultsKept /\ LostKept(p)
    BY <1>1, <1>2, CopyFact
  <1>4. FsOK'
    <2>1. DestOf(p) \in Path
      BY <1>1, JobFact, DestFact DEF Types, Control
    <2> QED
      BY <1>3, <2>1, OneChange DEF Types
  <1>5. Control' /\ WalkOK(walk')
    BY <1>1, <1>2 DEF WorkerCopies, Types, Control
  <1>6. Losses'
    BY <1>1, <1>3 DEF WorkerCopies, Types, Losses, LostKept
  <1>7. Troubles'
    BY <1>3, FaultsFact DEF WorkerCopies, Types
  <1> QED
    BY <1>1, <1>3, <1>4, <1>5, <1>6, <1>7 DEF WorkerCopies, Types, Entries, Counted

LEMMA WorkerBlocksTypes ==
  ASSUME Types, NEW p, NEW k, WorkerBlocks(p, k)
  PROVE  Types'
  <1>1. p \in Path /\ Under(p, job.src) /\ pc \in {"files", "join"}
    BY DEF WorkerBlocks, Types, Entries, Control
  <1>2. Entries'
    BY <1>1 DEF WorkerBlocks, Types, Entries
  <1>3. Control' /\ WalkOK(walk')
    BY <1>1 DEF WorkerBlocks, Types, Control
  <1> QED
    BY <1>2, <1>3 DEF WorkerBlocks, Types, FsOK, IsDir, IsA, Losses, Counted, Troubles

\* What is made on the way to the destination.
LEMMA MakeParentsTypes ==
  ASSUME Types, MakeParents
  PROVE  /\ Types'
         /\ DOMAIN fs \subseteq DOMAIN fs' /\ \A q \in DOMAIN fs : fs'[q] = fs[q]
         /\ \A q \in DOMAIN fs' \ DOMAIN fs : q \in Path /\ Under(job.dst, q) /\ q # job.dst
  <1> DEFINE part(i) == SubSeq(job.dst, 1, i)
             all == Len(job.dst) - 1
  <1>1. job.dst \in Path /\ job.dst # <<>> /\ job.src \in Path /\ Len(job.dst) \in Nat \ {0}
    BY JobFact DEF Types, Control, Path
  <1>2. PICK n \in 0..all :
          /\ \A i \in 1..(n - 1) : part(i) \notin DOMAIN fs \/ IsDir(part(i))
          /\ fs' = [q \in DOMAIN fs \cup {part(i) : i \in 1..n} |-> IF q \in DOMAIN fs THEN fs[q] ELSE "dir"]
          /\ FaultsKept
          /\ \/ pc' = "mkdirs" /\ Begin("makedir", job.src) /\ UNCHANGED result
             \/ End("error")
    BY DEF MakeParents, FailsIf, Fault, NoFault, FaultsKept
  <1>3. \A i \in 0..n : /\ part(i) \in Path /\ Len(part(i)) = i /\ Under(job.dst, part(i)) /\ part(i) # job.dst
    <2>1. \A i \in 0..n : i \in 0..Len(job.dst) /\ i # Len(job.dst)
      BY <1>1
    <2> QED
      BY <1>1, <2>1, BeginningFact
  <1>4. \A i \in 1..n : part(i) # <<>> /\ Front(part(i)) = part(i - 1)
    <2>1. \A i \in 1..n : i \in 1..Len(job.dst)
      BY <1>1
    <2> QED
      BY <1>1, <2>1, BeginningFact
  <1>5. part(0) = <<>>
    <2>1. part(0) \in Path /\ Len(part(0)) = 0
      BY <1>1, <1>3
    <2> QED
      BY <2>1 DEF Path
  <1> HIDE DEF part
  <1>6. /\ DOMAIN fs' = DOMAIN fs \cup {part(i) : i \in 1..n}
        /\ \A q \in DOMAIN fs : fs'[q] = fs[q]
        /\ \A i \in 1..n : part(i) \notin DOMAIN fs => fs'[part(i)] = "dir"
    BY <1>2
  <1>7. \A i \in 0..n - 1 : part(i) \in DOMAIN fs' /\ fs'[part(i)] = "dir"
    <2>1. part(0) \in DOMAIN fs' /\ fs'[part(0)] = "dir"
      BY <1>5, <1>6 DEF Types, FsOK, IsDir, IsA
    <2>2. ASSUME NEW i \in 0..n - 1, i # 0
          PROVE  part(i) \in DOMAIN fs' /\ fs'[part(i)] = "dir"
      <3>1. i \in 1..n /\ i \in 1..(n - 1)
        BY <1>1, <2>2
      <3> QED
        BY <1>2, <1>6, <3>1 DEF IsDir, IsA
    <2> QED
      BY <2>1, <2>2
  <1>8. IsTree(fs')
    <2>1. ASSUME NEW q \in DOMAIN fs
          PROVE  /\ q \in Path /\ fs'[q] \in Kind
                 /\ q # <<>> => Front(q) \in DOMAIN fs' /\ fs'[Front(q)] = "dir"
                 /\ \A d \in Path : Under(q, d) /\ d # q => d \in DOMAIN fs' /\ fs'[d] = "dir"
      BY <1>6, <2>1, TreeDef DEF Types, FsOK
    <2>2. ASSUME NEW i \in 1..n, part(i) \notin DOMAIN fs
          PROVE  /\ part(i) \in Path /\ fs'[part(i)] \in Kind
                 /\ part(i) # <<>> => Front(part(i)) \in DOMAIN fs' /\ fs'[Front(part(i))] = "dir"
                 /\ \A d \in Path : Under(part(i), d) /\ d # part(i) => d \in DOMAIN fs' /\ fs'[d] = "dir"
      <3>1. part(i) \in Path /\ fs'[part(i)] \in Kind /\ i \in 0..n
        BY <1>1, <1>3, <1>6, <2>2 DEF Kind
      <3>2. i - 1 \in 0..n - 1
        BY <1>1
      <3>3. ASSUME NEW d \in Path, Under(part(i), d), d # part(i)
            PROVE  d \in DOMAIN fs' /\ fs'[d] = "dir"
        <4>1. Under(job.dst, part(i))
          BY <1>3, <3>1
        <4>2. Under(job.dst, d)
          BY <1>1, <3>1, <3>3, <4>1, UnderIsOrder
        <4>3. Len(d) < i /\ Len(d) \in Nat
          BY <1>3, <3>1, <3>3, UnderIsOrder DEF Path
        <4>4. d = part(Len(d))
          BY <1>1, <4>2, BeginningFact DEF part
        <4>5. Len(d) \in 0..n - 1
          BY <1>1, <4>3
        <4> QED
          BY <1>7, <4>4, <4>5
      <3> QED
        BY <1>4, <1>7, <3>1, <3>2, <3>3
    <2>3. \A q \in DOMAIN fs' : /\ q \in Path /\ fs'[q] \in Kind
                                /\ q # <<>> => Front(q) \in DOMAIN fs' /\ fs'[Front(q)] = "dir"
                                /\ \A d \in Path : Under(q, d) /\ d # q => d \in DOMAIN fs' /\ fs'[d] = "dir"
      BY <1>6, <2>1, <2>2
    <2> QED
      BY <2>3, TreeDef
  <1>9. FsOK'
    BY <1>6, <1>8 DEF Types, FsOK, IsDir, IsA
  <1>10. \A q \in DOMAIN fs' \ DOMAIN fs : q \in Path /\ Under(job.dst, q) /\ q # job.dst
    <2>1. \A i \in 1..n : i \in 0..n
      BY <1>1
    <2> QED
      BY <1>3, <1>6, <2>1
  <1>11. Control' /\ WalkOK(walk')
    <2>1. CASE pc' = "mkdirs" /\ Begin("makedir", job.src) /\ UNCHANGED result
      <3>1. "makedir" \in Mode
        BY DEF Mode
      <3>2. WalkOK(walk') /\ walk'.mode = "makedir" /\ walk'.root = job.src
        BY <1>1, <2>1, <3>1, BeginFact, RecParts DEF Begin
      <3> QED
        BY <2>1, <3>2 DEF MakeParents, Types, Control
    <2>2. CASE End("error")
      BY <2>2, NoWalkFact DEF MakeParents, End, Types, Control
    <2> QED
      BY <1>2, <2>1, <2>2
  <1>12. Troubles'
    BY <1>2, FaultsFact DEF MakeParents, Types
  <1> QED
    BY <1>6, <1>9, <1>10, <1>11, <1>12 DEF MakeParents, Types, Entries, Losses, Counted

\* What another program does is in the source, and the walk may learn of it.
LEMMA OutsideTypes ==
  ASSUME Types, NEW p, p \in Path, p # <<>>, Outside(p)
  PROVE  /\ Types'
         /\ Under(p, job.src) /\ p # job.src /\ p \notin changed /\ changed' = changed \cup {p}
         /\ GoneAt(p) \/ (p \notin DOMAIN fs /\ \E k \in Kind : fs' = With(fs, p, k))
         /\ \/ walk' = walk
            \/ \E l : /\ walk' = SetListing(walk, l) /\ Same(walk', walk)
                      /\ \A e \in l : e \in walk.listing \/ (e[1] = p /\ IsA(p, e[2])')
  <1>1. Front(p) \in Path /\ Under(p, Front(p)) /\ Front(p) # p /\ job.src \in Path
    BY DirFact, JobFact DEF Types, Control
  <1>2. Under(p, job.src) /\ p # job.src
    <2>1. Under(Front(p), job.src)
      BY DEF Outside
    <2> QED
      BY <1>1, <2>1, UnderIsOrder
  <1>3. Front(p) \in DOMAIN fs /\ fs[Front(p)] = "dir"
    BY DEF Outside, IsDir, IsA
  <1>4. ASSUME GoneAt(p), walk' \in {walk, SetListing(walk, {e \in walk.listing : e[1] # p})}
        PROVE  /\ FsOK'
               /\ \/ walk' = walk
                  \/ \E l : /\ walk' = SetListing(walk, l) /\ Same(walk', walk)
                            /\ \A e \in l : e \in walk.listing \/ (e[1] = p /\ IsA(p, e[2])')
    <2>1. FsOK'
      BY <1>4, OneChange DEF Types
    <2> DEFINE l == {e \in walk.listing : e[1] # p}
    <2>2. l \subseteq walk.listing /\ \A e \in l : e \in Path \X Kind /\ e[1] # <<>> /\ Front(e[1]) = walk.dir
      BY DEF Types, WalkOK
    <2>3. walk' = walk \/ walk' = SetListing(walk, l)
      BY <1>4
    <2> HIDE DEF l
    <2>4. Same(SetListing(walk, l), walk)
      BY <2>2, SameFact DEF Types
    <2> QED
      BY <1>4, <2>1, <2>2, <2>3, <2>4
  <1>5. ASSUME p \notin DOMAIN fs,
               \E k \in Kind : /\ fs' = With(fs, p, k)
                               /\ \/ walk' = walk
                                  \/ /\ walk.at = "read" /\ walk.dir = Front(p)
                                     /\ walk' = SetListing(walk, walk.listing \cup {<<p, k>>})
        PROVE  /\ FsOK'
               /\ \/ walk' = walk
                  \/ \E l : /\ walk' = SetListing(walk, l) /\ Same(walk', walk)
                            /\ \A e \in l : e \in walk.listing \/ (e[1] = p /\ IsA(p, e[2])')
    <2>1. PICK k \in Kind : /\ fs' = With(fs, p, k)
                            /\ \/ walk' = walk
                               \/ /\ walk.at = "read" /\ walk.dir = Front(p)
                                  /\ walk' = SetListing(walk, walk.listing \cup {<<p, k>>})
      BY <1>5
    <2>2. IsTree(fs')
      BY <1>3, <1>5, <2>1, GrowsFact DEF Types, FsOK
    <2>3. FsOK' /\ IsA(p, k)'
      BY <1>5, <2>1, <2>2 DEF Types, FsOK, IsDir, IsA, With
    <2> DEFINE l == walk.listing \cup {<<p, k>>}
    <2>4. walk.dir = Front(p) => \A e \in l : e \in Path \X Kind /\ e[1] # <<>> /\ Front(e[1]) = walk.dir
      BY DEF Types, WalkOK
    <2>5. \A e \in l : e \in walk.listing \/ (e[1] = p /\ IsA(p, e[2])')
      BY <2>3
    <2> HIDE DEF l
    <2>6. walk.at = "read" /\ walk.dir = Front(p) => Same(SetListing(walk, l), walk)
      BY <2>4, SameFact DEF Types
    <2> QED
      BY <1>5, <2>1, <2>3, <2>5, <2>6 DEF l
  <1>6. \/ GoneAt(p) /\ walk' \in {walk, SetListing(walk, {e \in walk.listing : e[1] # p})}
        \/ /\ p \notin DOMAIN fs
           /\ \E k \in Kind : /\ fs' = With(fs, p, k)
                            /\ \/ walk' = walk
                               \/ /\ walk.at = "read" /\ walk.dir = Front(p)
                                  /\ walk' = SetListing(walk, walk.listing \cup {<<p, k>>})
    BY DEF Outside, GoneAt, SetListing, Kind
  <1>7. FsOK' /\ WalkOK(walk') /\ walk'.mode = walk.mode /\ walk'.root = walk.root
    BY <1>4, <1>5, <1>6 DEF Same, Types
  <1>8. Troubles'
    <2>1. MoreTrouble /\ p \notin changed /\ changed' = changed \cup {p} /\ UNCHANGED <<faults, job>>
      BY DEF Outside
    <2>2. IsFiniteSet(changed') /\ Cardinality(changed') = Cardinality(changed) + 1 /\ Cardinality(changed) \in Nat
      BY <2>1, FS_AddElement, FS_CardinalityType DEF Types, Troubles
    <2>3. faults' + Cardinality(changed') <= MaxTroubles
      BY <2>1, <2>2, FileTreeAssumption DEF MoreTrouble, Types, Troubles
    <2> QED
      BY <1>2, <2>1, <2>2, <2>3 DEF Types, Troubles
  <1>9. Types'
    BY <1>7, <1>8 DEF Outside, Types, Control, Entries, Losses, Counted
  <1> QED
    BY <1>2, <1>4, <1>5, <1>6, <1>9 DEF Outside

\* A step of the walk is one of its actions.
LEMMA WalkStepTypes ==
  ASSUME Types, WalkStep
  PROVE  WalkEffect
  <1>1. CASE EnterDir
    BY <1>1, EnterDirTypes
  <1>2. CASE OpenDir
    BY <1>2, OpenDirTypes
  <1>3. CASE NextDir
    BY <1>3, NextDirTypes
  <1>4. CASE Unwind
    BY <1>4, UnwindTypes
  <1>5. ASSUME NEW e \in walk.listing, ReadEntry(e[1], e[2])
        PROVE  WalkEffect
    BY <1>5, ReadEntryTypes
  <1>6. ASSUME NEW e \in walk.listing, EntryFails(e[1], e[2])
        PROVE  WalkEffect
    BY <1>6, EntryFailsTypes
  <1>7. ASSUME NEW e \in walk.listing, OpenFifo(e[1], e[2])
        PROVE  WalkEffect
    BY <1>7, OpenFifoTypes
  <1>8. CASE ReadFails
    BY <1>8, ReadFailsTypes
  <1> QED
    BY <1>1, <1>2, <1>3, <1>4, <1>5, <1>6, <1>7, <1>8 DEF WalkStep

\* The types hold at the start and through every step.
LEMMA TypesInit == Init => Types
  <1> SUFFICES ASSUME Init PROVE Types
    OBVIOUS
  <1>1. job \in Jobs /\ fs = job.was
    BY DEF Init
  <1>2. FsOK
    BY <1>1, JobFact DEF FsOK, IsDir, IsA
  <1>3. WalkOK(walk)
    BY NoWalkFact DEF Init
  <1>4. Troubles
    BY FS_EmptySet, FileTreeAssumption DEF Init, Troubles
  <1>5. Control
    BY <1>1, JobFact DEF Init, Control
  <1> QED
    BY <1>2, <1>3, <1>4, <1>5 DEF Init, Types, Entries, Losses, Counted

LEMMA TypesStep ==
  ASSUME Types, [Next]_vars
  PROVE  Types'
  <1>1. CASE UNCHANGED vars
    BY <1>1 DEF vars, Types, FsOK, IsDir, IsA, Control, Entries, Losses, Counted, Troubles
  <1>2. CASE WalkStep
    <2>1. WalkEffect
      BY <1>2, WalkStepTypes
    <2>2. PICK p \in Path, k \in Kind : Under(p, walk.root) /\ (pc = "files" => k # "dir") /\ CallStep(p, k)
      BY <2>1 DEF WalkEffect
    <2>3. FsOK' /\ Entries' /\ Losses' /\ Counted' /\ Troubles'
      BY <2>1, <2>2, CallTypes DEF WalkEffect
    <2> QED
      BY <2>1, <2>3 DEF WalkEffect, Types
  <1>3. CASE Access
    BY <1>3, AccessTypes
  <1>4. CASE FlexRemove
    BY <1>4, FlexRemoveTypes
  <1>5. CASE MakeParents
    BY <1>5, MakeParentsTypes
  <1>6. CASE Join
    BY <1>6, JoinTypes
  <1>7. CASE Stat
    BY <1>7, StatTypes
  <1>8. ASSUME NEW e \in queue, WorkerCopies(e[1], e[2])
        PROVE  Types'
    BY <1>8, WorkerCopiesTypes
  <1>9. ASSUME NEW e \in queue, WorkerBlocks(e[1], e[2])
        PROVE  Types'
    BY <1>9, WorkerBlocksTypes
  <1>10. ASSUME NEW d \in DOMAIN fs, NEW x \in Name, Outside(Append(d, x))
         PROVE  Types'
    <2>1. Append(d, x) \in Path /\ Append(d, x) # <<>>
      BY TreeDef DEF Types, FsOK, Path
    <2> QED
      BY <1>10, <2>1, OutsideTypes
  <1> QED
    BY <1>1, <1>2, <1>3, <1>4, <1>5, <1>6, <1>7, <1>8, <1>9, <1>10 DEF Next, CommandStep, Running, Done

LEMMA TypesSpec == Spec => []Types
  BY TypesInit, TypesStep, PTL DEF Spec

\* Every part of the state keeps its type: what exists stands in directories, the walk stays
\* under its root, and what the threads have been given are entries of the source.
THEOREM TypeCorrect == Spec => []TypeOK
  <1>1. Types => TypeOK
    BY TreeDef DEF Types, TypeOK, FsOK, WalkOK, Control, Entries, Losses, Counted, Troubles, Path, IsStrictPrefix, Under
  <1> QED
    BY <1>1, TypesSpec, PTL

-----------------------------------------------------------------------------
(* Nothing outside the destination is touched. *)

\* How a step can change the file system: at one path of the destination, on the way to it,
\* or in the source, where another program does.
FsStep ==
  \/ UNCHANGED <<fs, changed>>
  \/ UNCHANGED changed /\ \E q \in Path : Under(q, job.dst) /\ (MadeAt(q) \/ GoneAt(q))
  \/ /\ UNCHANGED changed
     /\ DOMAIN fs \subseteq DOMAIN fs' /\ \A q \in DOMAIN fs : fs'[q] = fs[q]
     /\ \A q \in DOMAIN fs' \ DOMAIN fs : q \in Path /\ Under(job.dst, q) /\ q # job.dst
  \/ \E p \in Path : /\ Under(p, job.src) /\ p # job.src /\ p \notin changed /\ changed' = changed \cup {p}
                     /\ GoneAt(p) \/ (p \notin DOMAIN fs /\ \E k \in Kind : fs' = With(fs, p, k))

LEMMA FsStepFact ==
  ASSUME Types, [Next]_vars
  PROVE  FsStep /\ UNCHANGED job
  <1>1. CASE UNCHANGED vars \/ Access \/ Join \/ Stat
    BY <1>1 DEF vars, Access, Join, Stat, FsStep
  <1>2. CASE WalkStep
    <2>1. WalkEffect
      BY <1>2, WalkStepTypes
    <2>2. PICK p \in Path, k \in Kind : Under(p, walk.root) /\ CallStep(p, k)
      BY <2>1 DEF WalkEffect
    <2>3. UNCHANGED <<job, changed>> /\ job.src \in Path /\ job.dst \in Path
      BY <2>1, JobFact DEF WalkEffect, Types, Control
    <2>4. DestOf(p) \in Path /\ Under(DestOf(p), job.dst)
      BY <2>3, DestFact
    <2>5. pc = "remove" => Under(p, job.dst)
      BY <2>2 DEF Types, Control
    <2> QED
      BY <2>2, <2>3, <2>4, <2>5 DEF CallStep, FsStep
  <1>3. CASE FlexRemove
    <2>1. job.dst \in Path /\ Under(job.dst, job.dst)
      BY JobFact, UnderIsOrder DEF Types, Control
    <2>2. GoneAt(job.dst) \/ UNCHANGED fs
      BY <1>3, FlexRemoveTypes
    <2>3. UNCHANGED <<job, changed>>
      BY <1>3 DEF FlexRemove
    <2> QED
      BY <2>1, <2>2, <2>3 DEF FsStep
  <1>4. CASE MakeParents
    <2>1. UNCHANGED <<job, changed>>
      BY <1>4 DEF MakeParents
    <2> QED
      BY <1>4, <2>1, MakeParentsTypes DEF FsStep
  <1>5. ASSUME NEW e \in queue, WorkerCopies(e[1], e[2])
        PROVE  FsStep /\ UNCHANGED job
    <2>1. e[1] \in Path /\ (MadeAt(DestOf(e[1])) \/ UNCHANGED fs)
      BY <1>5, WorkerCopiesTypes
    <2>2. DestOf(e[1]) \in Path /\ Under(DestOf(e[1]), job.dst)
      BY <2>1, JobFact, DestFact DEF Types, Control
    <2>3. UNCHANGED <<job, changed>>
      BY <1>5 DEF WorkerCopies
    <2> QED
      BY <2>1, <2>2, <2>3 DEF FsStep
  <1>6. ASSUME NEW e \in queue, WorkerBlocks(e[1], e[2])
        PROVE  FsStep /\ UNCHANGED job
    BY <1>6 DEF WorkerBlocks, FsStep
  <1>7. ASSUME NEW d \in DOMAIN fs, NEW x \in Name, Outside(Append(d, x))
        PROVE  FsStep /\ UNCHANGED job
    <2> DEFINE p == Append(d, x)
    <2>1. p \in Path /\ p # <<>>
      BY TreeDef DEF Types, FsOK, Path
    <2> HIDE DEF p
    <2>2. Outside(p)
      BY <1>7 DEF p
    <2>3. UNCHANGED job
      BY <2>2 DEF Outside
    <2> QED
      BY <2>1, <2>2, <2>3, OutsideTypes DEF FsStep
  <1> QED
    BY <1>1, <1>2, <1>3, <1>4, <1>5, <1>6, <1>7 DEF Next, CommandStep, Running, Done

\* What another program has touched in the source, it has removed, if it was there at first.
Gone == Apart => \A p \in changed : p \in DOMAIN job.was => p \notin DOMAIN fs
Untouched == Types /\ OnlyDestTouched /\ Gone

LEMMA ApartFact ==
  ASSUME job.src \in Path, job.dst \in Path, Apart
  PROVE  /\ \A p \in Path : ~(Under(p, job.src) /\ Under(p, job.dst))
         /\ \A p \in Path : Under(p, job.src) => ~Under(job.dst, p)
  <1>1. ASSUME NEW p \in Path, Under(p, job.src), Under(p, job.dst)
        PROVE  FALSE
    BY <1>1, UnderIsOrder DEF Apart
  <1>2. ASSUME NEW p \in Path, Under(p, job.src), Under(job.dst, p)
        PROVE  FALSE
    BY <1>2, UnderIsOrder DEF Apart
  <1> QED
    BY <1>1, <1>2

LEMMA UntouchedStep ==
  ASSUME Untouched, [Next]_vars
  PROVE  Untouched'
  <1>1. Types' /\ FsStep /\ UNCHANGED job
    BY TypesStep, FsStepFact DEF Untouched
  <1>2. Apart' = Apart
    BY <1>1 DEF Apart
  <1>3. job.src \in Path /\ job.dst \in Path /\ IsTree(job.was)
    BY JobFact DEF Untouched, Types, Control
  <1> SUFFICES ASSUME Apart PROVE OnlyDestTouched' /\ Gone'
    BY <1>1, <1>2 DEF Untouched, OnlyDestTouched, Gone
  <1>4. /\ \A p \in DOMAIN job.was \ changed : Under(p, job.dst) \/ (p \in DOMAIN fs /\ fs[p] = job.was[p])
        /\ \A p \in changed : p \in DOMAIN job.was => p \notin DOMAIN fs
        /\ \A p \in DOMAIN job.was : p \in Path
    BY <1>3, TreeDef DEF Untouched, OnlyDestTouched, Gone
  <1>5. CASE UNCHANGED <<fs, changed>>
    BY <1>1, <1>4, <1>5 DEF OnlyDestTouched, Gone
  <1>6. ASSUME UNCHANGED changed, NEW q \in Path, Under(q, job.dst), MadeAt(q) \/ GoneAt(q)
        PROVE  OnlyDestTouched' /\ Gone'
    <2>1. /\ \A p : p # q => (p \in DOMAIN fs <=> p \in DOMAIN fs')
          /\ \A p \in DOMAIN fs : p # q => fs'[p] = fs[p]
      BY <1>6, OneChange DEF Untouched, Types
    <2>2. ~Under(q, job.src)
      BY <1>3, <1>6, ApartFact
    <2>3. \A p \in changed : p # q
      BY <2>2 DEF Untouched, Types, Troubles
    <2> QED
      BY <1>1, <1>4, <1>6, <2>1, <2>3 DEF OnlyDestTouched, Gone
  <1>7. CASE /\ UNCHANGED changed
             /\ DOMAIN fs \subseteq DOMAIN fs' /\ \A q \in DOMAIN fs : fs'[q] = fs[q]
             /\ \A q \in DOMAIN fs' \ DOMAIN fs : q \in Path /\ Under(job.dst, q) /\ q # job.dst
    <2>1. \A p \in changed : p \in Path /\ Under(p, job.src)
      BY DEF Untouched, Types, Troubles
    <2>2. \A p \in changed : p \notin DOMAIN fs' \ DOMAIN fs
      BY <1>3, <1>7, <2>1, ApartFact
    <2> QED
      BY <1>1, <1>4, <1>7, <2>2 DEF OnlyDestTouched, Gone
  <1>8. ASSUME NEW q \in Path, Under(q, job.src), changed' = changed \cup {q}, q \notin changed,
               GoneAt(q) \/ (q \notin DOMAIN fs /\ \E k \in Kind : fs' = With(fs, q, k))
        PROVE  OnlyDestTouched' /\ Gone'
    <2>1. ~Under(q, job.dst)
      BY <1>3, <1>8, ApartFact
    <2>2. q \in DOMAIN job.was => q \in DOMAIN fs
      BY <1>4, <1>8, <2>1
    <2>3. /\ \A p : p # q => (p \in DOMAIN fs <=> p \in DOMAIN fs')
          /\ \A p \in DOMAIN fs : p # q => fs'[p] = fs[p]
          /\ q \in DOMAIN job.was => q \notin DOMAIN fs'
      BY <1>8, <2>2 DEF GoneAt, With, Without
    <2> QED
      BY <1>1, <1>4, <1>8, <2>3 DEF OnlyDestTouched, Gone
  <1> QED
    BY <1>1, <1>5, <1>6, <1>7, <1>8 DEF FsStep

LEMMA UntouchedSpec == Spec => []Untouched
  <1>1. Init => Untouched
    <2> SUFFICES ASSUME Init PROVE Untouched
      OBVIOUS
    <2>1. Types
      BY TypesInit
    <2> QED
      BY <2>1 DEF Init, Untouched, OnlyDestTouched, Gone
  <1>2. Untouched /\ [Next]_vars => Untouched'
    BY UntouchedStep
  <1> QED
    BY <1>1, <1>2, PTL DEF Spec

\* The copy, and the removal before it, touch nothing outside the destination.
THEOREM DestTouched == Spec => []OnlyDestTouched
  <1>1. Untouched => OnlyDestTouched
    BY DEF Untouched
  <1> QED
    BY <1>1, UntouchedSpec, PTL

-----------------------------------------------------------------------------
(* The steps of the two walks that copy, one by one. *)

Copying == pc \in {"mkdirs", "files"}

\* The walk w with another list, in another state.
Moved(s, l, a) == Rec(walk.mode, walk.root, walk.dir, s, l, a, walk.sb, walk.upto)
Stays == UNCHANGED <<pc, pool, result>>

\* makedir() for the directory that is entered.
LEMMA EnterDirFact ==
  ASSUME Types, EnterDir, pc = "mkdirs"
  PROVE  /\ walk.at = "enter" /\ walk.listing = {} /\ UNCHANGED <<job, changed, queue, lost, info>>
         /\ \/ /\ MayCreate(DestOf(walk.dir)) /\ fs' = With(fs, DestOf(walk.dir), "dir") /\ NoFault
               /\ walk' = Moved(walk.stack, {}, "open") /\ Stays
            \/ /\ UNCHANGED fs /\ FailsIf(~MayCreate(DestOf(walk.dir)))
               /\ walk' = NoWalk /\ pc' = "over" /\ result' = "error" /\ UNCHANGED pool
  <1>1. walk.mode = "makedir" /\ WalkOK(walk) /\ walk.at = "enter" /\ walk.listing = {}
    BY DEF Types, Control, WalkOK, EnterDir
  <1>2. PICK r \in {"ok", "error"} : /\ makedir(walk.dir, r)
                                     /\ IF r = "ok" THEN GoOn(SetAt(walk, "open")) ELSE Leave("error")
    BY <1>1 DEF EnterDir, Dispatch, Callback, SetAt
  <1>3. SetAt(walk, "open") = Moved(walk.stack, {}, "open")
    BY <1>1, PartsFact DEF Moved
  <1>4. CASE r = "ok"
    BY <1>1, <1>2, <1>3, <1>4 DEF EnterDir, makedir, Create, GoOn, Stays
  <1>5. CASE r = "error"
    <2>1. walk' = NoWalk /\ pc' = "over" /\ result' = "error" /\ UNCHANGED pool
      BY <1>2, <1>5, LeaveFact DEF Walking
    <2> QED
      BY <1>1, <1>2, <1>5, <2>1 DEF EnterDir, makedir
  <1> QED
    BY <1>4, <1>5

LEMMA OpenDirFact ==
  ASSUME Types, OpenDir, Copying
  PROVE  /\ walk.at = "open" /\ walk.listing = {} /\ UNCHANGED <<job, fs, queue, lost, info, changed>>
         /\ \/ IsDir(walk.dir) /\ NoFault /\ Stays
               /\ walk' = Moved(walk.stack, {<<p, fs[p]>> : p \in Kids(walk.dir)}, "read")
            \/ /\ FailsIf(~IsDir(walk.dir))
               /\ walk' = NoWalk /\ pc' = (IF pc = "mkdirs" THEN "over" ELSE "join") /\ result' = "error" /\ UNCHANGED pool
  <1> DEFINE l == {<<p, fs[p]>> : p \in Kids(walk.dir)}
  <1>1. /\ walk.at = "open" /\ walk.listing = {} /\ UNCHANGED <<job, fs, queue, lost, info, changed>>
        /\ \/ IsDir(walk.dir) /\ NoFault /\ GoOn(Reads(walk, l))
           \/ FailsIf(~IsDir(walk.dir)) /\ Leave("error")
    BY DEF OpenDir, Reads, Types, WalkOK
  <1>2. Reads(walk, l) = Moved(walk.stack, l, "read")
    BY PartsFact DEF Moved, Types
  <1>3. CASE FailsIf(~IsDir(walk.dir)) /\ Leave("error")
    BY <1>1, <1>3, LeaveFact DEF Walking, Copying
  <1> QED
    BY <1>1, <1>2, <1>3 DEF GoOn, Stays

LEMMA ReadEntryFact ==
  ASSUME Types, NEW p, NEW k, ReadEntry(p, k), Copying
  PROVE  LET l == walk.listing \ {<<p, k>>}
         IN  /\ walk.at = "read" /\ <<p, k>> \in walk.listing /\ UNCHANGED <<job, changed>>
             /\ \/ k = "dir" /\ walk' = Moved(Append(walk.stack, p), l, "read") /\ Stays /\ UNCHANGED dataVars
                \/ k # "dir" /\ pc = "mkdirs" /\ walk' = Moved(walk.stack, l, "read") /\ Stays /\ UNCHANGED dataVars
                \/ /\ k # "dir" /\ pc = "files" /\ cpyfile(p, k, "ok")
                   /\ walk' = Moved(walk.stack, l, "read") /\ Stays
                \/ /\ k # "dir" /\ pc = "files" /\ cpyfile(p, k, "error")
                   /\ walk' = NoWalk /\ pc' = "join" /\ result' = "error" /\ UNCHANGED pool
  <1> DEFINE l == walk.listing \ {<<p, k>>}
  <1>1. /\ walk.at = "read" /\ <<p, k>> \in walk.listing /\ UNCHANGED <<job, changed>>
        /\ \/ k = "dir" /\ GoOn(Push(walk, l, p)) /\ UNCHANGED dataVars
           \/ k # "dir" /\ walk.mode = "makedir" /\ GoOn(SetListing(walk, l)) /\ UNCHANGED dataVars
           \/ k # "dir" /\ walk.mode # "makedir" /\ Dispatch(p, k, SetListing(walk, l))
    BY DEF ReadEntry, Push, SetListing
  <1> HIDE DEF l
  <1>2. Push(walk, l, p) = Moved(Append(walk.stack, p), l, "read") /\ SetListing(walk, l) = Moved(walk.stack, l, "read")
    BY <1>1, PartsFact DEF Moved, Types
  <1>3. CASE k = "dir" /\ GoOn(Push(walk, l, p)) /\ UNCHANGED dataVars
    BY <1>1, <1>2, <1>3 DEF GoOn, Stays, l
  <1>4. CASE k # "dir" /\ walk.mode = "makedir" /\ GoOn(SetListing(walk, l)) /\ UNCHANGED dataVars
    <2>1. pc = "mkdirs"
      BY <1>4 DEF Copying, Types, Control
    <2> QED
      BY <1>1, <1>2, <1>4, <2>1 DEF GoOn, Stays, l
  <1>5. CASE k # "dir" /\ walk.mode # "makedir" /\ Dispatch(p, k, SetListing(walk, l))
    <2>1. pc = "files" /\ walk.mode = "cpyfile"
      BY <1>5 DEF Copying, Types, Control
    <2>2. PICK r \in {"ok", "error"} : /\ cpyfile(p, k, r)
                                       /\ IF r = "ok" THEN GoOn(SetListing(walk, l)) ELSE Leave("error")
      BY <1>5, <2>1 DEF Dispatch, Callback
    <2>3. CASE r = "ok"
      BY <1>1, <1>2, <1>5, <2>1, <2>2, <2>3 DEF GoOn, Stays, l
    <2>4. CASE r = "error"
      <3>1. walk' = NoWalk /\ pc' = "join" /\ result' = "error" /\ UNCHANGED pool
        BY <2>1, <2>2, <2>4, LeaveFact DEF Walking
      <3> QED
        BY <1>1, <1>5, <2>1, <2>2, <2>4, <3>1
    <2> QED
      BY <2>3, <2>4
  <1> QED
    BY <1>1, <1>3, <1>4, <1>5

LEMMA EntryFailsFact ==
  ASSUME Types, NEW p, NEW k, EntryFails(p, k), Copying
  PROVE  /\ pc = "files" /\ Fault /\ UNCHANGED <<job, fs, queue, lost, info, changed>>
         /\ walk' = NoWalk /\ pc' = "join" /\ result' = "error" /\ UNCHANGED pool
  <1>1. walk.mode \in {"makedir", "cpyfile"} /\ (pc = "mkdirs" => walk.mode = "makedir")
    BY DEF Copying, Types, Control
  <1>2. pc = "files" /\ Fault /\ UNCHANGED <<job, fs, queue, lost, info, changed>> /\ Leave("error")
    BY <1>1 DEF EntryFails, Copying
  <1> QED
    BY <1>2, LeaveFact DEF Walking

LEMMA ReadFailsFact ==
  ASSUME Types, ReadFails
  PROVE  /\ walk.at = "read" /\ Fault /\ faults' > 0 /\ UNCHANGED <<job, fs, queue, info, changed>> /\ Stays
         /\ walk' = Moved(walk.stack, {}, "read") /\ lost' = lost \cup {<<q, "unread">> : q \in Skipped}
  <1>1. /\ walk.at = "read" /\ Fault /\ UNCHANGED <<job, fs, queue, info, changed>>
        /\ GoOn(SetListing(walk, {})) /\ lost' = lost \cup {<<q, "unread">> : q \in Skipped}
    BY DEF ReadFails, SetListing
  <1>2. SetListing(walk, {}) = Moved(walk.stack, {}, "read")
    BY <1>1, PartsFact DEF Moved, Types
  <1>3. faults' > 0
    BY <1>1 DEF Fault, Types, Troubles
  <1> QED
    BY <1>1, <1>2, <1>3 DEF GoOn, Stays

LEMMA OpenFifoFact ==
  ASSUME Types, NEW p, NEW k, OpenFifo(p, k)
  PROVE  /\ pc = "files" /\ Stays /\ UNCHANGED <<job, dataVars, changed>>
         /\ walk' = Moved(walk.stack, walk.listing, "blocked")
  <1>1. /\ Walking /\ walk.mode = "cpyfile" /\ UNCHANGED <<job, dataVars, changed>>
        /\ GoOn(SetAt(walk, "blocked"))
    BY DEF OpenFifo, SetAt
  <1>2. pc = "files"
    BY <1>1 DEF Walking, Types, Control
  <1>3. SetAt(walk, "blocked") = Moved(walk.stack, walk.listing, "blocked")
    BY PartsFact DEF Moved, Types
  <1> QED
    BY <1>1, <1>2, <1>3 DEF GoOn, Stays

LEMMA NextDirFact ==
  ASSUME Types, NextDir, Copying
  PROVE  /\ walk.at = "read" /\ walk.listing = {} /\ UNCHANGED <<job, changed, dataVars>>
         /\ \/ /\ walk.stack = <<>> /\ pc = "mkdirs" /\ pc' = "files" /\ pool' = "running" /\ UNCHANGED result
               /\ walk' = Rec("cpyfile", job.src, job.src, <<>>, {}, "open", job.src, -1)
            \/ /\ walk.stack = <<>> /\ pc = "files" /\ pc' = "join" /\ result' = "ok" /\ UNCHANGED pool
               /\ walk' = NoWalk
            \/ /\ walk.stack # <<>> /\ Stays
               /\ walk' = Rec(walk.mode, walk.root, Last(walk.stack), Front(walk.stack), {},
                              IF pc = "mkdirs" THEN "enter" ELSE "open", Last(walk.stack), -1)
  <1>1. /\ walk.mode = IF pc = "mkdirs" THEN "makedir" ELSE "cpyfile"
        /\ walk.mode # "do_rmdirr" /\ Walking /\ WalkOK(walk)
    BY DEF Copying, Types, Control, Walking
  <1>2. CASE walk.stack = <<>>
    <2>1. walk.at = "read" /\ walk.listing = {} /\ UNCHANGED <<job, changed, dataVars>> /\ Leave("ok")
      BY <1>1, <1>2 DEF NextDir
    <2>2. job.src \in Path /\ "cpyfile" \in Mode
      BY JobFact DEF Types, Control, Mode
    <2>3. Enter("cpyfile", job.src, job.src, <<>>) = Rec("cpyfile", job.src, job.src, <<>>, {}, "open", job.src, -1)
      BY <2>2, BeginFact DEF ListsDirs
    <2>4. CASE pc = "mkdirs"
      BY <1>1, <1>2, <2>1, <2>3, <2>4, LeaveFact
    <2>5. CASE pc = "files"
      BY <1>1, <1>2, <2>1, <2>5, LeaveFact
    <2> QED
      BY <2>4, <2>5 DEF Copying
  <1>3. CASE walk.stack # <<>>
    <2>1. /\ walk.at = "read" /\ walk.listing = {} /\ UNCHANGED <<job, changed, dataVars>>
          /\ GoOn(Enter(walk.mode, walk.root, Last(walk.stack), Front(walk.stack)))
      BY <1>1, <1>3 DEF NextDir
    <2>2. Enter(walk.mode, walk.root, Last(walk.stack), Front(walk.stack)) =
            Rec(walk.mode, walk.root, Last(walk.stack), Front(walk.stack), {},
                IF ListsDirs(walk.mode) THEN "enter" ELSE "open", Last(walk.stack), -1)
      BY <1>1, <1>3, PopFact
    <2>3. ListsDirs(walk.mode) <=> pc = "mkdirs"
      BY <1>1 DEF ListsDirs
    <2> QED
      BY <1>3, <2>1, <2>2, <2>3 DEF GoOn, Stays
  <1> QED
    BY <1>2, <1>3

\* Neither of them goes up.
LEMMA UnwindFact ==
  ASSUME Types, Unwind
  PROVE  ~Copying
  BY DEF Types, Control, WalkOK, Unwind, Copying

-----------------------------------------------------------------------------
(* What the copy puts at the destination are copies of what is in the source. *)

Seen == Original \cup changed
InSource(w) ==
  /\ w.dir \in Seen \cup {job.src}
  /\ \A i \in DOMAIN w.stack : w.stack[i] \in Seen
  /\ \A e \in w.listing : e[1] \in Seen
Known ==
  /\ \A p \in DOMAIN fs : Under(p, job.src) => p \in Seen
  /\ Copying => InSource(walk)
  /\ \A e \in queue : e[1] \in Seen

LEMMA StackFact ==
  ASSUME NEW s \in Seq(Path)
  PROVE  /\ \A p \in Path : /\ Append(s, p) \in Seq(Path)
                            /\ \A i \in DOMAIN Append(s, p) : \/ i \in DOMAIN s /\ Append(s, p)[i] = s[i]
                                                              \/ i = Len(s) + 1 /\ Append(s, p)[i] = p
         /\ s # <<>> => /\ Last(s) = s[Len(s)] /\ Len(s) \in DOMAIN s
                        /\ \A i \in DOMAIN Front(s) : i \in DOMAIN s /\ i # Len(s) /\ Front(s)[i] = s[i]
  <1>1. ASSUME NEW p \in Path
        PROVE  /\ Append(s, p) \in Seq(Path)
               /\ \A i \in DOMAIN Append(s, p) : \/ i \in DOMAIN s /\ Append(s, p)[i] = s[i]
                                                 \/ i = Len(s) + 1 /\ Append(s, p)[i] = p
    OBVIOUS
  <1>2. ASSUME s # <<>>
        PROVE  /\ Last(s) = s[Len(s)] /\ Len(s) \in DOMAIN s
               /\ \A i \in DOMAIN Front(s) : i \in DOMAIN s /\ i # Len(s) /\ Front(s)[i] = s[i]
    <2>1. /\ Front(s) \in Seq(Path) /\ Len(Front(s)) = Len(s) - 1
          /\ \A i \in 1..(Len(s) - 1) : Front(s)[i] = s[i]
          /\ Last(s) = s[Len(s)] /\ Len(s) \in Nat \ {0}
      BY <1>2, FrontFact
    <2>2. DOMAIN Front(s) = 1..(Len(s) - 1) /\ DOMAIN s = 1..Len(s)
      BY <2>1
    <2> QED
      BY <2>1, <2>2
  <1> QED
    BY <1>1, <1>2

\* What exists under the source is an original, or another program's.
LEMMA SeenStep ==
  ASSUME Types, Known, Apart, [Next]_vars
  PROVE  /\ Seen \subseteq Seen' /\ changed \subseteq changed'
         /\ \A p \in DOMAIN fs' : Under(p, job.src) => p \in Seen'
  <1>1. FsStep /\ UNCHANGED job /\ job.src \in Path /\ job.dst \in Path
    BY FsStepFact, JobFact DEF Types, Control
  <1>2. Original' = Original
    BY <1>1 DEF Original
  <1>3. Seen \subseteq Seen' /\ changed \subseteq changed'
    BY <1>1, <1>2 DEF FsStep, Seen
  <1>4. ASSUME NEW p \in DOMAIN fs', Under(p, job.src)
        PROVE  p \in DOMAIN fs \/ p \in changed'
    <2>1. CASE UNCHANGED <<fs, changed>>
      BY <1>4, <2>1
    <2>2. ASSUME NEW q \in Path, Under(q, job.dst), MadeAt(q) \/ GoneAt(q)
          PROVE  p \in DOMAIN fs \/ p \in changed'
      <3>1. p # q
        BY <1>1, <1>4, <2>2, ApartFact
      <3> QED
        BY <1>4, <2>2, <3>1, OneChange DEF Types
    <2>3. CASE \A q \in DOMAIN fs' \ DOMAIN fs : q \in Path /\ Under(job.dst, q) /\ q # job.dst
      BY <1>1, <1>4, <2>3, ApartFact
    <2>4. ASSUME NEW q \in Path, changed' = changed \cup {q},
                 GoneAt(q) \/ (q \notin DOMAIN fs /\ \E k \in Kind : fs' = With(fs, q, k))
          PROVE  p \in DOMAIN fs \/ p \in changed'
      BY <1>4, <2>4 DEF GoneAt, With, Without
    <2> QED
      BY <1>1, <2>1, <2>2, <2>3, <2>4 DEF FsStep
  <1> QED
    BY <1>1, <1>3, <1>4 DEF Known, Seen

\* The walk stays in what is known.
LEMMA InSourceStep ==
  ASSUME Types, Known, Copying, WalkStep, Copying'
  PROVE  InSource(walk)'
  <1>1. UNCHANGED <<job, changed>> /\ Seen' = Seen
    BY WalkStepTypes DEF WalkEffect, Seen, Original
  <1>2. InSource(walk) /\ walk.stack \in Seq(Path) /\ WalkOK(walk) /\ walk.root = job.src
    BY DEF Known, Types, WalkOK, Control, Copying
  <1>3. Copying' => pc' \in {"mkdirs", "files"}
    BY DEF Copying
  <1>4. CASE EnterDir
    <2>1. pc = "mkdirs"
      BY <1>4 DEF EnterDir, Types, WalkOK, Control, Copying
    <2>2. walk' = Moved(walk.stack, {}, "open")
      BY <1>3, <1>4, <2>1, EnterDirFact
    <2> QED
      BY <1>1, <1>2, <2>2, RecParts DEF Moved, InSource
  <1>5. CASE OpenDir
    <2>1. walk' = Moved(walk.stack, {<<p, fs[p]>> : p \in Kids(walk.dir)}, "read")
      BY <1>3, <1>5, OpenDirFact
    <2>2. \A p \in Kids(walk.dir) : p \in Seen
      <3>1. ASSUME NEW p \in Kids(walk.dir)
            PROVE  p \in Seen
        <4>1. p \in DOMAIN fs /\ p \in Path /\ p # <<>> /\ Front(p) = walk.dir
          BY TreeDef DEF Kids, KidsIn, Types, FsOK
        <4>2. Under(p, walk.dir) /\ Under(walk.dir, job.src) /\ walk.dir \in Path /\ job.src \in Path
          BY <1>2, <4>1, DirFact DEF WalkOK
        <4>3. Under(p, job.src)
          BY <4>1, <4>2, UnderIsOrder
        <4> QED
          BY <4>1, <4>3 DEF Known
      <3> QED
        BY <3>1
    <2> QED
      BY <1>1, <1>2, <2>1, <2>2, RecParts DEF Moved, InSource
  <1>6. CASE NextDir
    <2>1. CASE walk' = Rec("cpyfile", job.src, job.src, <<>>, {}, "open", job.src, -1)
      <3>1. walk'.dir = job.src /\ walk'.stack = <<>> /\ walk'.listing = {}
        BY <2>1, RecParts
      <3> QED
        BY <1>1, <3>1 DEF InSource
    <2>2. CASE /\ walk.stack # <<>>
               /\ walk' = Rec(walk.mode, walk.root, Last(walk.stack), Front(walk.stack), {},
                              IF pc = "mkdirs" THEN "enter" ELSE "open", Last(walk.stack), -1)
      <3>1. walk'.dir = Last(walk.stack) /\ walk'.stack = Front(walk.stack) /\ walk'.listing = {}
        BY <2>2, RecParts
      <3>2. walk'.dir \in Seen
        BY <1>2, <2>2, <3>1, StackFact DEF InSource
      <3>3. \A i \in DOMAIN walk'.stack : walk'.stack[i] \in Seen
        BY <1>2, <2>2, <3>1, StackFact DEF InSource
      <3> QED
        BY <1>1, <3>1, <3>2, <3>3 DEF InSource
    <2> QED
      BY <1>3, <1>6, <2>1, <2>2, NextDirFact
  <1>7. CASE Unwind
    BY <1>7, UnwindFact
  <1>8. ASSUME NEW e \in walk.listing, ReadEntry(e[1], e[2])
        PROVE  InSource(walk)'
    <2> DEFINE l == walk.listing \ {<<e[1], e[2]>>}
    <2>1. e[1] \in Path /\ e[1] \in Seen
      BY <1>2, <1>8, UnderRoot DEF InSource
    <2>2. \/ walk' = Moved(Append(walk.stack, e[1]), l, "read")
          \/ walk' = Moved(walk.stack, l, "read")
      BY <1>3, <1>8, ReadEntryFact
    <2>3. \A i \in DOMAIN Append(walk.stack, e[1]) : Append(walk.stack, e[1])[i] \in Seen
      BY <1>2, <2>1, StackFact DEF InSource
    <2>4. \A x \in l : x[1] \in Seen
      BY <1>2 DEF InSource
    <2> HIDE DEF l
    <2>5. PICK s \in {walk.stack, Append(walk.stack, e[1])} : walk' = Moved(s, l, "read")
      BY <2>2
    <2>6. walk'.dir = walk.dir /\ walk'.listing = l /\ walk'.stack = s
      BY <2>5, RecParts DEF Moved
    <2> QED
      BY <1>1, <1>2, <2>3, <2>4, <2>5, <2>6 DEF InSource
  <1>9. ASSUME NEW e \in walk.listing, EntryFails(e[1], e[2])
        PROVE  InSource(walk)'
    BY <1>3, <1>9, EntryFailsFact
  <1>10. ASSUME NEW e \in walk.listing, OpenFifo(e[1], e[2])
         PROVE  InSource(walk)'
    BY <1>1, <1>2, <1>10, OpenFifoFact, RecParts DEF Moved, InSource
  <1>11. CASE ReadFails
    <2>1. walk'.dir = walk.dir /\ walk'.stack = walk.stack /\ walk'.listing = {}
      BY <1>11, ReadFailsFact, RecParts DEF Moved
    <2> QED
      BY <1>1, <1>2, <2>1 DEF InSource
  <1> QED
    BY <1>4, <1>5, <1>6, <1>7, <1>8, <1>9, <1>10, <1>11 DEF WalkStep

\* The threads are given entries the walk has listed.
LEMMA GivenFact ==
  ASSUME Types, WalkStep
  PROVE  queue' = queue \/ (pc = "files" /\ \E e \in walk.listing : queue' = queue \cup {e})
  <1>1. PICK p \in Path, k \in Kind : CallStep(p, k) /\ UNCHANGED <<job, changed>> /\ Walking
    BY WalkStepTypes DEF WalkEffect
  <1>2. CASE pc # "files"
    BY <1>1, <1>2 DEF CallStep
  <1>3. CASE pc = "files"
    <2>1. CASE OpenDir \/ NextDir
      BY <1>3, <2>1, OpenDirFact, NextDirFact DEF Copying, dataVars
    <2>2. CASE EnterDir \/ Unwind
      BY <1>3, <2>2, UnwindFact DEF EnterDir, Types, WalkOK, Control, Copying
    <2>3. ASSUME NEW e \in walk.listing, ReadEntry(e[1], e[2])
          PROVE  queue' = queue \/ \E x \in walk.listing : queue' = queue \cup {x}
      <3>1. <<e[1], e[2]>> \in walk.listing /\ (UNCHANGED dataVars \/ \E r \in {"ok", "error"} : cpyfile(e[1], e[2], r))
        BY <1>3, <2>3, ReadEntryFact DEF Copying
      <3> QED
        BY <3>1 DEF dataVars, cpyfile
    <2>4. ASSUME NEW e \in walk.listing, EntryFails(e[1], e[2]) \/ OpenFifo(e[1], e[2])
          PROVE  queue' = queue
      BY <1>3, <2>4 DEF EntryFails, OpenFifo, dataVars
    <2>5. ReadFails => queue' = queue
      BY DEF ReadFails
    <2> QED
      BY <1>3, <2>1, <2>2, <2>3, <2>4, <2>5 DEF WalkStep
  <1> QED
    BY <1>2, <1>3

\* What is known stays known.
LEMMA KnownStep ==
  ASSUME Types, Known, Apart, [Next]_vars
  PROVE  Known'
  <1>1. /\ Seen \subseteq Seen' /\ UNCHANGED job
        /\ \A p \in DOMAIN fs' : Under(p, job.src) => p \in Seen'
    BY SeenStep, FsStepFact
  <1>2. Known <=> /\ \A p \in DOMAIN fs : Under(p, job.src) => p \in Seen
                  /\ Copying => InSource(walk)
                  /\ \A e \in queue : e[1] \in Seen
    BY DEF Known
  <1>3. ASSUME InSource(walk), UNCHANGED walk
        PROVE  InSource(walk)'
    BY <1>1, <1>3 DEF InSource
  <1>4. CASE UNCHANGED <<pc, walk>> /\ \A e \in queue' : \E x \in queue : e[1] = x[1]
    BY <1>1, <1>2, <1>3, <1>4 DEF Known, Copying
  <1>5. CASE WalkStep
    <2>1. WalkEffect
      BY <1>5, WalkStepTypes
    <2>2. ASSUME Copying' PROVE InSource(walk)'
      <3>1. CASE Copying
        BY <1>5, <2>2, <3>1, InSourceStep
      <3>2. CASE ~Copying
        <4>1. PICK r \in {"ok", "error"} : Leave(r) \/ Stays \/ pc' = "over"
          BY <1>5 DEF WalkStep, EnterDir, OpenDir, ReadFails, NextDir, Unwind, ReadEntry, EntryFails, OpenFifo, Dispatch, GoOn, Stays, End
        <4> QED
          BY <2>1, <2>2, <3>2, <4>1, LeaveFact DEF WalkEffect, Copying, Stays
      <3> QED
        BY <3>1, <3>2
    <2>3. \A e \in queue' : e[1] \in Seen'
      BY <1>1, <1>2, <1>5, GivenFact DEF Copying, InSource
    <2> QED
      BY <1>1, <2>2, <2>3 DEF Known
  <1>6. CASE MakeParents
    <2>1. ASSUME Copying'
          PROVE  InSource(walk)'
      <3>1. Begin("makedir", job.src) /\ job.src \in Path /\ "makedir" \in Mode
        BY <1>6, <2>1, JobFact DEF MakeParents, Copying, End, Types, Control, Mode
      <3>2. walk'.dir = job.src /\ walk'.stack = <<>> /\ walk'.listing = {}
        BY <3>1, BeginFact, RecParts DEF Begin
      <3> QED
        BY <1>1, <3>2 DEF InSource
    <2> QED
      BY <1>1, <1>2, <1>6, <2>1 DEF Known, MakeParents
  <1>7. CASE (Access \/ FlexRemove \/ Stat \/ Join)
    <2>1. ~Copying' /\ queue' \subseteq queue
      BY <1>7 DEF Access, FlexRemove, Stat, Join, Copying, Goto, End
    <2> QED
      BY <1>1, <1>2, <2>1 DEF Known
  <1>8. ASSUME NEW e \in queue, WorkerCopies(e[1], e[2]) \/ WorkerBlocks(e[1], e[2])
        PROVE  Known'
    BY <1>4, <1>8 DEF WorkerCopies, WorkerBlocks
  <1>9. ASSUME NEW d \in DOMAIN fs, NEW x \in Name, Outside(Append(d, x))
        PROVE  Known'
    <2> DEFINE p == Append(d, x)
    <2>1. p \in Path /\ p # <<>>
      BY TreeDef DEF Types, FsOK, Path
    <2> HIDE DEF p
    <2>2. Outside(p)
      BY <1>9 DEF p
    <2>3. /\ p \in changed'
          /\ \/ walk' = walk
             \/ \E l : /\ walk' = SetListing(walk, l)
                       /\ \A e \in l : e \in walk.listing \/ e[1] = p
      BY <2>1, <2>2, OutsideTypes
    <2>4. UNCHANGED <<pc, queue>>
      BY <2>2 DEF Outside
    <2>5. CASE walk' = walk
      BY <1>4, <2>4, <2>5
    <2>6. ASSUME NEW l, walk' = SetListing(walk, l), \A e \in l : e \in walk.listing \/ e[1] = p
          PROVE  Known'
      <3>1. walk'.dir = walk.dir /\ walk'.stack = walk.stack /\ walk'.listing = l
        BY <2>6, PartsFact, RecParts DEF Types
      <3>2. p \in Seen'
        BY <2>3 DEF Seen
      <3>3. InSource(walk) => InSource(walk)'
        BY <1>1, <2>6, <3>1, <3>2 DEF InSource
      <3> QED
        BY <1>1, <1>2, <2>4, <3>3 DEF Known, Copying
    <2> QED
      BY <2>3, <2>5, <2>6
  <1>10. CASE UNCHANGED vars
    BY <1>4, <1>10 DEF vars
  <1> QED
    BY <1>5, <1>6, <1>7, <1>8, <1>9, <1>10 DEF Next, CommandStep, Running, Done

-----------------------------------------------------------------------------
(* An old tree and a new one are never mixed. *)

\* The walk makes copies of entries it has listed, or the copy of the directory it enters.
LEMMA PutFact ==
  ASSUME Types, WalkStep, Copying
  PROVE  \/ UNCHANGED fs
         \/ pc = "mkdirs" /\ EnterDir /\ MadeAt(DestOf(walk.dir))
         \/ pc = "files" /\ \E e \in walk.listing : MadeAt(DestOf(e[1]))
  <1>1. CASE OpenDir \/ ReadFails \/ NextDir \/ Unwind
    BY <1>1, OpenDirFact, ReadFailsFact, NextDirFact, UnwindFact DEF dataVars
  <1>2. CASE EnterDir
    <2>1. pc = "mkdirs"
      BY <1>2 DEF EnterDir, Types, WalkOK, Control, Copying
    <2> QED
      BY <1>2, <2>1, EnterDirFact DEF MadeAt, Kind
  <1>3. ASSUME NEW e \in walk.listing, ReadEntry(e[1], e[2])
        PROVE  UNCHANGED fs \/ (pc = "files" /\ MadeAt(DestOf(e[1])))
    <2>1. e[2] \in Kind
      BY UnderRoot DEF Types
    <2>2. UNCHANGED fs \/ (pc = "files" /\ \E r \in {"ok", "error"} : cpyfile(e[1], e[2], r))
      BY <1>3, ReadEntryFact DEF dataVars
    <2>3. ASSUME NEW r \in {"ok", "error"}, cpyfile(e[1], e[2], r)
          PROVE  UNCHANGED fs \/ MadeAt(DestOf(e[1]))
      BY <2>1, <2>3, CopyFact DEF cpyfile
    <2> QED
      BY <2>2, <2>3
  <1>4. ASSUME NEW e \in walk.listing, EntryFails(e[1], e[2]) \/ OpenFifo(e[1], e[2])
        PROVE  UNCHANGED fs
    BY <1>4 DEF EntryFails, OpenFifo, dataVars
  <1> QED
    BY <1>1, <1>2, <1>3, <1>4 DEF WalkStep

Old == \A q \in AtDest : q \in DOMAIN job.was /\ fs[q] = job.was[q]
New == AtDest \subseteq Copied

\* The copy has begun, and the destination has not been made.
AtTop == pc = "mkdirs" /\ walk.at = "enter" /\ walk.dir = job.src

Stage ==
  /\ pc \in {"access", "unlink", "remove", "parent", "stat", "sizeof"} \/ AtTop => Old
  /\ pc \in {"mkdirs", "files", "join"} /\ ~AtTop => New
  /\ pc = "over" => Old \/ New
  /\ pc = "over" /\ result = "ok" /\ job.cmd = "copy" => New

\* What is at the destination is what it was, or less of it.
LEMMA DestKept ==
  ASSUME Types, Apart, [Next]_vars,
         \/ UNCHANGED fs
         \/ \E q : GoneAt(q)
         \/ MakeParents
         \/ \E p \in Path : Under(p, job.src) /\ \E k \in Kind : fs' = With(fs, p, k)
  PROVE  (Old => Old') /\ (New => New')
  <1>1. UNCHANGED job /\ changed \subseteq changed' /\ job.src \in Path /\ job.dst \in Path
    BY FsStepFact, JobFact DEF FsStep, Types, Control
  <1>2. Copied \subseteq Copied'
    BY <1>1 DEF Copied, Original, DestOf
  <1>3. \A q \in AtDest' : q \in AtDest /\ fs'[q] = fs[q]
    <2>1. CASE UNCHANGED fs
      BY <1>1, <2>1 DEF AtDest
    <2>2. CASE \E q : GoneAt(q)
      BY <1>1, <2>2 DEF AtDest, GoneAt, Without
    <2>3. CASE MakeParents
      <3>1. /\ \A q \in DOMAIN fs : fs'[q] = fs[q]
            /\ \A q \in DOMAIN fs' \ DOMAIN fs : q \in Path /\ Under(job.dst, q) /\ q # job.dst
        BY <2>3, MakeParentsTypes
      <3>2. \A q \in Path : Under(job.dst, q) /\ Under(q, job.dst) => q = job.dst
        BY <1>1, UnderIsOrder
      <3> QED
        BY <1>1, <3>1, <3>2 DEF AtDest
    <2>4. ASSUME NEW p \in Path, Under(p, job.src), \E k \in Kind : fs' = With(fs, p, k)
          PROVE  \A q \in AtDest' : q \in AtDest /\ fs'[q] = fs[q]
      <3>1. ~Under(p, job.dst)
        BY <1>1, <2>4, ApartFact
      <3> QED
        BY <1>1, <2>4, <3>1 DEF AtDest, With
    <2> QED
      BY <2>1, <2>2, <2>3, <2>4
  <1> QED
    BY <1>1, <1>2, <1>3 DEF Old, New

\* A copy is added to copies.
LEMMA DestGrows ==
  ASSUME Types, New, UNCHANGED <<job, changed>>, NEW p \in Seen, UNCHANGED fs \/ MadeAt(DestOf(p))
  PROVE  New'
  <1>1. Copied' = Copied /\ DestOf(p) \in Copied
    BY DEF Copied, Original, DestOf, Seen
  <1>2. \A q \in AtDest' : q \in AtDest \/ q = DestOf(p)
    BY DEF AtDest, MadeAt, With
  <1> QED
    BY <1>1, <1>2 DEF New

\* The destination itself is made where nothing is.
LEMMA DestBegins ==
  ASSUME Types, UNCHANGED <<job, changed>>, MadeAt(DestOf(job.src))
  PROVE  New'
  <1>1. job.src \in Path /\ job.dst \in Path /\ Under(job.src, job.src)
    BY JobFact, UnderIsOrder DEF Types, Control
  <1>2. DestOf(job.src) = job.dst
    BY <1>1, DestsApart
  <1>3. ASSUME NEW q \in AtDest PROVE FALSE
    <2>1. q \in DOMAIN fs /\ q \in Path /\ Under(q, job.dst)
      BY TreeDef DEF AtDest, Types, FsOK
    <2>2. job.dst \in DOMAIN fs
      BY <1>1, <2>1, TreeDef DEF Types, FsOK
    <2> QED
      BY <1>2, <2>2 DEF MadeAt, MayCreate
  <1>4. \A q \in AtDest' : q = job.dst
    BY <1>2, <1>3 DEF AtDest, MadeAt, With
  <1> QED
    BY <1>4 DEF New, Copied

\* Where the other walks end.
LEMMA OtherWalkFact ==
  ASSUME Types, WalkStep, ~Copying
  PROVE  \/ pc' = pc /\ pc \in {"remove", "sizeof"}
         \/ pc' = "parent"
         \/ pc' = "over" /\ result' = "died"
         \/ pc' = "over" /\ job'.cmd = "sizeof"
  <1>1. pc \in {"remove", "sizeof"} /\ UNCHANGED job
    BY WalkStepTypes DEF WalkEffect, Walking, Copying
  <1>2. \/ \E r \in {"ok", "error"} : Leave(r)
        \/ Stays
        \/ walk.mode = "accumsize" /\ End("bug")
    BY DEF WalkStep, EnterDir, OpenDir, ReadFails, NextDir, Unwind, ReadEntry, EntryFails, OpenFifo, Dispatch, GoOn, Stays
  <1>3. pc = "sizeof" => job.cmd = "sizeof"
    BY DEF Types, Control
  <1> QED
    BY <1>1, <1>2, <1>3, LeaveFact DEF Stays, End, Types, Control, Walking

LEMMA StageWalk ==
  ASSUME Types, Known, Stage, Apart, WalkStep, [Next]_vars
  PROVE  Stage'
  <1>1. WalkEffect /\ UNCHANGED <<job, changed>> /\ Types'
    BY WalkStepTypes, TypesStep DEF WalkEffect
  <1>2. CASE ~Copying
    <2>1. pc \in {"remove", "sizeof"} /\ Old
      BY <1>1, <1>2 DEF WalkEffect, Walking, Copying, Stage
    <2>2. UNCHANGED fs \/ \E q : GoneAt(q)
      BY <1>1, <2>1 DEF WalkEffect, CallStep
    <2>3. Old'
      BY <2>1, <2>2, DestKept
    <2> QED
      BY <1>1, <1>2, <2>1, <2>3, OtherWalkFact DEF Stage, AtTop
  <1>3. CASE AtTop
    <2>1. EnterDir /\ pc = "mkdirs" /\ Old
      BY <1>3 DEF AtTop, Stage, WalkStep, OpenDir, ReadFails, NextDir, Unwind, ReadEntry, EntryFails, OpenFifo
    <2>2. \/ MadeAt(DestOf(job.src)) /\ pc' = "mkdirs" /\ walk'.at = "open"
          \/ UNCHANGED fs /\ pc' = "over" /\ result' = "error"
      BY <1>3, <2>1, EnterDirFact, RecParts DEF Moved, Stays, MadeAt, Kind, AtTop
    <2>3. CASE MadeAt(DestOf(job.src)) /\ pc' = "mkdirs" /\ walk'.at = "open"
      BY <1>1, <2>3, DestBegins DEF Stage, AtTop
    <2>4. CASE UNCHANGED fs /\ pc' = "over" /\ result' = "error"
      <3>1. Old'
        BY <2>1, <2>4, DestKept
      <3> QED
        BY <2>4, <3>1 DEF Stage, AtTop
    <2> QED
      BY <2>2, <2>3, <2>4
  <1>4. CASE Copying /\ ~AtTop
    <2>1. New
      BY <1>4 DEF Copying, Stage
    <2>2. New'
      <3>1. CASE UNCHANGED fs
        BY <2>1, <3>1, DestKept
      <3>2. CASE pc = "mkdirs" /\ EnterDir /\ MadeAt(DestOf(walk.dir))
        <4>1. walk.dir \in Seen
          BY <1>4, <3>2 DEF Known, InSource, EnterDir, AtTop
        <4> QED
          BY <1>1, <2>1, <3>2, <4>1, DestGrows
      <3>3. ASSUME NEW e \in walk.listing, MadeAt(DestOf(e[1]))
            PROVE  New'
        <4>1. e[1] \in Seen
          BY <1>4 DEF Known, InSource
        <4> QED
          BY <1>1, <2>1, <3>3, <4>1, DestGrows
      <3> QED
        BY <1>4, <3>1, <3>2, <3>3, PutFact
    <2>3. pc' \in {"mkdirs", "files", "join", "over"} /\ ~AtTop'
      <3>1. CASE EnterDir
        <4>1. pc = "mkdirs"
          BY <1>4, <3>1 DEF EnterDir, Types, WalkOK, Control, Copying
        <4> QED
          BY <3>1, <4>1, EnterDirFact, RecParts DEF Moved, Stays, AtTop
      <3>2. CASE OpenDir
        BY <1>4, <3>2, OpenDirFact, RecParts DEF Moved, Stays, AtTop, Copying
      <3>3. CASE NextDir
        <4>1. CASE walk.stack # <<>> /\ pc' = pc /\ walk'.dir = Last(walk.stack)
          <5>1. Last(walk.stack) # job.src
            BY <1>4, <4>1, PopFact DEF Types, Control, Copying
          <5> QED
            BY <1>1, <1>4, <4>1, <5>1 DEF AtTop, Copying
        <4> QED
          BY <1>4, <3>3, <4>1, NextDirFact, RecParts DEF Stays, AtTop
      <3>4. CASE Unwind
        BY <1>4, <3>4, UnwindFact
      <3>5. ASSUME NEW e \in walk.listing, ReadEntry(e[1], e[2])
            PROVE  pc' \in {"mkdirs", "files", "join", "over"} /\ ~AtTop'
        <4>1. (pc' = pc /\ \E s, l : walk' = Moved(s, l, "read")) \/ pc' = "join"
          BY <1>4, <3>5, ReadEntryFact DEF Stays
        <4> QED
          BY <1>4, <4>1, RecParts DEF Moved, AtTop, Copying
      <3>6. ASSUME NEW e \in walk.listing, EntryFails(e[1], e[2])
            PROVE  pc' \in {"mkdirs", "files", "join", "over"} /\ ~AtTop'
        BY <1>4, <3>6, EntryFailsFact DEF AtTop
      <3>7. ASSUME NEW e \in walk.listing, OpenFifo(e[1], e[2])
            PROVE  pc' \in {"mkdirs", "files", "join", "over"} /\ ~AtTop'
        BY <1>4, <3>7, OpenFifoFact DEF AtTop, Stays
      <3>8. CASE ReadFails
        BY <1>4, <3>8, ReadFailsFact, RecParts DEF Moved, Stays, AtTop, Copying
      <3> QED
        BY <3>1, <3>2, <3>3, <3>4, <3>5, <3>6, <3>7, <3>8 DEF WalkStep
    <2> QED
      BY <2>2, <2>3 DEF Stage, AtTop
  <1> QED
    BY <1>2, <1>3, <1>4

LEMMA StageStep ==
  ASSUME Types, Known, Stage, Apart, [Next]_vars
  PROVE  Stage'
  <1>1. UNCHANGED job /\ Types'
    BY FsStepFact, TypesStep
  <1>2. CASE WalkStep
    BY <1>2, StageWalk
  <1>3. CASE Access \/ FlexRemove
    <2>1. pc \in {"access", "unlink"} /\ Old
      BY <1>3 DEF Access, FlexRemove, Stage
    <2>2. UNCHANGED fs \/ \E q : GoneAt(q)
      BY <1>3, FlexRemoveTypes DEF Access
    <2>3. Old'
      BY <2>1, <2>2, DestKept
    <2>4. pc' \in {"parent", "unlink", "remove"} \/ (pc' = "over" /\ result' = "died")
      BY <1>3 DEF Access, FlexRemove, Goto, End
    <2> QED
      BY <2>3, <2>4 DEF Stage, AtTop
  <1>4. CASE MakeParents
    <2>1. pc = "parent" /\ Old
      BY <1>4 DEF MakeParents, Stage
    <2>2. Old'
      BY <1>4, <2>1, DestKept
    <2>3. CASE pc' = "mkdirs" /\ Begin("makedir", job.src)
      <3>1. job.src \in Path /\ "makedir" \in Mode
        BY JobFact DEF Types, Control, Mode
      <3>2. walk'.at = "enter" /\ walk'.dir = job.src
        BY <2>3, <3>1, BeginFact, RecParts DEF Begin, ListsDirs
      <3> QED
        BY <1>1, <2>2, <2>3, <3>2 DEF Stage, AtTop
    <2>4. CASE End("error")
      BY <2>2, <2>4 DEF End, Stage, AtTop
    <2> QED
      BY <1>4, <2>3, <2>4 DEF MakeParents
  <1>5. CASE Join
    <2>1. New /\ UNCHANGED fs
      BY <1>5 DEF Join, Stage, AtTop
    <2>2. New'
      BY <2>1, DestKept
    <2> QED
      BY <1>5, <2>2 DEF Join, End, Stage, AtTop
  <1>6. CASE Stat
    <2>1. Old /\ UNCHANGED fs /\ job.cmd = "sizeof"
      BY <1>6 DEF Stat, Stage, AtTop, Types, Control
    <2>2. Old'
      BY <2>1, DestKept
    <2> QED
      BY <1>1, <1>6, <2>1, <2>2 DEF Stat, End, Stage, AtTop
  <1>7. ASSUME NEW e \in queue, WorkerCopies(e[1], e[2])
        PROVE  Stage'
    <2>1. e[1] \in Seen /\ pc \in {"files", "join"} /\ (UNCHANGED fs \/ MadeAt(DestOf(e[1]))) /\ New
      BY <1>7, WorkerCopiesTypes DEF Known, Stage, AtTop
    <2>2. New'
      BY <1>7, <2>1, DestGrows DEF WorkerCopies
    <2> QED
      BY <1>7, <2>1, <2>2 DEF WorkerCopies, Stage, AtTop
  <1>8. ASSUME NEW d \in DOMAIN fs, NEW x \in Name, Outside(Append(d, x))
        PROVE  Stage'
    <2> DEFINE p == Append(d, x)
    <2>1. p \in Path /\ p # <<>>
      BY TreeDef DEF Types, FsOK, Path
    <2> HIDE DEF p
    <2>2. Outside(p)
      BY <1>8 DEF p
    <2>3. Under(p, job.src) /\ (GoneAt(p) \/ \E k \in Kind : fs' = With(fs, p, k))
      BY <2>1, <2>2, OutsideTypes
    <2>4. (Old => Old') /\ (New => New')
      BY <2>1, <2>3, DestKept
    <2>5. UNCHANGED <<pc, result>> /\ (AtTop <=> AtTop')
      <3>1. walk'.at = walk.at /\ walk'.dir = walk.dir
        BY <2>1, <2>2, OutsideTypes, PartsFact, RecParts DEF Types
      <3> QED
        BY <1>1, <2>2, <3>1 DEF Outside, AtTop
    <2> QED
      BY <1>1, <2>4, <2>5 DEF Stage
  <1>9. CASE UNCHANGED <<fs, pc, walk, result>>
    <2>1. (Old => Old') /\ (New => New')
      BY <1>9, DestKept
    <2> QED
      BY <1>1, <1>9, <2>1 DEF Stage, AtTop
  <1> QED
    BY <1>2, <1>3, <1>4, <1>5, <1>6, <1>7, <1>8, <1>9 DEF Next, CommandStep, Running, Done, vars, WorkerBlocks

\* All of it together.
Staged == Types /\ (Apart => Known /\ Stage)

LEMMA StagedSpec == Spec => []Staged
  <1>1. Init => Staged
    <2> SUFFICES ASSUME Init PROVE Staged
      OBVIOUS
    <2>1. Types
      BY TypesInit
    <2>2. Known
      BY <2>1 DEF Init, Known, Copying, Seen, Original
    <2>3. Stage
      BY <2>1 DEF Init, Stage, AtTop, Old, AtDest
    <2> QED
      BY <2>1, <2>2, <2>3 DEF Staged
  <1>2. Staged /\ [Next]_vars => Staged'
    <2> SUFFICES ASSUME Staged, [Next]_vars PROVE Staged'
      OBVIOUS
    <2>1. Types' /\ Apart' = Apart
      BY TypesStep, FsStepFact DEF Staged, Apart
    <2> QED
      BY <2>1, KnownStep, StageStep DEF Staged
  <1> QED
    BY <1>1, <1>2, PTL DEF Spec

\* What an earlier copy left at the destination and what this one puts there are never there
\* together: copy() adds to nothing it has not made itself, and begins only where the old
\* tree is gone to the last entry.
THEOREM NotMixed == Spec => []NeverMixed
  <1>1. Staged => NeverMixed
    <2> SUFFICES ASSUME Staged, Apart PROVE NeverMixed
      BY DEF NeverMixed
    <2>1. CASE Old
      BY <2>1 DEF Old, NeverMixed
    <2>2. CASE New /\ pc \notin {"access", "unlink", "remove"}
      BY <2>2 DEF New, NeverMixed
    <2> QED
      BY <2>1, <2>2 DEF Staged, Stage, Types, Control
  <1> QED
    BY <1>1, StagedSpec, PTL

-----------------------------------------------------------------------------
(* No entry is left out. *)

\* What the walk w has yet to come to.
PendingIn(w, q) ==
  \/ w.at = "enter" /\ Under(q, w.dir)
  \/ w.at = "open" /\ Under(q, w.dir) /\ q # w.dir
  \/ w.at = "read" /\ \E e \in w.listing : Under(q, e[1])
  \/ \E i \in DOMAIN w.stack : Under(q, w.stack[i])

\* It comes to everything: from the directory it enters to what is in it, ...
LEMMA PendingEnter ==
  ASSUME NEW w, WalkOK(w), w.at = "enter",
         NEW v, v = Rec(w.mode, w.root, w.dir, w.stack, {}, "open", w.sb, w.upto), NEW q
  PROVE  PendingIn(w, q) => q = w.dir \/ PendingIn(v, q)
  BY RecParts DEF PendingIn

\* ... to the entries it finds there, ...
LEMMA PendingOpen ==
  ASSUME NEW w, WalkOK(w), w.at = "open", NEW f, IsTree(f), NEW l,
         \A e \in l : e[1] \in KidsIn(f, w.dir), \A p \in KidsIn(f, w.dir) : \E e \in l : e[1] = p,
         NEW v, v = Rec(w.mode, w.root, w.dir, w.stack, l, "read", w.sb, w.upto),
         NEW q \in Path
  PROVE  /\ q \in DOMAIN f /\ PendingIn(w, q) => PendingIn(v, q)
         /\ PendingIn(v, q) => PendingIn(w, q)
  <1>1. v.dir = w.dir /\ v.stack = w.stack /\ v.at = "read" /\ v.listing = l
    BY RecParts
  <1>2. w.dir \in Path
    BY DEF WalkOK
  <1>3. ASSUME q \in DOMAIN f, Under(q, w.dir), q # w.dir
        PROVE  \E e \in l : Under(q, e[1])
    <2>1. \E c \in DOMAIN f : c # <<>> /\ Front(c) = w.dir /\ Under(q, c)
      BY <1>2, <1>3, TreeFact
    <2>2. PICK c \in DOMAIN f : c # <<>> /\ Front(c) = w.dir /\ Under(q, c)
      BY <2>1
    <2>3. \E e \in l : e[1] = c
      BY <2>2 DEF KidsIn
    <2> QED
      BY <2>2, <2>3
  <1>4. ASSUME NEW e \in l, Under(q, e[1])
        PROVE  Under(q, w.dir) /\ q # w.dir
    <2>1. e[1] \in DOMAIN f /\ e[1] \in Path /\ e[1] # <<>> /\ Front(e[1]) = w.dir
      BY TreeDef DEF KidsIn
    <2>2. Under(e[1], w.dir) /\ w.dir # e[1]
      BY <2>1, DirFact
    <2> QED
      BY <1>2, <1>4, <2>1, <2>2, UnderIsOrder
  <1> QED
    BY <1>1, <1>3, <1>4 DEF PendingIn

\* ... from one entry to the next, ...
LEMMA PendingRead ==
  ASSUME NEW w, WalkOK(w), w.at = "read", NEW e \in w.listing, NEW q \in Path
  PROVE  LET l == w.listing \ {e}
             v == Rec(w.mode, w.root, w.dir, w.stack, l, "read", w.sb, w.upto)
             u == Rec(w.mode, w.root, w.dir, Append(w.stack, e[1]), l, "read", w.sb, w.upto)
         IN  /\ PendingIn(w, q) => Under(q, e[1]) \/ PendingIn(v, q)
             /\ PendingIn(v, q) => PendingIn(w, q)
             /\ PendingIn(w, q) <=> PendingIn(u, q)
  <1> DEFINE l == w.listing \ {e}
             s == Append(w.stack, e[1])
             v == Rec(w.mode, w.root, w.dir, w.stack, l, "read", w.sb, w.upto)
             u == Rec(w.mode, w.root, w.dir, s, l, "read", w.sb, w.upto)
  <1>1. e[1] \in Path /\ w.stack \in Seq(Path)
    BY UnderRoot DEF WalkOK
  <1>2. \A i \in DOMAIN s : \/ i \in DOMAIN w.stack /\ s[i] = w.stack[i]
                            \/ i = Len(w.stack) + 1 /\ s[i] = e[1]
    BY <1>1, StackFact
  <1>3. /\ \A i \in DOMAIN w.stack : i \in DOMAIN s /\ s[i] = w.stack[i]
        /\ Len(w.stack) + 1 \in DOMAIN s /\ s[Len(w.stack) + 1] = e[1]
    BY <1>1
  <1>4. \A x : x \in w.listing <=> x = e \/ x \in l
    OBVIOUS
  <1> HIDE DEF l, s
  <1>5. v.dir = w.dir /\ v.stack = w.stack /\ v.at = "read" /\ v.listing = l
    BY RecParts
  <1>6. u.dir = w.dir /\ u.stack = s /\ u.at = "read" /\ u.listing = l
    BY RecParts
  <1> HIDE DEF v, u
  <1>7. (PendingIn(w, q) => Under(q, e[1]) \/ PendingIn(v, q)) /\ (PendingIn(v, q) => PendingIn(w, q))
    BY <1>4, <1>5 DEF PendingIn
  <1>8. PendingIn(w, q) => PendingIn(u, q)
    BY <1>3, <1>4, <1>6 DEF PendingIn
  <1>9. PendingIn(u, q) => PendingIn(w, q)
    BY <1>2, <1>4, <1>6 DEF PendingIn
  <1> QED
    BY <1>7, <1>8, <1>9 DEF l, s, v, u

\* ... and to the directories on its list.
LEMMA PendingNext ==
  ASSUME NEW w, WalkOK(w), w.at = "read", w.listing = {}, NEW q \in Path
  PROVE  /\ w.stack = <<>> => ~PendingIn(w, q)
         /\ w.stack # <<>> =>
              \A a \in {"enter", "open"} : \A v :
                v = Rec(w.mode, w.root, Last(w.stack), Front(w.stack), {}, a, Last(w.stack), -1) =>
                  /\ PendingIn(w, q) => PendingIn(v, q) \/ (a = "open" /\ q = Last(w.stack))
                  /\ PendingIn(v, q) => PendingIn(w, q)
  <1>1. w.stack = <<>> => ~PendingIn(w, q)
    BY DEF PendingIn
  <1>2. ASSUME w.stack # <<>>, NEW a \in {"enter", "open"}, NEW v,
               v = Rec(w.mode, w.root, Last(w.stack), Front(w.stack), {}, a, Last(w.stack), -1)
        PROVE  /\ PendingIn(w, q) => PendingIn(v, q) \/ (a = "open" /\ q = Last(w.stack))
               /\ PendingIn(v, q) => PendingIn(w, q)
    <2>1. v.dir = Last(w.stack) /\ v.stack = Front(w.stack) /\ v.listing = {} /\ v.at = a
      BY <1>2, RecParts
    <2>2. w.stack \in Seq(Path)
      BY DEF WalkOK
    <2>3. /\ Last(w.stack) = w.stack[Len(w.stack)] /\ Len(w.stack) \in DOMAIN w.stack
          /\ \A i \in DOMAIN Front(w.stack) : i \in DOMAIN w.stack /\ Front(w.stack)[i] = w.stack[i]
      BY <1>2, <2>2, StackFact
    <2>4. \A i \in DOMAIN w.stack : i = Len(w.stack) \/ (i \in DOMAIN Front(w.stack) /\ Front(w.stack)[i] = w.stack[i])
      <3>1. /\ Front(w.stack) \in Seq(Path) /\ Len(Front(w.stack)) = Len(w.stack) - 1 /\ Len(w.stack) \in Nat \ {0}
        BY <1>2, <2>2, FrontFact
      <3>2. DOMAIN Front(w.stack) = 1..(Len(w.stack) - 1) /\ DOMAIN w.stack = 1..Len(w.stack)
        BY <2>2, <3>1
      <3>3. \A i \in 1..Len(w.stack) : i = Len(w.stack) \/ i \in 1..(Len(w.stack) - 1)
        BY <3>1
      <3> QED
        BY <2>3, <3>2, <3>3
    <2>5. PendingIn(w, q) => PendingIn(v, q) \/ (a = "open" /\ q = Last(w.stack))
      BY <2>1, <2>3, <2>4 DEF PendingIn
    <2>6. PendingIn(v, q) => PendingIn(w, q)
      BY <2>1, <2>3 DEF PendingIn
    <2> QED
      BY <2>5, <2>6
  <1> QED
    BY <1>1, <1>2

-----------------------------------------------------------------------------
(* A copy that succeeds is whole. *)

\* The entries that were in the source all the time.
Still == Original \ changed

\* They are what they were, and in directories of which the same is true.
LEMMA StillFact ==
  ASSUME Untouched, Apart, NEW p \in Still
  PROVE  /\ p \in Path /\ Under(p, job.src) /\ p \in DOMAIN fs /\ p \in DOMAIN job.was /\ fs[p] = job.was[p]
         /\ \A d \in Path : Under(p, d) /\ Under(d, job.src) /\ d # p => d \in Still /\ job.was[d] = "dir"
  <1>1. /\ job.src \in Path /\ job.dst \in Path /\ IsTree(job.was) /\ IsTree(fs)
        /\ \A q \in DOMAIN job.was : q \in Path
    BY JobFact, TreeDef DEF Untouched, Types, Control, FsOK
  <1>2. p \in Path /\ Under(p, job.src) /\ p \in DOMAIN job.was /\ p \notin changed
    BY <1>1 DEF Still, Original
  <1>3. ASSUME NEW q \in DOMAIN job.was \ changed, Under(q, job.src)
        PROVE  q \in DOMAIN fs /\ fs[q] = job.was[q]
    <2>1. ~Under(q, job.dst)
      BY <1>1, <1>3, ApartFact
    <2> QED
      BY <1>3, <2>1 DEF Untouched, OnlyDestTouched
  <1>4. ASSUME NEW d \in Path, Under(p, d), Under(d, job.src), d # p
        PROVE  d \in Still /\ job.was[d] = "dir"
    <2>1. d \in DOMAIN job.was /\ job.was[d] = "dir"
      BY <1>1, <1>2, <1>4, TreeDef
    <2>2. d \in DOMAIN fs
      BY <1>1, <1>2, <1>3, <1>4, TreeDef
    <2>3. d \notin changed
      BY <2>1, <2>2 DEF Untouched, Gone
    <2> QED
      BY <1>4, <2>1, <2>3 DEF Still, Original
  <1> QED
    BY <1>2, <1>3, <1>4

\* What is at the destination stays, from the first copy on, and so does what is known to be lost.
LEMMA PlacedStays ==
  ASSUME Types, Apart, [Next]_vars, pc \in {"mkdirs", "files", "join"}
  PROVE  /\ \A q \in DOMAIN fs : Under(q, job.dst) => q \in DOMAIN fs' /\ fs'[q] = fs[q]
         /\ lost \subseteq lost'
  <1> DEFINE Kept == \A q \in DOMAIN fs : Under(q, job.dst) => q \in DOMAIN fs' /\ fs'[q] = fs[q]
  <1>1. CASE WalkStep
    <2>1. Copying /\ (lost' = lost \/ Hides \/ \E p \in Path : LostKept(p))
      BY <1>1, WalkStepTypes DEF WalkEffect, Walking, Copying, CallStep
    <2>2. UNCHANGED fs \/ \E p : MadeAt(p)
      BY <1>1, <2>1, PutFact
    <2>3. lost \subseteq lost'
      BY <2>1 DEF LostKept, Hides
    <2> QED
      BY <2>2, <2>3 DEF MadeAt, MayCreate, With
  <1>2. ASSUME NEW e \in queue, WorkerCopies(e[1], e[2])
        PROVE  Kept /\ lost \subseteq lost'
    <2>1. (MadeAt(DestOf(e[1])) \/ UNCHANGED fs) /\ LostKept(e[1])
      BY <1>2, WorkerCopiesTypes
    <2> QED
      BY <2>1 DEF LostKept, MadeAt, MayCreate, With
  <1>3. ASSUME NEW d \in DOMAIN fs, NEW x \in Name, Outside(Append(d, x))
        PROVE  Kept /\ lost \subseteq lost'
    <2> DEFINE p == Append(d, x)
    <2>1. d \in Path
      BY TreeDef DEF Types, FsOK
    <2>2. job.src \in Path /\ job.dst \in Path
      BY JobFact DEF Types, Control
    <2>3. p \in Path /\ p # <<>>
      BY <2>1 DEF Path
    <2>4. p \in Path /\ p # <<>> /\ job.src \in Path /\ job.dst \in Path
      BY <2>2, <2>3
    <2> HIDE DEF p
    <2>5. Outside(p)
      BY <1>3 DEF p
    <2>6. Under(p, job.src) /\ (GoneAt(p) \/ \E k \in Kind : fs' = With(fs, p, k)) /\ UNCHANGED lost
      BY <2>4, <2>5, OutsideTypes DEF Outside
    <2>7. ~Under(p, job.dst)
      BY <2>4, <2>6, ApartFact
    <2> QED
      BY <2>6, <2>7 DEF GoneAt, With, Without
  <1>4. CASE Join \/ UNCHANGED <<fs, lost>>
    BY <1>4 DEF Join
  <1>5. ~(Access \/ FlexRemove \/ MakeParents \/ Stat)
    BY DEF Access, FlexRemove, MakeParents, Stat
  <1> QED
    BY <1>1, <1>2, <1>3, <1>4, <1>5 DEF Next, CommandStep, Running, Done, vars, WorkerBlocks

Placed(p) == IsA(DestOf(p), job.was[p])
Lost(p) == \E y \in Why : <<p, y>> \in lost
Unread(p) == <<p, "unread">> \in lost
Queued(p) == \E k \in {job.was[p], "open"} : <<p, k>> \in queue
Pending(p) == PendingIn(walk, p)

\* The walk takes every entry for what it is, ...
Listed ==
  Copying => /\ \A e \in walk.listing : e[1] \in Still => e[2] = job.was[e[1]]
             /\ \A i \in DOMAIN walk.stack : walk.stack[i] \in Still => job.was[walk.stack[i]] = "dir"

\* ... reads directories only, ...
SrcIsDir ==
  (pc = "mkdirs" /\ walk.at = "read") \/ pc \in {"files", "join"} => job.src \in Still /\ job.was[job.src] = "dir"

\* ... and has made each directory, or is still to come to it, or has passed it over when
\* readdir() failed; ...
DirsMade ==
  \A p \in Still : job.was[p] = "dir" =>
    /\ pc = "mkdirs" => Placed(p) \/ Unread(p) \/ Pending(p)
    /\ pc \in {"files", "join"} => Placed(p) \/ Unread(p)

\* ... the same for the files, of which the threads have some.
FilesTaken ==
  \A p \in Still : job.was[p] # "dir" =>
    /\ pc = "files" /\ pool = "running" /\ walk.at # "blocked" => Placed(p) \/ Lost(p) \/ Queued(p) \/ Pending(p)
    /\ pc = "join" /\ pool = "running" /\ result = "ok" => Placed(p) \/ Lost(p) \/ Queued(p)

Ended == pc = "over" /\ result = "ok" /\ job.cmd = "copy" => \A p \in Still : Placed(p) \/ Lost(p)

Whole == Listed /\ SrcIsDir /\ DirsMade /\ FilesTaken /\ Ended

\* Steps that leave the walk and the threads alone leave this as it is.
LEMMA StillStep ==
  ASSUME Types, Apart, [Next]_vars
  PROVE  /\ UNCHANGED job /\ Still' \subseteq Still
         /\ \A p : job.was[p]' = job.was[p]
         /\ pc \in {"mkdirs", "files", "join"} =>
              \A p \in Still : (Placed(p) => Placed(p)') /\ (Lost(p) => Lost(p)') /\ (Unread(p) => Unread(p)')
  <1>1. UNCHANGED job /\ changed \subseteq changed' /\ job.src \in Path /\ job.dst \in Path
        /\ \A q \in DOMAIN job.was : q \in Path
    BY FsStepFact, JobFact, TreeDef DEF FsStep, Types, Control
  <1>2. Still' \subseteq Still
    BY <1>1 DEF Still, Original
  <1>3. ASSUME pc \in {"mkdirs", "files", "join"}, NEW p \in Still
        PROVE  (Placed(p) => Placed(p)') /\ (Lost(p) => Lost(p)') /\ (Unread(p) => Unread(p)')
    <2>1. DestOf(p) = DestOf(p)' /\ Under(DestOf(p), job.dst)
      BY <1>1, DestFact DEF Still, Original, DestOf
    <2> QED
      BY <1>1, <1>3, <2>1, PlacedStays DEF Placed, Lost, Unread, IsA
  <1> QED
    BY <1>1, <1>2, <1>3

\* What other programs do does not take an entry away that was there all the time.
LEMMA WholeOutside ==
  ASSUME Untouched, Apart, Whole, [Next]_vars, NEW p \in Path, p # <<>>, Outside(p)
  PROVE  Whole'
  <1>1. /\ Untouched' /\ Apart' /\ Types /\ UNCHANGED <<job, pc, pool, queue, result>>
        /\ Under(p, job.src) /\ p # job.src /\ changed' = changed \cup {p}
    <2>1. Untouched' /\ Types /\ UNCHANGED <<job, pc, pool, queue, result>>
      BY UntouchedStep DEF Untouched, Outside
    <2> QED
      BY <2>1, OutsideTypes DEF Apart
  <1>2. /\ Still' = Still \ {p}
        /\ pc \in {"mkdirs", "files", "join"} =>
              \A q \in Still : (Placed(q) => Placed(q)') /\ (Lost(q) => Lost(q)') /\ (Unread(q) => Unread(q)')
    BY <1>1, StillStep DEF Still, Original
  <1>3. \/ walk' = walk
        \/ \E l : /\ walk' = SetListing(walk, l)
                  /\ \A e \in l : e \in walk.listing \/ e[1] = p
                  /\ \A e \in walk.listing : e \in l \/ e[1] = p
    BY DEF Outside, SetListing
  <1>4. /\ walk'.at = walk.at /\ walk'.dir = walk.dir /\ walk'.stack = walk.stack
        /\ \A e \in walk'.listing : e \in walk.listing \/ e[1] = p
        /\ \A e \in walk.listing : e \in walk'.listing \/ e[1] = p
    <2>1. ASSUME NEW l, walk' = SetListing(walk, l)
          PROVE  walk'.at = walk.at /\ walk'.dir = walk.dir /\ walk'.stack = walk.stack /\ walk'.listing = l
      BY <1>1, <2>1, PartsFact, RecParts DEF Types
    <2> QED
      BY <1>3, <2>1
  <1>5. ASSUME NEW q \in Still', Pending(q)
        PROVE  Pending(q)'
    <2>1. ~Under(q, p)
      <3>1. q \in DOMAIN fs /\ q # p /\ IsTree(fs)
        BY <1>1, <1>2, StillFact DEF Types, FsOK
      <3>2. CASE GoneAt(p)
        BY <3>1, <3>2, ShrinksFact DEF GoneAt, Kids
      <3>3. CASE p \notin DOMAIN fs
        BY <3>1, <3>3, TreeDef
      <3> QED
        BY <1>1, <3>2, <3>3, OutsideTypes
    <2> QED
      BY <1>4, <1>5, <2>1 DEF Pending, PendingIn
  <1>6. Listed' /\ SrcIsDir'
    BY <1>1, <1>2, <1>4 DEF Whole, Listed, SrcIsDir, Copying
  <1>7. DirsMade'
    BY <1>1, <1>2, <1>5 DEF Whole, DirsMade
  <1>8. \A q : Queued(q) => Queued(q)'
    BY <1>1 DEF Queued
  <1>9. FilesTaken'
    BY <1>1, <1>2, <1>4, <1>5, <1>8 DEF Whole, FilesTaken
  <1>10. Ended'
    BY <1>1 DEF Outside, Ended
  <1> QED
    BY <1>6, <1>7, <1>9, <1>10 DEF Whole

\* A copy that succeeds is one, or known to be lost.
LEMMA CopyDone ==
  ASSUME NEW p, NEW k \in Kind, Copy(p, k, "ok"), UNCHANGED job
  PROVE  IsA(DestOf(p), k)' \/ \E y \in Why : <<p, y>> \in lost'
  <1>1. DestOf(p)' = DestOf(p)
    BY DEF DestOf
  <1>2. \/ fs' = With(fs, DestOf(p), k)
        \/ \E y \in {"unset", "missed", "short"} : lost' = lost \cup {<<p, y>>}
    BY DEF Copy, copy_symlink, copy_regfile, Create
  <1>3. CASE fs' = With(fs, DestOf(p), k)
    BY <1>1, <1>3 DEF With, IsA
  <1> QED
    BY <1>2, <1>3 DEF Why

LEMMA WholeWorkers ==
  ASSUME Types, Apart, Whole, [Next]_vars, NEW e \in queue, WorkerCopies(e[1], e[2]) \/ WorkerBlocks(e[1], e[2])
  PROVE  Whole'
  <1>1. /\ UNCHANGED <<job, pc, walk, result, changed>> /\ pc \in {"files", "join"}
        /\ e = <<e[1], e[2]>> /\ (e[2] = "open" \/ e[2] \in Kind)
    <2>1. e \in Path \X ((Kind \cup {"open"}) \ {"dir"}) /\ pc \in {"files", "join"}
      BY DEF Types, Entries, Control
    <2>2. UNCHANGED <<job, pc, walk, result, changed>>
      BY DEF WorkerCopies, WorkerBlocks
    <2> QED
      BY <2>1, <2>2
  <1>2. Still' = Still /\ \A p \in Still : (Placed(p) => Placed(p)') /\ (Lost(p) => Lost(p)') /\ (Unread(p) => Unread(p)')
    BY <1>1, StillStep DEF Still, Original
  <1>3. ASSUME NEW p \in Still, Queued(p), pool' = "running"
        PROVE  pool = "running" /\ (Placed(p)' \/ Lost(p)' \/ Queued(p)')
    <2>1. PICK k \in {job.was[p], "open"} : <<p, k>> \in queue
      BY <1>3 DEF Queued
    <2>2. CASE WorkerBlocks(e[1], e[2])
      <3>1. <<p, k>> \in queue' \/ <<p, "open">> \in queue'
        BY <2>1, <2>2 DEF WorkerBlocks
      <3> QED
        BY <1>1, <1>3, <2>1, <2>2, <3>1 DEF Queued, WorkerBlocks
    <2>3. CASE WorkerCopies(e[1], e[2])
      <3>1. pool = "running" /\ Copy(e[1], e[2], "ok") /\ e[2] # "open" /\ queue' = queue \ {<<e[1], e[2]>>}
        BY <1>3, <2>3 DEF WorkerCopies
      <3>2. CASE <<p, k>> \in queue'
        BY <1>1, <2>1, <3>1, <3>2 DEF Queued
      <3>3. CASE <<p, k>> \notin queue'
        <4>1. p = e[1] /\ k = e[2] /\ k = job.was[p]
          BY <2>1, <3>1, <3>3
        <4> QED
          BY <1>1, <3>1, <4>1, CopyDone DEF Placed, Lost
      <3> QED
        BY <3>2, <3>3
    <2> QED
      BY <2>2, <2>3
  <1>4. pool' = "running" => pool = "running"
    BY DEF WorkerCopies, WorkerBlocks
  <1>5. Listed' /\ SrcIsDir' /\ Ended'
    BY <1>1, <1>2 DEF Whole, Listed, SrcIsDir, Ended, Copying
  <1>6. DirsMade'
    BY <1>1, <1>2 DEF Whole, DirsMade
  <1>7. \A p : Pending(p)' <=> Pending(p)
    BY <1>1 DEF Pending
  <1>8. FilesTaken'
    BY <1>1, <1>2, <1>3, <1>4, <1>7 DEF Whole, FilesTaken
  <1> QED
    BY <1>5, <1>6, <1>8 DEF Whole

\* What the threads leave in their queue is lost.
LEMMA WholeJoin ==
  ASSUME Types, Apart, Whole, [Next]_vars, Join
  PROVE  Whole'
  <1>1. UNCHANGED <<job, changed>> /\ pc = "join" /\ pc' = "over"
    BY DEF Join, End
  <1>2. Still' = Still /\ \A p \in Still : (Placed(p) => Placed(p)') /\ (Lost(p) => Lost(p)')
    BY <1>1, StillStep DEF Still, Original
  <1>3. \A p : Queued(p) => Lost(p)'
    BY DEF Join, Queued, Lost, Why
  <1>6. \A p : Unread(p) => Lost(p)
    BY DEF Unread, Lost, Why
  <1>4. result' = "ok" => result = "ok" /\ pool = "running"
    BY DEF Join, End
  <1>5. Ended'
    BY <1>1, <1>2, <1>3, <1>4, <1>6 DEF Whole, DirsMade, FilesTaken, Ended
  <1> QED
    BY <1>1, <1>5 DEF Whole, Listed, SrcIsDir, DirsMade, FilesTaken, Copying

\* Before the copy nothing is to be shown.
LEMMA WholeBefore ==
  ASSUME Types, pc' \notin {"mkdirs", "files", "join"}, pc' # "over" \/ result' # "ok" \/ job'.cmd = "sizeof"
  PROVE  Whole'
  BY DEF Whole, Listed, SrcIsDir, DirsMade, FilesTaken, Ended, Copying

\* The walk starts with everything before it.
LEMMA WholeBegins ==
  ASSUME Untouched, Apart, [Next]_vars, MakeParents
  PROVE  Whole'
  <1>1. UNCHANGED <<job, changed>> /\ job.src \in Path /\ "makedir" \in Mode
    BY JobFact DEF MakeParents, Untouched, Types, Control, Mode
  <1>2. CASE End("error")
    BY <1>2, WholeBefore DEF End, Untouched
  <1>3. CASE pc' = "mkdirs" /\ Begin("makedir", job.src)
    <2>1. walk'.at = "enter" /\ walk'.dir = job.src /\ walk'.stack = <<>> /\ walk'.listing = {}
      BY <1>1, <1>3, BeginFact, RecParts DEF Begin, ListsDirs
    <2>2. \A p \in Still' : Pending(p)'
      BY <1>1, <2>1 DEF Still, Original, Pending, PendingIn
    <2> QED
      BY <1>3, <2>1, <2>2 DEF Whole, Listed, SrcIsDir, DirsMade, FilesTaken, Ended, Copying
  <1> QED
    BY <1>2, <1>3 DEF MakeParents

\* What a step of a walk that copies keeps.
LEMMA WholeWalkKeeps ==
  ASSUME Types, Apart, WalkStep, [Next]_vars, Copying
  PROVE  /\ UNCHANGED <<job, changed>> /\ Still' = Still /\ WalkOK(walk)
         /\ \A p \in Still : p \in Path /\ (Placed(p) => Placed(p)') /\ (Lost(p) => Lost(p)') /\ (Unread(p) => Unread(p)')
         /\ \A p \in Still : Queued(p) => Queued(p)'
  <1>1. WalkEffect /\ UNCHANGED <<job, changed>> /\ WalkOK(walk)
    BY WalkStepTypes DEF WalkEffect, Types
  <1>2. Still' = Still
    BY <1>1 DEF Still, Original
  <1>3. \A p \in Still : p \in Path /\ (Placed(p) => Placed(p)') /\ (Lost(p) => Lost(p)') /\ (Unread(p) => Unread(p)')
    BY StillStep, JobFact, TreeDef DEF Copying, Still, Original, Types, Control
  <1>4. queue \subseteq queue'
    BY <1>1 DEF WalkEffect, CallStep
  <1>5. \A p \in Still : Queued(p) => Queued(p)'
    BY <1>1, <1>4 DEF Queued
  <1> QED
    BY <1>1, <1>2, <1>3, <1>5

LEMMA WholeEnterDir ==
  ASSUME Types, Apart, Whole, [Next]_vars, EnterDir, pc = "mkdirs"
  PROVE  Whole'
  <1>1. /\ UNCHANGED <<job, changed>> /\ Still' = Still /\ WalkOK(walk)
        /\ \A p \in Still : p \in Path /\ (Placed(p) => Placed(p)') /\ (Unread(p) => Unread(p)')
    BY WholeWalkKeeps DEF WalkStep, Copying
  <1>2. CASE UNCHANGED fs /\ pc' = "over" /\ result' = "error"
    BY <1>2, WholeBefore
  <1>3. CASE fs' = With(fs, DestOf(walk.dir), "dir") /\ walk' = Moved(walk.stack, {}, "open") /\ Stays
    <2>1. /\ walk'.at = "open" /\ walk'.stack = walk.stack /\ walk'.listing = {}
          /\ walk' = Rec(walk.mode, walk.root, walk.dir, walk.stack, {}, "open", walk.sb, walk.upto)
      BY <1>3, RecParts DEF Moved
    <2>2. walk.at = "enter"
      BY EnterDirFact
    <2>3. ASSUME NEW p \in Still, job.was[p] = "dir", Pending(p)
          PROVE  Placed(p)' \/ Pending(p)'
      <3>1. p = walk.dir \/ PendingIn(walk', p)
        BY <1>1, <2>1, <2>2, <2>3, PendingEnter DEF Pending
      <3>2. p = walk.dir => Placed(p)'
        BY <1>1, <1>3, <2>3 DEF Placed, IsA, With, DestOf
      <3> QED
        BY <3>1, <3>2 DEF Pending
    <2>4. Listed'
      BY <1>1, <1>3, <2>1 DEF Whole, Listed, Copying, Stays
    <2>5. DirsMade'
      BY <1>1, <1>3, <2>3 DEF Whole, DirsMade, Stays
    <2>6. SrcIsDir' /\ FilesTaken' /\ Ended'
      BY <1>3, <2>1 DEF SrcIsDir, FilesTaken, Ended, Stays
    <2> QED
      BY <2>4, <2>5, <2>6 DEF Whole
  <1> QED
    BY <1>2, <1>3, EnterDirFact

LEMMA WholeOpenDir ==
  ASSUME Untouched, Known, Apart, Whole, [Next]_vars, OpenDir, Copying
  PROVE  Whole'
  <1>0. Types /\ job.src \in Path
    BY JobFact DEF Untouched, Types, Control
  <1>1. /\ UNCHANGED <<job, changed>> /\ Still' = Still /\ WalkOK(walk)
        /\ \A p \in Still : p \in Path /\ (Placed(p) => Placed(p)') /\ (Lost(p) => Lost(p)') /\ (Queued(p) => Queued(p)')
        /\ \A p \in Still : Unread(p) => Unread(p)'
    BY <1>0, WholeWalkKeeps DEF WalkStep
  <1>2. CASE pc' = (IF pc = "mkdirs" THEN "over" ELSE "join") /\ result' = "error"
    <2>1. CASE pc = "mkdirs"
      BY <1>0, <1>2, <2>1, WholeBefore
    <2>2. CASE pc = "files"
      BY <1>1, <1>2, <2>2 DEF Whole, Listed, SrcIsDir, DirsMade, FilesTaken, Ended, Copying
    <2> QED
      BY <2>1, <2>2 DEF Copying
  <1> DEFINE l == {<<p, fs[p]>> : p \in Kids(walk.dir)}
  <1>3. CASE IsDir(walk.dir) /\ Stays /\ walk' = Moved(walk.stack, l, "read")
    <2>1. \A e \in l : e[1] \in Still => e[2] = job.was[e[1]]
      BY StillFact
    <2>2. (\A e \in l : e[1] \in KidsIn(fs, walk.dir)) /\ \A p \in KidsIn(fs, walk.dir) : \E e \in l : e[1] = p
      <3>1. \A e \in l : e[1] \in KidsIn(fs, walk.dir)
        BY DEF Kids
      <3>2. \A p \in KidsIn(fs, walk.dir) : <<p, fs[p]>> \in l /\ <<p, fs[p]>>[1] = p
        BY DEF Kids
      <3> HIDE DEF l
      <3> QED
        BY <3>1, <3>2
    <2> HIDE DEF l
    <2>3. walk.at = "open" /\ IsTree(fs) /\ UNCHANGED fs
      BY <1>0, OpenDirFact DEF Types, FsOK
    <2>4. ASSUME NEW p \in Still, Pending(p) PROVE Pending(p)'
      <3>1. walk' = Rec(walk.mode, walk.root, walk.dir, walk.stack, l, "read", walk.sb, walk.upto)
        BY <1>3 DEF Moved
      <3>2. p \in Path /\ p \in DOMAIN fs
        BY StillFact
      <3>3. PendingIn(walk, p) => PendingIn(walk', p)
        BY <1>1, <2>2, <2>3, <3>1, <3>2, PendingOpen
      <3> QED
        BY <2>4, <3>3 DEF Pending
    <2>5. walk'.at = "read" /\ walk'.stack = walk.stack /\ walk'.listing = l
      BY <1>3, RecParts DEF Moved
    <2>6. Listed'
      BY <1>1, <1>3, <2>1, <2>5 DEF Whole, Listed, Copying, Stays
    <2>7. job.src \in Still /\ job.was[job.src] = "dir"
      <3>1. job.src \in DOMAIN fs /\ fs[job.src] = "dir"
        <4>1. walk.dir \in Path /\ Under(walk.dir, job.src) /\ walk.dir \in DOMAIN fs /\ fs[walk.dir] = "dir"
          BY <1>0, <1>3 DEF Types, Control, WalkOK, Copying, IsDir, IsA
        <4> QED
          BY <1>0, <2>3, <4>1, TreeDef
      <3>2. Under(job.src, job.src) /\ job.src \notin changed
        BY <1>0, UnderIsOrder DEF Types, Troubles
      <3>3. job.src \in Still
        BY <3>1, <3>2 DEF Known, Seen, Still
      <3> QED
        BY <3>1, <3>3, StillFact
    <2>8. SrcIsDir'
      BY <1>1, <2>7 DEF SrcIsDir
    <2>9. DirsMade' /\ FilesTaken'
      BY <1>1, <1>3, <2>3, <2>4, <2>5 DEF Whole, DirsMade, FilesTaken, Stays
    <2>10. Ended'
      BY <1>3 DEF Ended, Stays, Copying
    <2> QED
      BY <2>6, <2>8, <2>9, <2>10 DEF Whole
  <1> QED
    BY <1>0, <1>2, <1>3, OpenDirFact

LEMMA WholeReadEntry ==
  ASSUME Untouched, Apart, Whole, [Next]_vars, NEW e \in walk.listing, ReadEntry(e[1], e[2]), Copying
  PROVE  Whole'
  <1> DEFINE l == walk.listing \ {e}
  <1>0. Types /\ e = <<e[1], e[2]>> /\ e[1] \in Path /\ e[2] \in Kind /\ Under(e[1], job.src)
    BY UnderRoot DEF Untouched, Types, WalkOK, Control, Copying
  <1>1. /\ UNCHANGED <<job, changed>> /\ Still' = Still /\ WalkOK(walk) /\ walk.at = "read" /\ pc \in {"mkdirs", "files"}
        /\ \A p \in Still : p \in Path /\ (Placed(p) => Placed(p)') /\ (Lost(p) => Lost(p)') /\ (Queued(p) => Queued(p)')
        /\ \A p \in Still : Unread(p) => Unread(p)'
    BY <1>0, WholeWalkKeeps DEF WalkStep, Copying, ReadEntry
  <1>2. ASSUME NEW p \in Still, Under(p, e[1])
        PROVE  IF p = e[1] THEN e[2] = job.was[p] ELSE e[2] = "dir"
    <2>1. p # e[1] => e[1] \in Still /\ job.was[e[1]] = "dir"
      BY <1>0, <1>2, StillFact
    <2> QED
      BY <1>1, <1>2, <2>1 DEF Whole, Listed, Copying
  <1>3. CASE e[2] = "dir" /\ walk' = Moved(Append(walk.stack, e[1]), l, "read") /\ Stays
    <2>1. walk' = Rec(walk.mode, walk.root, walk.dir, Append(walk.stack, e[1]), walk.listing \ {e}, "read", walk.sb, walk.upto)
      BY <1>3 DEF Moved
    <2>2. walk'.at = "read" /\ walk'.stack = Append(walk.stack, e[1]) /\ walk'.listing = l
      <3> DEFINE s == Append(walk.stack, e[1])
      <3> HIDE DEF s, l
      <3>1. walk' = Moved(s, l, "read")
        BY <1>3 DEF s
      <3>2. walk'.at = "read" /\ walk'.stack = s /\ walk'.listing = l
        BY <3>1, RecParts DEF Moved
      <3> QED
        BY <3>2 DEF s
    <2>3. \A p \in Still : Pending(p) => Pending(p)'
      BY <1>1, <2>1, PendingRead DEF Pending
    <2>4. Listed'
      <3>1. walk.stack \in Seq(Path)
        BY <1>1 DEF WalkOK
      <3>2. \A i \in DOMAIN walk'.stack : walk'.stack[i] = e[1] \/ (i \in DOMAIN walk.stack /\ walk'.stack[i] = walk.stack[i])
        BY <1>0, <2>2, <3>1, StackFact
      <3> QED
        BY <1>1, <1>3, <2>2, <3>2 DEF Whole, Listed, Copying, Stays
    <2>5. SrcIsDir' /\ Ended'
      BY <1>1, <1>3, <2>2 DEF Whole, SrcIsDir, Ended, Stays
    <2>6. DirsMade' /\ FilesTaken'
      BY <1>1, <1>3, <2>2, <2>3 DEF Whole, DirsMade, FilesTaken, Stays
    <2> QED
      BY <2>4, <2>5, <2>6 DEF Whole
  <1>4. ASSUME e[2] # "dir", walk' = Moved(walk.stack, l, "read"), Stays,
               pc = "mkdirs" \/ cpyfile(e[1], e[2], "ok")
        PROVE  Whole'
    <2>1. walk' = Rec(walk.mode, walk.root, walk.dir, walk.stack, walk.listing \ {e}, "read", walk.sb, walk.upto)
      BY <1>4 DEF Moved
    <2>2. walk'.at = "read" /\ walk'.stack = walk.stack /\ walk'.listing = l
      BY <2>1, RecParts
    <2>3. ASSUME NEW p \in Still, Pending(p)
          PROVE  Pending(p)' \/ (p = e[1] /\ e[2] = job.was[p])
      <3>1. Under(p, e[1]) \/ PendingIn(walk', p)
        BY <1>1, <2>1, <2>3, PendingRead DEF Pending
      <3> QED
        BY <1>2, <1>4, <3>1 DEF Pending
    <2>4. ASSUME NEW p \in Still, p = e[1], e[2] = job.was[p], pc = "files"
          PROVE  Placed(p)' \/ Lost(p)' \/ Queued(p)'
      <3>1. \/ queue' = queue \cup {<<e[1], e[2]>>}
            \/ Copy(e[1], e[2], "ok")
        BY <1>4, <2>4 DEF cpyfile
      <3> QED
        BY <1>0, <1>1, <2>4, <3>1, CopyDone DEF Placed, Lost, Queued
    <2>5. Listed'
      BY <1>1, <1>4, <2>2 DEF Whole, Listed, Copying, Stays
    <2>6. SrcIsDir' /\ Ended'
      BY <1>1, <1>4, <2>2 DEF Whole, SrcIsDir, Ended, Stays
    <2>7. DirsMade'
      BY <1>1, <1>4, <2>3 DEF Whole, DirsMade, Stays
    <2>8. FilesTaken'
      BY <1>1, <1>4, <2>3, <2>4 DEF Whole, FilesTaken, Stays
    <2> QED
      BY <2>5, <2>6, <2>7, <2>8 DEF Whole
  <1>5. CASE pc = "files" /\ pc' = "join" /\ result' = "error"
    BY <1>1, <1>5 DEF Whole, Listed, SrcIsDir, DirsMade, FilesTaken, Ended, Copying
  <1>6. \/ e[2] = "dir" /\ walk' = Moved(Append(walk.stack, e[1]), l, "read") /\ Stays
        \/ e[2] # "dir" /\ walk' = Moved(walk.stack, l, "read") /\ Stays /\ (pc = "mkdirs" \/ cpyfile(e[1], e[2], "ok"))
        \/ pc = "files" /\ pc' = "join" /\ result' = "error"
    BY <1>0, ReadEntryFact
  <1> QED
    BY <1>3, <1>4, <1>5, <1>6

\* The rest of a directory that cannot be read is lost.
LEMMA WholeReadFails ==
  ASSUME Untouched, Apart, Whole, [Next]_vars, ReadFails, Copying
  PROVE  Whole'
  <1>0. Types
    BY DEF Untouched
  <1>1. /\ UNCHANGED <<job, changed>> /\ Still' = Still
        /\ \A p \in Still : /\ (Placed(p) => Placed(p)') /\ (Lost(p) => Lost(p)') /\ (Queued(p) => Queued(p)')
                            /\ Unread(p) => Unread(p)'
    BY <1>0, WholeWalkKeeps DEF WalkStep
  <1>2. /\ walk.at = "read" /\ Stays /\ walk' = Moved(walk.stack, {}, "read")
        /\ lost' = lost \cup {<<q, "unread">> : q \in Skipped}
    BY <1>0, ReadFailsFact
  <1>3. walk'.at = "read" /\ walk'.stack = walk.stack /\ walk'.listing = {}
    BY <1>2, RecParts DEF Moved
  <1>4. walk.mode # "do_rmdirr" /\ (pc = "files" => walk.mode # "makedir")
    BY <1>0 DEF Types, Control, Copying
  <1>5. ASSUME NEW p \in Still, pc = "files" \/ job.was[p] = "dir", Pending(p)
        PROVE  Pending(p)' \/ (Unread(p)' /\ Lost(p)')
    <2>1. Pending(p)' \/ \E e \in walk.listing : Under(p, e[1])
      BY <1>2, <1>3, <1>5 DEF Pending, PendingIn
    <2>2. p \in DOMAIN fs /\ fs[p] = job.was[p]
      BY StillFact
    <2>3. (\E e \in walk.listing : Under(p, e[1])) => p \in Skipped
      BY <1>4, <1>5, <2>2 DEF Skipped
    <2>4. "unread" \in Why
      BY DEF Why
    <2> QED
      BY <1>2, <2>1, <2>3, <2>4 DEF Unread, Lost
  <1>6. Listed'
    BY <1>1, <1>2, <1>3 DEF Whole, Listed, Copying, Stays
  <1>7. SrcIsDir' /\ Ended'
    BY <1>1, <1>2, <1>3 DEF Whole, SrcIsDir, Ended, Stays, Copying
  <1>8. DirsMade'
    BY <1>1, <1>2, <1>5 DEF Whole, DirsMade, Stays
  <1>9. FilesTaken'
    BY <1>1, <1>2, <1>3, <1>5 DEF Whole, FilesTaken, Stays
  <1> QED
    BY <1>6, <1>7, <1>8, <1>9 DEF Whole

LEMMA WholeNextDir ==
  ASSUME Untouched, Apart, Whole, [Next]_vars, NextDir, Copying
  PROVE  Whole'
  <1>0. Types /\ job.src \in Path
    BY JobFact DEF Untouched, Types, Control
  <1>1. /\ UNCHANGED <<job, changed>> /\ Still' = Still /\ WalkOK(walk) /\ walk.at = "read" /\ walk.listing = {}
        /\ \A p \in Still : p \in Path /\ (Placed(p) => Placed(p)') /\ (Lost(p) => Lost(p)') /\ (Queued(p) => Queued(p)')
        /\ \A p \in Still : Unread(p) => Unread(p)'
    BY <1>0, WholeWalkKeeps, NextDirFact DEF WalkStep
  <1>2. walk.stack = <<>> => \A p \in Still : ~Pending(p)
    BY <1>1, PendingNext DEF Pending
  <1>3. CASE /\ walk.stack = <<>> /\ pc = "mkdirs" /\ pc' = "files" /\ pool' = "running"
             /\ walk' = Rec("cpyfile", job.src, job.src, <<>>, {}, "open", job.src, -1)
    <2>1. walk'.at = "open" /\ walk'.dir = job.src /\ walk'.stack = <<>> /\ walk'.listing = {}
      BY <1>3, RecParts
    <2>2. job.src \in Still /\ job.was[job.src] = "dir"
      BY <1>1, <1>3 DEF Whole, SrcIsDir
    <2>3. \A p \in Still : p = job.src \/ Pending(p)'
      BY <1>1, <2>1 DEF Pending, PendingIn, Still, Original
    <2>4. Listed' /\ SrcIsDir' /\ Ended'
      BY <1>1, <1>3, <2>1, <2>2 DEF Listed, SrcIsDir, Ended
    <2>5. DirsMade'
      BY <1>1, <1>2, <1>3 DEF Whole, DirsMade
    <2>6. FilesTaken'
      BY <1>1, <1>3, <2>2, <2>3 DEF FilesTaken
    <2> QED
      BY <2>4, <2>5, <2>6 DEF Whole
  <1>4. CASE walk.stack = <<>> /\ pc = "files" /\ pc' = "join" /\ UNCHANGED pool
    <2>1. Listed' /\ SrcIsDir' /\ Ended'
      BY <1>1, <1>4 DEF Whole, Listed, SrcIsDir, Ended, Copying
    <2>2. DirsMade'
      BY <1>1, <1>4 DEF Whole, DirsMade
    <2>3. FilesTaken'
      BY <1>1, <1>2, <1>4 DEF Whole, FilesTaken
    <2> QED
      BY <2>1, <2>2, <2>3 DEF Whole
  <1>5. CASE /\ walk.stack # <<>> /\ Stays
             /\ walk' = Rec(walk.mode, walk.root, Last(walk.stack), Front(walk.stack), {},
                            IF pc = "mkdirs" THEN "enter" ELSE "open", Last(walk.stack), -1)
    <2> DEFINE a == IF pc = "mkdirs" THEN "enter" ELSE "open"
    <2>1. /\ walk'.at = a /\ walk'.dir = Last(walk.stack) /\ walk'.stack = Front(walk.stack) /\ walk'.listing = {}
          /\ a \in {"enter", "open"} /\ (a = "open" => pc = "files") /\ (pc = "mkdirs" => a = "enter")
      BY <1>5, RecParts DEF Copying
    <2>2. walk' = Rec(walk.mode, walk.root, Last(walk.stack), Front(walk.stack), {}, a, Last(walk.stack), -1)
      BY <1>5
    <2> HIDE DEF a
    <2>3. /\ Last(walk.stack) = walk.stack[Len(walk.stack)] /\ Len(walk.stack) \in DOMAIN walk.stack
          /\ \A i \in DOMAIN Front(walk.stack) : i \in DOMAIN walk.stack /\ Front(walk.stack)[i] = walk.stack[i]
      BY <1>1, <1>5, StackFact DEF WalkOK
    <2>4. ASSUME NEW p \in Still, Pending(p)
          PROVE  Pending(p)' \/ (pc = "files" /\ job.was[p] = "dir")
      <3>1. PendingIn(walk', p) \/ (a = "open" /\ p = Last(walk.stack))
        BY <1>1, <1>5, <2>1, <2>2, <2>4, PendingNext DEF Pending
      <3> QED
        BY <2>1, <2>3, <2>4, <3>1 DEF Pending, Whole, Listed
    <2>5. Listed'
      BY <1>1, <1>5, <2>1, <2>3 DEF Whole, Listed, Copying, Stays
    <2>6. SrcIsDir' /\ Ended'
      BY <1>1, <1>5, <2>1 DEF Whole, SrcIsDir, Ended, Stays
    <2>7. DirsMade'
      BY <1>1, <1>5, <2>4 DEF Whole, DirsMade, Stays
    <2>8. FilesTaken'
      BY <1>1, <1>5, <2>1, <2>4 DEF Whole, FilesTaken, Stays
    <2> QED
      BY <2>5, <2>6, <2>7, <2>8 DEF Whole
  <1> QED
    BY <1>0, <1>3, <1>4, <1>5, NextDirFact

LEMMA WholeWalk ==
  ASSUME Untouched, Known, Apart, Whole, [Next]_vars, WalkStep
  PROVE  Whole'
  <1>0. Types
    BY DEF Untouched
  <1>1. CASE ~Copying
    BY <1>0, <1>1, OtherWalkFact, WholeBefore
  <1>2. CASE Copying
    <2>1. CASE EnterDir
      <3>1. pc = "mkdirs"
        BY <1>0, <1>2, <2>1 DEF EnterDir, Types, WalkOK, Control, Copying
      <3> QED
        BY <1>0, <2>1, <3>1, WholeEnterDir
    <2>2. CASE OpenDir
      BY <1>2, <2>2, WholeOpenDir
    <2>3. CASE NextDir
      BY <1>2, <2>3, WholeNextDir
    <2>4. CASE Unwind
      BY <1>0, <1>2, <2>4, UnwindFact
    <2>5. ASSUME NEW e \in walk.listing, ReadEntry(e[1], e[2])
          PROVE  Whole'
      BY <1>2, <2>5, WholeReadEntry
    <2>6. /\ UNCHANGED <<job, changed>> /\ Still' = Still
          /\ \A p \in Still : /\ (Placed(p) => Placed(p)') /\ (Lost(p) => Lost(p)') /\ (Queued(p) => Queued(p)')
                              /\ Unread(p) => Unread(p)'
      BY <1>0, <1>2, WholeWalkKeeps
    <2>7. ASSUME NEW e \in walk.listing, EntryFails(e[1], e[2])
          PROVE  Whole'
      <3>1. pc = "files" /\ pc' = "join" /\ result' = "error"
        BY <1>0, <1>2, <2>7, EntryFailsFact
      <3> QED
        BY <2>6, <3>1 DEF Whole, Listed, SrcIsDir, DirsMade, FilesTaken, Ended, Copying
    <2>8. ASSUME NEW e \in walk.listing, OpenFifo(e[1], e[2])
          PROVE  Whole'
      <3>1. pc = "files" /\ Stays /\ walk'.at = "blocked" /\ walk'.stack = walk.stack /\ walk'.listing = walk.listing
        BY <1>0, <2>8, OpenFifoFact, RecParts DEF Moved
      <3> QED
        BY <2>6, <3>1 DEF Whole, Listed, SrcIsDir, DirsMade, FilesTaken, Ended, Copying, Stays
    <2>9. CASE ReadFails
      BY <1>2, <2>9, WholeReadFails
    <2> QED
      BY <2>1, <2>2, <2>3, <2>4, <2>5, <2>7, <2>8, <2>9 DEF WalkStep
  <1> QED
    BY <1>1, <1>2

LEMMA WholeStep ==
  ASSUME Untouched, Known, Apart, Whole, [Next]_vars
  PROVE  Whole'
  <1>0. Types
    BY DEF Untouched
  <1>1. CASE Access \/ FlexRemove
    <2>1. pc' \in {"parent", "unlink", "remove"} \/ (pc' = "over" /\ result' = "died")
      BY <1>1 DEF Access, FlexRemove, Goto, End
    <2> QED
      BY <1>0, <2>1, WholeBefore
  <1>2. CASE Stat
    <2>1. job.cmd = "sizeof" /\ UNCHANGED job
      BY <1>0, <1>2 DEF Stat, Types, Control
    <2>2. pc' \in {"sizeof", "over"}
      BY <1>2 DEF Stat, End
    <2> QED
      BY <1>0, <2>1, <2>2, WholeBefore
  <1>3. ASSUME NEW d \in DOMAIN fs, NEW x \in Name, Outside(Append(d, x))
        PROVE  Whole'
    <2>1. Append(d, x) \in Path /\ Append(d, x) # <<>>
      BY <1>0, TreeDef DEF Types, FsOK, Path
    <2> QED
      BY <1>3, <2>1, WholeOutside
  <1>4. CASE UNCHANGED vars
    BY <1>4 DEF vars, Whole, Listed, SrcIsDir, DirsMade, FilesTaken, Ended, Copying, Still, Original, Placed, Lost, Unread, Queued, Pending, IsA, DestOf
  <1> QED
    BY <1>0, <1>1, <1>2, <1>3, <1>4, WholeWalk, WholeBegins, WholeJoin, WholeWorkers DEF Next, CommandStep, Running, Done

-----------------------------------------------------------------------------
(* No file is left out without a cause. *)

Causes == \A l \in lost : l[2] = "dropped" \/ TooLong(l[1]) \/ faults > 0 \/ changed # {}

\* Nothing is pending twice, ...
Once(w) ==
  \A q \in Path :
    /\ \A i, j \in DOMAIN w.stack : Under(q, w.stack[i]) /\ Under(q, w.stack[j]) => i = j
    /\ \A e, f \in w.listing : Under(q, e[1]) /\ Under(q, f[1]) => e = f
    /\ \A e \in w.listing, i \in DOMAIN w.stack : ~(Under(q, e[1]) /\ Under(q, w.stack[i]))
    /\ w.at \in {"enter", "open"} => \A i \in DOMAIN w.stack : ~(Under(q, w.dir) /\ Under(q, w.stack[i]))

\* ... the first walk makes directories only, ...
OnlyDirs ==
  pc = "mkdirs" =>
    /\ walk.at = "enter" => walk.dir = job.src \/ job.was[walk.dir] = "dir"
    /\ ~AtTop => \A p \in Original : job.was[p] # "dir" /\ p # job.src => DestOf(p) \notin DOMAIN fs

\* ... the threads have files of the source whose places are free, ...
Given ==
  \A e \in queue : /\ e[1] \in Original /\ e[1] # job.src /\ e[2] \in {job.was[e[1]], "open"}
                   /\ e[2] # "open" => DestOf(e[1]) \notin DOMAIN fs

\* ... and so has the second walk, of which the threads have none.
Free ==
  pc = "files" =>
    /\ Once(walk)
    /\ \A p \in Original : job.was[p] # "dir" /\ Pending(p) => DestOf(p) \notin DOMAIN fs /\ \A e \in queue : e[1] # p

Explained == Causes /\ (changed = {} => OnlyDirs /\ Given /\ Free)

\* A copy to a place that is free fails because the name is too long or a system call does.
LEMMA CopyCause ==
  ASSUME Untouched, Apart, Whole, Causes, changed = {}, pc \in {"files", "join"},
         NEW p \in Original, p # job.src, DestOf(p) \notin DOMAIN fs,
         NEW k, NEW r, Copy(p, k, r), NEW l \in lost', l \notin lost
  PROVE  l[1] = p /\ (TooLong(p) \/ faults' > 0)
  <1>1. /\ p \in Path /\ p \in DOMAIN fs /\ Under(p, job.src) /\ job.src \in Path /\ job.dst \in Path
        /\ faults \in Nat /\ p \in Still
    BY StillFact, JobFact DEF Still, Untouched, Types, Control, Troubles
  <1>2. Front(p) \in Path /\ Under(Front(p), job.src) /\ Under(p, Front(p)) /\ Front(p) # p
    BY <1>1, UpFact, DirFact
  <1>3. IsDir(Front(DestOf(p))) \/ TooLong(p) \/ faults > 0
    <2>1. Front(p) \in Still /\ job.was[Front(p)] = "dir"
      BY <1>1, <1>2, StillFact
    <2>2. Front(DestOf(p)) = DestOf(Front(p))
      BY <1>1, DestsApart
    <2>3. Placed(Front(p)) \/ Unread(Front(p))
      BY <2>1 DEF Whole, DirsMade
    <2>4. Unread(Front(p)) => TooLong(Front(p)) \/ faults > 0
      BY DEF Unread, Causes
    <2>5. TooLong(Front(p)) => TooLong(p)
      <3>1. DestOf(p) \in Path /\ DestOf(p) # <<>>
        BY <1>1, DestFact, JobFact, UnderFact DEF Untouched, Types, Control
      <3>2. Len(Front(DestOf(p))) = Len(DestOf(p)) - 1 /\ Len(DestOf(p)) \in Nat
        BY <3>1, DirFact DEF Path
      <3> QED
        BY <2>2, <3>2, FileTreeAssumption DEF TooLong
    <2> QED
      BY <2>2, <2>3, <2>4, <2>5, <2>1 DEF Placed, IsDir
  <1>4. TooLong(p) \/ MayCreate(DestOf(p)) \/ faults > 0
    <2>1. Len(DestOf(p)) \in Nat
      BY <1>1, DestFact DEF Path
    <2> QED
      BY <1>3, <2>1, FileTreeAssumption DEF TooLong, MayCreate
  <1>5. copy_regfile(p, k, r)
    BY DEF Copy, copy_symlink
  <1>6. l[1] = p
    BY <1>5 DEF copy_regfile
  <1>7. TooLong(p) \/ Fault \/ faults > 0
    BY <1>1, <1>4, <1>5 DEF copy_regfile, FailsIf, Create
  <1>8. faults' = faults \/ Fault
    BY <1>5 DEF copy_regfile, FailsIf, Create, NoFault
  <1> QED
    BY <1>1, <1>6, <1>7, <1>8 DEF Fault

\* Failures are counted one by one.
LEMMA FaultsGrow ==
  ASSUME Types, [Next]_vars
  PROVE  UNCHANGED faults \/ faults' = faults + 1
  <1>1. CASE WalkStep
    BY <1>1, WalkStepTypes DEF WalkEffect, CallStep, FaultsKept
  <1>2. CASE Access \/ FlexRemove \/ MakeParents \/ Stat \/ Join
    <2>1. faults' = faults \/ Fault
      BY <1>2 DEF Access, FlexRemove, MakeParents, Stat, Join, FailsIf, NoFault
    <2> QED
      BY <2>1 DEF Fault
  <1>3. ASSUME NEW e \in queue, WorkerCopies(e[1], e[2])
        PROVE  UNCHANGED faults \/ faults' = faults + 1
    <2>1. PICK r \in {"ok", "error"} : Copy(e[1], e[2], r)
      BY <1>3 DEF WorkerCopies
    <2>2. e[2] \in Kind
      BY <1>3, WorkerCopiesTypes
    <2> QED
      BY <2>1, <2>2, CopyFact DEF FaultsKept
  <1> QED
    BY <1>1, <1>2, <1>3 DEF Next, CommandStep, Running, Done, vars, WorkerBlocks, Outside

\* A cause stays one.
LEMMA CauseStays ==
  ASSUME Types, Explained, [Next]_vars
  PROVE  /\ UNCHANGED job /\ changed \subseteq changed'
         /\ faults > 0 => faults' > 0
         /\ (\A l \in lost' : l \in lost \/ l[2] = "dropped" \/ TooLong(l[1]) \/ faults' > 0 \/ changed' # {}) => Causes'
  <1>1. UNCHANGED job /\ changed \subseteq changed'
    BY FsStepFact DEF FsStep
  <1>2. faults \in Nat
    BY DEF Types, Troubles
  <1>3. faults > 0 => faults' > 0
    BY <1>2, FaultsGrow
  <1> QED
    BY <1>1, <1>3 DEF Explained, Causes, TooLong, DestOf

\* Before the copy, and after it, only what is lost counts.
LEMMA ExplainedBefore ==
  ASSUME Types, Explained, [Next]_vars, \A l \in lost' : l \in lost \/ l[2] = "dropped",
         pc' \notin {"mkdirs", "files", "join"}
  PROVE  Explained'
  <1>1. changed \subseteq changed' /\ Causes'
    BY CauseStays
  <1>2. queue' = {}
    BY TypesStep DEF Types, Control
  <1> QED
    BY <1>1, <1>2 DEF Explained, OnlyDirs, Given, Free

\* The threads' copies.
LEMMA ExplainedWorkers ==
  ASSUME Untouched, Apart, Whole, Explained, [Next]_vars,
         NEW e \in queue, WorkerCopies(e[1], e[2]) \/ WorkerBlocks(e[1], e[2])
  PROVE  Explained'
  <1>0. Types /\ job.src \in Path /\ job.dst \in Path
    BY JobFact DEF Untouched, Types, Control
  <1>1. UNCHANGED <<job, pc, walk, changed>> /\ pc \in {"files", "join"} /\ e = <<e[1], e[2]>>
    <2>1. e \in Path \X ((Kind \cup {"open"}) \ {"dir"}) /\ pc \in {"files", "join"}
      BY <1>0 DEF Types, Entries, Control
    <2> QED
      BY <2>1 DEF WorkerCopies, WorkerBlocks
  <1>2. ASSUME changed = {}
        PROVE  Given /\ Free /\ \A p \in Original : p \in Path /\ Under(p, job.src)
    <2>1. \A p \in Original : p \in Still
      BY <1>2 DEF Still
    <2> QED
      BY <1>2, <2>1, StillFact DEF Explained
  <1>3. CASE WorkerBlocks(e[1], e[2])
    <2>1. UNCHANGED <<fs, lost>> /\ \A x \in queue' : x \in queue \/ (x[1] = e[1] /\ x[2] = "open")
      BY <1>3 DEF WorkerBlocks
    <2>2. Causes'
      BY <1>0, <2>1, CauseStays
    <2>3. changed = {} => Given'
      BY <1>1, <1>2, <2>1 DEF Given, Original, DestOf
    <2>4. changed = {} => Free'
      BY <1>1, <1>2, <2>1 DEF Free, Original, DestOf, Pending
    <2> QED
      BY <1>1, <2>2, <2>3, <2>4 DEF Explained, OnlyDirs
  <1>4. CASE WorkerCopies(e[1], e[2])
    <2>1. /\ UNCHANGED fs \/ MadeAt(DestOf(e[1]))
          /\ queue' = queue \ {e} /\ e[2] # "open"
          /\ \E r \in {"ok", "error"} : Copy(e[1], e[2], r)
      BY <1>0, <1>1, <1>4, WorkerCopiesTypes DEF WorkerCopies
    <2>2. ASSUME changed = {}, NEW p \in Original, p # e[1], DestOf(p) \notin DOMAIN fs
          PROVE  DestOf(p)' \notin DOMAIN fs'
      <3>1. DestOf(p) # DestOf(e[1])
        BY <1>0, <1>2, <2>2, DestsApart DEF Given
      <3> QED
        BY <1>1, <2>1, <2>2, <3>1 DEF MadeAt, With, DestOf
    <2>3. Causes'
      <3>1. ASSUME changed = {}, NEW l \in lost', l \notin lost
            PROVE  TooLong(l[1]) \/ faults' > 0
        BY <1>1, <1>2, <2>1, <3>1, CopyCause DEF Given, Explained
      <3> QED
        BY <1>0, <1>1, <3>1, CauseStays
    <2>4. ASSUME changed = {}
          PROVE  Given'
      <3>1. ASSUME NEW x \in queue', x[2] # "open" PROVE x[1] # e[1]
        <4>1. x \in queue /\ x # e /\ x = <<x[1], x[2]>>
          BY <1>0, <2>1, <3>1 DEF Types, Entries
        <4>2. x[1] = e[1] => x[2] = e[2]
          BY <1>2, <2>1, <2>4, <3>1, <4>1 DEF Given
        <4> QED
          BY <1>1, <4>1, <4>2
      <3> QED
        BY <1>1, <1>2, <2>1, <2>2, <2>4, <3>1 DEF Given, Original
    <2>5. ASSUME changed = {}
          PROVE  Free'
      <3>1. UNCHANGED walk /\ \A p : Pending(p)' <=> Pending(p)
        BY <1>1 DEF Pending
      <3> QED
        BY <1>1, <1>2, <2>1, <2>2, <2>5, <3>1 DEF Free, Original
    <2> QED
      BY <1>1, <2>3, <2>4, <2>5 DEF Explained, OnlyDirs
  <1> QED
    BY <1>3, <1>4

\* Nothing is pending twice when a directory has been opened, ...
LEMMA OnceOpen ==
  ASSUME NEW w, WalkOK(w), w.at = "open", Once(w), NEW f, IsTree(f), NEW l,
         \A e \in l : e = <<e[1], f[e[1]]>> /\ e[1] \in KidsIn(f, w.dir),
         NEW v, v = Rec(w.mode, w.root, w.dir, w.stack, l, "read", w.sb, w.upto)
  PROVE  Once(v)
  <1>1. v.dir = w.dir /\ v.stack = w.stack /\ v.at = "read" /\ v.listing = l
    BY RecParts
  <1>2. w.dir \in Path
    BY DEF WalkOK
  <1>3. \A e \in l : /\ e[1] \in Path /\ e[1] # <<>> /\ Front(e[1]) = w.dir /\ Under(e[1], w.dir)
                     /\ Len(e[1]) = Len(w.dir) + 1
    <2>1. ASSUME NEW e \in l
          PROVE  e[1] \in Path /\ e[1] # <<>> /\ Front(e[1]) = w.dir
      BY TreeDef DEF KidsIn
    <2>2. \A e \in l : /\ Under(e[1], w.dir) /\ Len(e[1]) \in Nat \ {0}
                       /\ Len(w.dir) = Len(e[1]) - 1
      BY <2>1, DirFact
    <2> QED
      BY <2>1, <2>2
  <1>4. ASSUME NEW q \in Path, NEW e \in l, Under(q, e[1])
        PROVE  Under(q, w.dir)
    BY <1>2, <1>3, <1>4, UnderIsOrder
  <1>5. ASSUME NEW q \in Path, NEW e \in l, NEW g \in l, Under(q, e[1]), Under(q, g[1])
        PROVE  e = g
    <2>1. Under(e[1], g[1]) \/ Under(g[1], e[1])
      BY <1>3, <1>5, UnderIsOrder
    <2>2. e[1] = g[1]
      BY <1>3, <2>1, UnderIsOrder
    <2> QED
      BY <2>2
  <1> QED
    BY <1>1, <1>4, <1>5 DEF Once

\* ... an entry has been read, ...
LEMMA OnceRead ==
  ASSUME NEW w, WalkOK(w), w.at = "read", Once(w), NEW e \in w.listing, NEW l, l = w.listing \ {e},
         NEW s, s = w.stack \/ s = Append(w.stack, e[1]),
         NEW v, v = Rec(w.mode, w.root, w.dir, s, l, "read", w.sb, w.upto)
  PROVE  /\ Once(v)
         /\ s = w.stack => ~PendingIn(v, e[1])
  <1>1. v.stack = s /\ v.at = "read" /\ v.listing = l
    BY RecParts
  <1>2. e[1] \in Path /\ w.stack \in Seq(Path) /\ Under(e[1], e[1])
    BY UnderRoot, UnderIsOrder DEF WalkOK
  <1>3. CASE s = w.stack
    BY <1>1, <1>2, <1>3 DEF Once, PendingIn
  <1>4. CASE s = Append(w.stack, e[1]) /\ s # w.stack
    <2>1. \A i \in DOMAIN s : \/ i \in DOMAIN w.stack /\ s[i] = w.stack[i]
                              \/ i = Len(w.stack) + 1 /\ s[i] = e[1]
      BY <1>2, <1>4, StackFact
    <2>2. ASSUME NEW q \in Path, NEW i \in DOMAIN s, NEW j \in DOMAIN s, Under(q, s[i]), Under(q, s[j])
          PROVE  i = j
      BY <2>1, <2>2 DEF Once
    <2>3. ASSUME NEW q \in Path, NEW g \in l, NEW i \in DOMAIN s, Under(q, g[1]), Under(q, s[i])
          PROVE  FALSE
      BY <2>1, <2>3 DEF Once
    <2>4. \A q \in Path : \A g, h \in l : Under(q, g[1]) /\ Under(q, h[1]) => g = h
      BY DEF Once
    <2>5. Once(v)
      <3>1. v.at \notin {"enter", "open"} /\ v.stack = s /\ v.listing = l
        BY <1>1
      <3> HIDE DEF Path
      <3> QED
        BY <2>2, <2>3, <2>4, <3>1 DEF Once
    <2> QED
      BY <1>4, <2>5
  <1> QED
    BY <1>3, <1>4

\* ... and the next directory is come to.
LEMMA OnceNext ==
  ASSUME NEW w, WalkOK(w), Once(w), w.stack # <<>>, NEW a,
         NEW v, v = Rec(w.mode, w.root, Last(w.stack), Front(w.stack), {}, a, Last(w.stack), -1)
  PROVE  Once(v)
  <1>1. v.dir = Last(w.stack) /\ v.stack = Front(w.stack) /\ v.listing = {}
    BY RecParts
  <1>2. /\ Last(w.stack) = w.stack[Len(w.stack)] /\ Len(w.stack) \in DOMAIN w.stack
        /\ \A i \in DOMAIN Front(w.stack) : i \in DOMAIN w.stack /\ i # Len(w.stack) /\ Front(w.stack)[i] = w.stack[i]
    BY StackFact DEF WalkOK
  <1> QED
    BY <1>1, <1>2 DEF Once

\* The step of the first walk that makes a directory, and those that do not.
LEMMA OnlyDirsStep ==
  ASSUME Untouched, Known, Apart, Whole, Explained, changed = {}, [Next]_vars, WalkStep, pc = "mkdirs", pc' = "mkdirs"
  PROVE  OnlyDirs'
  <1>0. /\ Types /\ job.src \in Path /\ job.dst \in Path /\ OnlyDirs /\ InSource(walk) /\ Copying
        /\ UNCHANGED job /\ Under(job.src, job.src)
    BY JobFact, FsStepFact, UnderIsOrder DEF Untouched, Types, Control, Explained, Known, Copying
  <1>1. \A p \in Original : p \in Still /\ p \in Path /\ Under(p, job.src)
    BY StillFact DEF Still
  <1>2. Seen = Original
    BY DEF Seen
  <1>3. CASE EnterDir
    <2>1. /\ walk.at = "enter" /\ MayCreate(DestOf(walk.dir)) /\ fs' = With(fs, DestOf(walk.dir), "dir")
          /\ walk' = Moved(walk.stack, {}, "open")
      BY <1>0, <1>3, EnterDirFact
    <2>2. walk'.at = "open"
      BY <2>1, RecParts DEF Moved
    <2>3. walk.dir \in Path /\ Under(walk.dir, job.src) /\ (walk.dir = job.src \/ job.was[walk.dir] = "dir")
      BY <1>0, <1>1, <1>2, <2>1 DEF InSource, OnlyDirs
    <2>4. ASSUME NEW p \in Original, job.was[p] # "dir", p # job.src
          PROVE  DestOf(p) \notin DOMAIN fs'
      <3>1. DestOf(p) # DestOf(walk.dir)
        <4>1. p # walk.dir
          BY <2>3, <2>4
        <4> QED
          BY <1>0, <1>1, <2>3, <4>1, DestsApart
      <3>2. CASE ~AtTop
        BY <1>0, <2>1, <2>4, <3>1, <3>2 DEF OnlyDirs, With
      <3>3. CASE AtTop
        <4>1. DestOf(p) \in Path /\ Under(DestOf(p), job.dst) /\ DestOf(walk.dir) = job.dst
          BY <1>0, <1>1, <3>3, DestFact, DestsApart DEF AtTop
        <4>2. DestOf(p) \notin DOMAIN fs
          <5>1. job.dst \notin DOMAIN fs /\ IsTree(fs)
            BY <1>0, <2>1, <4>1 DEF MayCreate, Types, FsOK
          <5> QED
            BY <1>0, <3>1, <4>1, <5>1, TreeDef
        <4> QED
          BY <2>1, <3>1, <4>2 DEF With
      <3> QED
        BY <3>2, <3>3
    <2> QED
      BY <1>0, <2>2, <2>4 DEF OnlyDirs, Original, DestOf
  <1>4. CASE NextDir
    <2>1. /\ UNCHANGED fs /\ walk.at = "read" /\ walk.stack # <<>>
          /\ walk' = Rec(walk.mode, walk.root, Last(walk.stack), Front(walk.stack), {}, "enter", Last(walk.stack), -1)
      BY <1>0, <1>4, NextDirFact DEF dataVars
    <2>2. walk'.dir = Last(walk.stack)
      BY <2>1, RecParts
    <2>3. Last(walk.stack) = walk.stack[Len(walk.stack)] /\ Len(walk.stack) \in DOMAIN walk.stack
      BY <1>0, <2>1, StackFact DEF Types, WalkOK
    <2>4. job.was[walk'.dir] = "dir"
      BY <1>0, <1>1, <1>2, <2>2, <2>3 DEF InSource, Whole, Listed
    <2> QED
      BY <1>0, <2>1, <2>4 DEF OnlyDirs, Original, DestOf, AtTop
  <1>5. CASE OpenDir
    <2>1. UNCHANGED fs /\ walk.at = "open" /\ walk'.at = "read"
      BY <1>0, <1>5, OpenDirFact, RecParts DEF Moved
    <2> QED
      BY <1>0, <2>1 DEF OnlyDirs, Original, DestOf, AtTop
  <1>6. ASSUME NEW e \in walk.listing, ReadEntry(e[1], e[2])
        PROVE  OnlyDirs'
    <2>1. UNCHANGED fs /\ walk.at = "read" /\ \E s, l : walk' = Moved(s, l, "read")
      BY <1>0, <1>6, ReadEntryFact DEF dataVars
    <2>2. walk'.at = "read"
      BY <2>1, RecParts DEF Moved
    <2> QED
      BY <1>0, <2>1, <2>2 DEF OnlyDirs, Original, DestOf, AtTop
  <1>7. CASE ReadFails
    <2>1. UNCHANGED fs /\ walk.at = "read" /\ walk'.at = "read"
      BY <1>0, <1>7, ReadFailsFact, RecParts DEF Moved
    <2> QED
      BY <1>0, <2>1 DEF OnlyDirs, Original, DestOf, AtTop
  <1> QED
    BY <1>0, <1>3, <1>4, <1>5, <1>6, <1>7, UnwindFact, EntryFailsFact, OpenFifoFact DEF WalkStep

\* The steps of the second walk that give no file to the threads.
LEMMA FilesQuiet ==
  ASSUME Untouched, Known, Apart, Whole, Explained, changed = {}, [Next]_vars, pc = "files",
         UNCHANGED <<job, changed, fs, queue>>, \A l \in lost' : l \in lost \/ faults' > 0,
         pc' = "join" \/ (pc' = "files" /\ Once(walk') /\ \A p \in Path : PendingIn(walk', p) => Pending(p))
  PROVE  Explained'
  <1>1. Causes'
    BY CauseStays DEF Untouched
  <1>2. Given'
    BY DEF Explained, Given, Original, DestOf
  <1>3. \A p \in Original : p \in Path
    BY StillFact DEF Still
  <1>4. Free'
    BY <1>3 DEF Explained, Free, Original, DestOf, Pending
  <1> QED
    BY <1>1, <1>2, <1>4 DEF Explained, OnlyDirs

\* The one that does, or copies the file itself.
LEMMA FilesRead ==
  ASSUME Untouched, Known, Apart, Whole, Explained, changed = {}, [Next]_vars, pc = "files",
         NEW e \in walk.listing, ReadEntry(e[1], e[2]), e[2] # "dir"
  PROVE  Explained'
  <1> DEFINE l == walk.listing \ {e}
  <1>0. /\ Types /\ job.src \in Path /\ job.dst \in Path /\ Given /\ Free /\ InSource(walk) /\ Copying
        /\ WalkOK(walk) /\ walk.root = job.src /\ \A x \in queue : x = <<x[1], x[2]>>
    BY JobFact DEF Untouched, Types, Control, Entries, Explained, Known, Copying
  <1>1. \A p \in Original : p \in Still /\ p \in Path /\ Under(p, job.src)
    BY StillFact DEF Still
  <1>2. /\ e[1] \in Original /\ e[1] # job.src /\ e[1] \in Path /\ e[2] \in Kind /\ e = <<e[1], e[2]>>
        /\ e[2] = job.was[e[1]]
    <2>1. e[1] \in Original /\ e[1] # job.src /\ e[1] \in Path /\ e[2] \in Kind /\ e = <<e[1], e[2]>>
      BY <1>0, UnderRoot DEF InSource, Seen, WalkOK
    <2> QED
      BY <1>0, <1>1, <2>1 DEF Whole, Listed
  <1>3. /\ walk.at = "read" /\ UNCHANGED <<job, changed>>
        /\ \/ pc' = "files" /\ walk' = Moved(walk.stack, l, "read")
           \/ pc' = "join"
        /\ \E r \in {"ok", "error"} : cpyfile(e[1], e[2], r)
    BY <1>0, <1>2, ReadEntryFact DEF Stays
  <1>4. DestOf(e[1]) \notin DOMAIN fs /\ \A x \in queue : x[1] # e[1]
    <2>1. Pending(e[1])
      BY <1>2, <1>3, UnderIsOrder DEF Pending, PendingIn
    <2> QED
      BY <1>0, <1>2, <2>1 DEF Free
  <1>5. pc' = "files" => Once(walk') /\ ~Pending(e[1])' /\ \A p \in Path : Pending(p)' => Pending(p)
    <2> SUFFICES ASSUME pc' = "files"
                 PROVE  Once(walk') /\ ~Pending(e[1])' /\ \A p \in Path : Pending(p)' => Pending(p)
      OBVIOUS
    <2>1. walk' = Rec(walk.mode, walk.root, walk.dir, walk.stack, walk.listing \ {e}, "read", walk.sb, walk.upto)
      BY <1>3 DEF Moved
    <2>2. Once(walk') /\ ~PendingIn(walk', e[1])
      BY <1>0, <1>3, <2>1, OnceRead DEF Free
    <2>3. \A p \in Path : PendingIn(walk', p) => PendingIn(walk, p)
      BY <1>0, <1>3, <2>1, PendingRead
    <2> QED
      BY <2>2, <2>3 DEF Pending
  <1>6. \/ UNCHANGED <<fs, lost>> /\ queue' \in {queue, queue \cup {e}}
        \/ /\ UNCHANGED queue /\ (UNCHANGED fs \/ MadeAt(DestOf(e[1])))
           /\ \E r \in {"ok", "error"} : Copy(e[1], e[2], r)
    BY <1>2, <1>3, CopyFact DEF cpyfile
  <1>7. \A p \in Original : p # e[1] /\ DestOf(p) \notin DOMAIN fs => DestOf(p)' \notin DOMAIN fs'
    <2>1. \A p \in Original : p # e[1] => DestOf(p) # DestOf(e[1])
      BY <1>0, <1>1, <1>2, DestsApart
    <2> QED
      BY <1>3, <1>6, <2>1 DEF MadeAt, With, DestOf
  <1>8. Causes'
    <2>1. ASSUME NEW x \in lost', x \notin lost
          PROVE  TooLong(x[1]) \/ faults' > 0
      BY <1>2, <1>4, <1>6, <2>1, CopyCause DEF Explained
    <2> QED
      BY <1>0, <2>1, CauseStays
  <1>9. Given'
    <2>1. ASSUME NEW x \in queue
          PROVE  /\ x[1] \in Original' /\ x[1] # job'.src /\ x[2] \in {job'.was[x[1]], "open"}
                 /\ x[2] # "open" => DestOf(x[1])' \notin DOMAIN fs'
      BY <1>0, <1>3, <1>4, <1>7 DEF Given, Original
    <2>2. UNCHANGED fs => DestOf(e[1])' \notin DOMAIN fs'
      BY <1>3, <1>4 DEF DestOf
    <2> QED
      BY <1>2, <1>3, <1>6, <2>1, <2>2 DEF Given, Original
  <1>10. Free'
    <2>1. ASSUME pc' = "files", NEW p \in Original, job.was[p] # "dir", Pending(p)'
          PROVE  DestOf(p)' \notin DOMAIN fs' /\ \A x \in queue' : x[1] # p
      <3>1. p # e[1] /\ Pending(p)
        BY <1>1, <1>5, <2>1
      <3> QED
        BY <1>0, <1>6, <1>7, <2>1, <3>1 DEF Free
    <2> QED
      BY <1>3, <1>5, <2>1 DEF Free, Original
  <1> QED
    BY <1>3, <1>8, <1>9, <1>10 DEF Explained, OnlyDirs

LEMMA FilesStep ==
  ASSUME Untouched, Known, Apart, Whole, Explained, changed = {}, [Next]_vars, WalkStep, pc = "files"
  PROVE  Explained'
  <1>0. Types /\ WalkOK(walk) /\ Once(walk) /\ Copying /\ IsTree(fs)
    BY DEF Untouched, Types, FsOK, Explained, Free, Copying
  <1>1. CASE OpenDir
    <2> DEFINE l == {<<p, fs[p]>> : p \in Kids(walk.dir)}
    <2>1. /\ walk.at = "open" /\ UNCHANGED <<job, fs, queue, lost, changed>>
          /\ pc' = "join" \/ (pc' = "files" /\ walk' = Moved(walk.stack, l, "read"))
      BY <1>0, <1>1, OpenDirFact DEF Stays
    <2>2. \A e \in l : e[1] \in KidsIn(fs, walk.dir) /\ e = <<e[1], fs[e[1]]>>
      BY DEF Kids
    <2>3. \A p \in KidsIn(fs, walk.dir) : \E e \in l : e[1] = p
      <3>1. \A p \in KidsIn(fs, walk.dir) : <<p, fs[p]>> \in l /\ <<p, fs[p]>>[1] = p
        BY DEF Kids
      <3> HIDE DEF l
      <3> QED
        BY <3>1
    <2> HIDE DEF l
    <2>4. ASSUME pc' = "files"
          PROVE  Once(walk') /\ \A p \in Path : PendingIn(walk', p) => Pending(p)
      <3>1. walk' = Rec(walk.mode, walk.root, walk.dir, walk.stack, l, "read", walk.sb, walk.upto)
        BY <2>1, <2>4 DEF Moved
      <3>2. Once(walk')
        BY <1>0, <2>1, <2>2, <3>1, OnceOpen
      <3>3. \A p \in Path : PendingIn(walk', p) => PendingIn(walk, p)
        BY <1>0, <2>1, <2>2, <2>3, <3>1, PendingOpen
      <3> QED
        BY <3>2, <3>3 DEF Pending
    <2> QED
      BY <2>1, <2>4, FilesQuiet
  <1>2. CASE NextDir
    <2>1. /\ walk.at = "read" /\ walk.listing = {} /\ UNCHANGED <<job, fs, queue, lost, changed>>
          /\ \/ pc' = "join"
             \/ /\ walk.stack # <<>> /\ pc' = "files"
                /\ walk' = Rec(walk.mode, walk.root, Last(walk.stack), Front(walk.stack), {}, "open", Last(walk.stack), -1)
      BY <1>0, <1>2, NextDirFact DEF Stays, dataVars
    <2>2. ASSUME walk.stack # <<>>,
                 walk' = Rec(walk.mode, walk.root, Last(walk.stack), Front(walk.stack), {}, "open", Last(walk.stack), -1)
          PROVE  Once(walk') /\ \A p \in Path : PendingIn(walk', p) => Pending(p)
      BY <1>0, <2>1, <2>2, OnceNext, PendingNext DEF Pending
    <2> QED
      BY <2>1, <2>2, FilesQuiet
  <1>3. ASSUME NEW e \in walk.listing, ReadEntry(e[1], e[2])
        PROVE  Explained'
    <2>1. CASE e[2] # "dir"
      BY <1>3, <2>1, FilesRead
    <2>2. CASE e[2] = "dir"
      <3>1. e = <<e[1], e[2]>>
        BY <1>0 DEF WalkOK
      <3>2. /\ walk.at = "read" /\ UNCHANGED <<job, fs, queue, lost, changed>> /\ pc' = "files"
            /\ walk' = Rec(walk.mode, walk.root, walk.dir, Append(walk.stack, e[1]), walk.listing \ {e}, "read", walk.sb, walk.upto)
        BY <1>0, <1>3, <2>2, <3>1, ReadEntryFact DEF Stays, dataVars, Moved
      <3>3. Once(walk')
        BY <1>0, <3>2, OnceRead
      <3>4. \A p \in Path : PendingIn(walk', p) => Pending(p)
        BY <1>0, <3>2, PendingRead DEF Pending
      <3> QED
        BY <3>2, <3>3, <3>4, FilesQuiet
    <2> QED
      BY <2>1, <2>2
  <1>4. ASSUME NEW e \in walk.listing, EntryFails(e[1], e[2])
        PROVE  Explained'
    BY <1>0, <1>4, EntryFailsFact, FilesQuiet
  <1>5. ASSUME NEW e \in walk.listing, OpenFifo(e[1], e[2])
        PROVE  Explained'
    <2>1. UNCHANGED <<job, fs, queue, lost, changed>> /\ pc' = "files" /\ walk' = Moved(walk.stack, walk.listing, "blocked")
      BY <1>0, <1>5, OpenFifoFact DEF Stays, dataVars
    <2>2. walk'.stack = walk.stack /\ walk'.listing = walk.listing /\ walk'.at = "blocked"
      BY <2>1, RecParts DEF Moved
    <2>3. walk.at = "read"
      BY <1>5 DEF OpenFifo
    <2>4. Once(walk') /\ \A p \in Path : PendingIn(walk', p) => Pending(p)
      BY <1>0, <2>2, <2>3 DEF Once, Pending, PendingIn
    <2> QED
      BY <2>1, <2>4, FilesQuiet
  <1>6. ~EnterDir /\ ~Unwind
    BY <1>0, UnwindFact DEF EnterDir, Types, WalkOK, Control
  <1>7. CASE ReadFails
    <2>1. /\ UNCHANGED <<job, fs, queue, changed>> /\ pc' = "files" /\ walk' = Moved(walk.stack, {}, "read")
          /\ walk.at = "read" /\ \A l \in lost' : l \in lost \/ faults' > 0
      BY <1>0, <1>7, ReadFailsFact DEF Stays
    <2>2. walk'.stack = walk.stack /\ walk'.listing = {} /\ walk'.at = "read"
      BY <2>1, RecParts DEF Moved
    <2>3. Once(walk') /\ \A p \in Path : PendingIn(walk', p) => Pending(p)
      BY <1>0, <2>2 DEF Once, Pending, PendingIn
    <2> QED
      BY <2>1, <2>3, FilesQuiet
  <1> QED
    BY <1>1, <1>2, <1>3, <1>4, <1>5, <1>6, <1>7 DEF WalkStep

LEMMA ExplainedStep ==
  ASSUME Untouched, Known, Apart, Whole, Explained, [Next]_vars
  PROVE  Explained'
  <1>0. /\ Types /\ UNCHANGED job /\ changed \subseteq changed' /\ job.src \in Path
        /\ (\A l \in lost' : l \in lost \/ l[2] = "dropped" \/ TooLong(l[1]) \/ faults' > 0 \/ changed' # {}) => Causes'
    BY CauseStays, JobFact DEF Untouched, Types, Control
  <1>1. CASE changed' # {}
    BY <1>0, <1>1 DEF Explained
  <1>2. CASE WalkStep /\ changed' = {}
    <2>1. changed = {} /\ UNCHANGED <<job, changed>>
      BY <1>0, <1>2
    <2>2. CASE pc = "files"
      BY <1>2, <2>1, <2>2, FilesStep
    <2>3. CASE pc # "files"
      <3>1. (\A l \in lost' : l \in lost \/ faults' > 0) /\ queue' = queue /\ queue = {}
        <4>1. (lost' = lost \/ faults' = faults + 1) /\ queue' = queue /\ faults \in Nat
          BY <1>0, <1>2, <2>3, WalkStepTypes DEF WalkEffect, CallStep, Hides, Types, Troubles
        <4>2. pc # "join"
          BY <1>0, <1>2, WalkStepTypes DEF WalkEffect, Walking
        <4> QED
          BY <1>0, <2>3, <4>1, <4>2 DEF Types, Control
      <3>2. Causes' /\ Given'
        BY <1>0, <3>1 DEF Given
      <3>3. CASE pc' = "mkdirs"
        <4>1. pc = "mkdirs"
          BY <1>0, <1>2, <2>3, <3>3, OtherWalkFact DEF Copying
        <4> QED
          BY <1>2, <2>1, <3>2, <3>3, <4>1, OnlyDirsStep DEF Explained, Free
      <3>4. CASE pc' = "files"
        <4>1. pc = "mkdirs" /\ Copying
          BY <1>0, <1>2, <2>3, <3>4, OtherWalkFact DEF Copying
        <4>2. /\ walk.at = "read" /\ UNCHANGED fs
              /\ walk' = Rec("cpyfile", job.src, job.src, <<>>, {}, "open", job.src, -1)
          <5>1. NextDir
            BY <1>0, <1>2, <3>4, <4>1, EnterDirFact, OpenDirFact, ReadEntryFact, ReadFailsFact, EntryFailsFact, OpenFifoFact, UnwindFact
              DEF WalkStep, Stays
          <5> QED
            BY <1>0, <3>4, <4>1, <5>1, NextDirFact DEF Stays, dataVars
        <4>3. Once(walk')
          <5>1. walk'.stack = <<>> /\ walk'.listing = {}
            BY <4>2, RecParts
          <5> QED
            BY <5>1 DEF Once
        <4>4. ASSUME NEW p \in Original, job.was[p] # "dir"
              PROVE  DestOf(p)' \notin DOMAIN fs'
          <5>1. p # job.src
            BY <4>1, <4>2, <4>4 DEF Whole, SrcIsDir
          <5> QED
            BY <1>0, <2>1, <4>1, <4>2, <4>4, <5>1 DEF Explained, OnlyDirs, AtTop, DestOf
        <4>5. Free'
          BY <2>1, <3>1, <4>3, <4>4 DEF Free, Original
        <4> QED
          BY <3>2, <3>4, <4>5 DEF Explained, OnlyDirs
      <3>5. CASE pc' \notin {"mkdirs", "files"}
        BY <3>2, <3>5 DEF Explained, OnlyDirs, Free
      <3> QED
        BY <3>3, <3>4, <3>5
    <2> QED
      BY <2>2, <2>3
  <1>3. CASE Access \/ FlexRemove \/ Stat \/ Join
    <2>1. /\ pc' \notin {"mkdirs", "files", "join"}
          /\ \A l \in lost' : l \in lost \/ l[2] = "dropped"
      BY <1>3 DEF Access, FlexRemove, Stat, Join, Goto, End
    <2> QED
      BY <1>0, <2>1, ExplainedBefore
  <1>4. CASE MakeParents
    <2>1. UNCHANGED <<lost, queue, changed>> /\ pc = "parent" /\ (pc' = "over" \/ (pc' = "mkdirs" /\ Begin("makedir", job.src)))
      BY <1>4 DEF MakeParents, End
    <2>2. queue = {} /\ "makedir" \in Mode
      BY <1>0, <2>1 DEF Types, Control, Mode
    <2>3. CASE pc' = "over"
      BY <1>0, <2>1, <2>3, ExplainedBefore
    <2>4. CASE pc' = "mkdirs" /\ Begin("makedir", job.src)
      <3>1. walk'.at = "enter" /\ walk'.dir = job.src
        BY <1>0, <2>2, <2>4, BeginFact, RecParts DEF Begin, ListsDirs
      <3> QED
        BY <1>0, <2>1, <2>2, <2>4, <3>1 DEF Explained, OnlyDirs, AtTop, Given, Free
    <2> QED
      BY <2>1, <2>3, <2>4
  <1>5. ASSUME NEW d \in DOMAIN fs, NEW x \in Name, Outside(Append(d, x))
        PROVE  changed' # {}
    BY <1>5 DEF Outside
  <1>6. CASE UNCHANGED vars
    BY <1>0, <1>6 DEF vars, Explained, Causes, OnlyDirs, Given, Free, Original, DestOf, Pending, AtTop, Once
  <1> QED
    BY <1>1, <1>2, <1>3, <1>4, <1>5, <1>6, ExplainedWorkers DEF Next, CommandStep, Running, Done

\* A copy that reports success has copied every entry that was in the source all the time, as
\* what it is and to its place, and nothing else; what it did not copy it left in its threads'
\* queue, or could not have a name, or a system call failed (a readdir() that hides the rest of
\* a directory is one) or the source changed.
THEOREM CopySound == Spec => []CopyIsWhole
  <1> DEFINE Sound == Apart => Whole /\ Explained
  <1>1. Init => Sound
    <2> SUFFICES ASSUME Init PROVE Sound
      OBVIOUS
    <2>1. Types
      BY TypesInit
    <2>2. pc \in {"access", "stat"} /\ queue = {} /\ lost = {}
      BY DEF Init
    <2>3. Whole
      BY <2>2 DEF Whole, Listed, SrcIsDir, DirsMade, FilesTaken, Ended, Copying
    <2>4. Explained
      BY <2>2 DEF Explained, Causes, OnlyDirs, Given, Free
    <2> QED
      BY <2>3, <2>4
  <1>2. Staged /\ Untouched /\ Sound /\ [Next]_vars => Sound'
    <2> SUFFICES ASSUME Staged, Untouched, Sound, [Next]_vars PROVE Sound'
      OBVIOUS
    <2>1. Apart' = Apart
      BY FsStepFact DEF Staged, Apart
    <2> QED
      BY <2>1, WholeStep, ExplainedStep DEF Staged
  <1>3. Staged /\ Untouched /\ Sound => CopyIsWhole
    <2> SUFFICES ASSUME Staged, Untouched, Sound, pc = "over", result = "ok", job.cmd = "copy", Apart
                 PROVE  /\ \A p \in Original \ changed :
                             \/ DestOf(p) \in DOMAIN fs /\ fs[DestOf(p)] = job.was[p]
                             \/ \E w \in Why : <<p, w>> \in lost
                        /\ AtDest \subseteq Copied
                        /\ \A l \in lost : l[2] = "dropped" \/ TooLong(l[1]) \/ faults > 0 \/ changed # {}
      BY DEF CopyIsWhole
    <2>1. \A p \in Still : Placed(p) \/ Lost(p)
      BY DEF Whole, Ended
    <2>2. AtDest \subseteq Copied
      BY DEF Staged, Stage, New
    <2>3. Causes
      BY DEF Explained
    <2> QED
      BY <2>1, <2>2, <2>3 DEF Still, Placed, Lost, IsA, Causes
  <1> HIDE DEF Sound
  <1> QED
    BY <1>1, <1>2, <1>3, StagedSpec, UntouchedSpec, PTL DEF Spec

-----------------------------------------------------------------------------
(* The length of a path's text. *)

\* A path is the directory it is in, and its last name.
LEMMA LastName ==
  ASSUME NEW p \in Path, p # <<>>
  PROVE  Front(p) \in Path /\ p[Len(p)] \in Name /\ p = Append(Front(p), p[Len(p)])
  <1> DEFINE q == Append(Front(p), p[Len(p)])
  <1>1. /\ Front(p) \in Path /\ Len(p) \in Nat \ {0} /\ Len(Front(p)) = Len(p) - 1
        /\ \A i \in 1..Len(p) - 1 : Front(p)[i] = p[i]
    BY DirFact
  <1>2. p[Len(p)] \in Name
    BY <1>1 DEF Path
  <1>3. q \in Path /\ Len(q) = Len(p) /\ \A i \in 1..Len(p) : q[i] = p[i]
    BY <1>1, <1>2 DEF Path
  <1> QED
    BY <1>1, <1>2, <1>3, SeqEqual DEF Path

\* TextLen() as the fold it is.
Folded(g, p) ==
  g = [s \in SUBSET (DOMAIN p) |-> IF s = {} THEN 0 ELSE g[s \ {Max(s)}] + (1 + Width[p[Max(s)]])]

LEMMA TextLenFold ==
  ASSUME NEW p
  PROVE  TextLen(p) = (CHOOSE g : Folded(g, p))[DOMAIN p]
  BY DEF TextLen, FoldLeft, MapThenFoldSet, Folded

\* A path is as long as its names are together.
Lengths(p) == [i \in DOMAIN p |-> 1 + Width[p[i]]]

LEMMA TextLenSum ==
  ASSUME NEW p \in Path, NEW t, NEW U, DOMAIN p \subseteq U, IsFiniteSet(U),
         NEW w, \A i \in DOMAIN p : w[i] = 1 + Width[p[i]], Sums(t, U, w)
  PROVE  TextLen(p) = t[DOMAIN p]
  <1> DEFINE D == DOMAIN p
             c == [s \in SUBSET D |-> Max(s)]
             v == [s \in SUBSET D |-> t[s]]
  <1>1. D = 1..Len(p) /\ Len(p) \in Nat /\ IsFiniteSet(D)
    BY FS_Interval
  <1>2. Chooses(c, D)
    BY <1>1, MaxFact DEF Chooses
  <1>3. Sums(v, D, w)
    <2>1. v \in [SUBSET D -> Nat] /\ v[{}] = 0
      BY DEF Sums
    <2>2. ASSUME NEW s \in SUBSET D, NEW x \in D \ s PROVE v[s \cup {x}] = v[s] + w[x]
      <3>1. s \in SUBSET U /\ x \in U \ s /\ s \cup {x} \in SUBSET D
        OBVIOUS
      <3> QED
        BY <3>1 DEF Sums
    <2> HIDE DEF v, D
    <2> QED
      BY <2>1, <2>2 DEF Sums
  <1>4. ASSUME NEW g PROVE Folded(g, p) <=> Folds(g, D, c, w)
    <2>1. ASSUME NEW s \in SUBSET D, s # {}
          PROVE  g[s \ {Max(s)}] + (1 + Width[p[Max(s)]]) = g[s \ {c[s]}] + w[c[s]]
      BY <1>2, <2>1 DEF Chooses
    <2> QED
      BY <2>1 DEF Folded, Folds
  <1>5. Folded(CHOOSE g : Folded(g, p), p)
    <2>1. Folds(v, D, c, w)
      <3> HIDE DEF v, c, D
      <3> QED
        BY <1>2, <1>3, SumFolds
    <2>2. \E g : Folded(g, p)
      BY <1>4, <2>1
    <2> QED
      BY <2>2, Zenon
  <1> DEFINE h == CHOOSE g : Folded(g, p)
  <1>6. Folds(h, D, c, w)
    BY <1>4, <1>5
  <1> HIDE DEF h
  <1>7. h[D] = v[D]
    <2> HIDE DEF v, c, D
    <2>1. IsFiniteSet(D)
      BY <1>1
    <2>2. D \in SUBSET D
      OBVIOUS
    <2> QED
      BY <1>2, <1>3, <1>6, <2>1, <2>2, FoldIsSum
  <1> QED
    BY <1>7, TextLenFold DEF h

\* One more name makes a path longer.
LEMMA TextLenFact ==
  /\ TextLen(<<>>) = 0
  /\ \A p \in Path, x \in Name :
       TextLen(p) \in Nat /\ TextLen(Append(p, x)) = TextLen(p) + 1 + Width[x]
  <1>1. ASSUME NEW p \in Path 
        PROVE  \E t : Sums(t, DOMAIN p, Lengths(p)) /\ IsFiniteSet(DOMAIN p)
    <2>1. DOMAIN p = 1..Len(p) /\ Len(p) \in Nat /\ IsFiniteSet(DOMAIN p)
      BY FS_Interval
    <2>2. \A y \in DOMAIN p : Lengths(p)[y] \in Nat
      BY FileTreeAssumption DEF Lengths, Path
    <2> QED
      BY <2>1, <2>2, SumsExist
  <1>2. TextLen(<<>>) = 0
    <2>1. PICK t : Sums(t, DOMAIN <<>>, Lengths(<<>>)) /\ IsFiniteSet(DOMAIN <<>>)
      <3>1. <<>> \in Path
        BY DEF Path
      <3> QED
        BY <1>1, <3>1, Zenon
    <2>2. DOMAIN <<>> = {} /\ <<>> \in Path /\ \A i \in DOMAIN <<>> : Lengths(<<>>)[i] = 1 + Width[(<<>>)[i]]
      BY DEF Path
    <2>3. TextLen(<<>>) = t[DOMAIN <<>>]
      BY <2>1, <2>2, TextLenSum
    <2> QED
      BY <2>1, <2>2, <2>3 DEF Sums
  <1>3. ASSUME NEW p \in Path, NEW x \in Name
        PROVE  TextLen(p) \in Nat /\ TextLen(Append(p, x)) = TextLen(p) + 1 + Width[x]
    <2> DEFINE q == Append(p, x)
               w == Lengths(q)
               k == Len(p) + 1
    <2>1. /\ q \in Path /\ DOMAIN q = DOMAIN p \cup {k} /\ k \notin DOMAIN p
          /\ \A i \in DOMAIN p : q[i] = p[i] /\ q[k] = x /\ k \in DOMAIN q
          /\ q[k] = x
      BY DEF Path
    <2> HIDE DEF q
    <2>2. PICK t : Sums(t, DOMAIN q, w) /\ IsFiniteSet(DOMAIN q)
      BY <1>1, <2>1
    <2>3. \A i \in DOMAIN q : w[i] = 1 + Width[q[i]]
      BY DEF Lengths
    <2>4. TextLen(q) = t[DOMAIN q]
      BY <2>1, <2>2, <2>3, TextLenSum
    <2>5. TextLen(p) = t[DOMAIN p]
      <3>1. \A i \in DOMAIN p : w[i] = 1 + Width[p[i]]
        BY <2>1, <2>3
      <3> HIDE DEF w
      <3> QED
        BY <2>1, <2>2, <3>1, TextLenSum
    <2>6. t[DOMAIN p \cup {k}] = t[DOMAIN p] + w[k] /\ t[DOMAIN p] \in Nat
      <3> HIDE DEF w
      <3> QED
        BY <2>1, <2>2 DEF Sums
    <2>7. w[k] = 1 + Width[x] /\ Width[x] \in Nat
      BY <2>1, <2>3, FileTreeAssumption
    <2>9. t[DOMAIN q] = t[DOMAIN p] + w[k]
      BY <2>1, <2>6, Zenon
    <2> HIDE DEF w, k
    <2>8. TextLen(q) = TextLen(p) + 1 + Width[x] /\ TextLen(p) \in Nat
      BY <2>4, <2>5, <2>6, <2>7, <2>9
    <2> QED
      BY <2>8 DEF q
  <1> QED
    BY <1>2, <1>3

\* The walk compares paths of one branch only, and there the lengths tell them apart.
LEMMA LengthTells ==
  ASSUME NEW p \in Path, NEW q \in Path, Under(p, q)
  PROVE  TextLen(p) \in Nat /\ (TextLen(p) = TextLen(q) <=> p = q)
  <1> DEFINE m == Len(q)
             Longer(n) == \A r \in Path : Len(r) = m + n /\ Under(r, q) =>
                            /\ TextLen(r) \in Nat /\ TextLen(q) \in Nat
                            /\ TextLen(r) >= TextLen(q) + n
             T == {n \in Nat : Longer(n)}
  <1>0. \A r \in Path : TextLen(r) \in Nat /\ Len(r) \in Nat
    <2> SUFFICES ASSUME NEW r \in Path PROVE TextLen(r) \in Nat /\ Len(r) \in Nat
      OBVIOUS
    <2>1. CASE r = <<>>
      BY <2>1, TextLenFact
    <2>2. CASE r # <<>>
      <3>1. Front(r) \in Path /\ r[Len(r)] \in Name /\ r = Append(Front(r), r[Len(r)])
        BY <2>2, LastName
      <3>2. Width[r[Len(r)]] \in Nat
        BY <3>1, FileTreeAssumption
      <3>3. TextLen(Front(r)) \in Nat /\ TextLen(r) = TextLen(Front(r)) + 1 + Width[r[Len(r)]]
        BY <3>1, TextLenFact
      <3> QED
        BY <3>2, <3>3 DEF Path
    <2> QED
      BY <2>1, <2>2
  <1>1. 0 \in T
    BY <1>0, UnderIsOrder
  <1>2. ASSUME NEW n \in Nat, n \in T PROVE n + 1 \in T
    <2> SUFFICES ASSUME NEW r \in Path, Len(r) = m + (n + 1), Under(r, q)
                 PROVE  TextLen(r) >= TextLen(q) + (n + 1)
      BY <1>0
    <2>1. r # q /\ m \in Nat
      BY <1>0
    <2>2. r # <<>> /\ Front(r) \in Path /\ Under(Front(r), q)
      BY <2>1, UpFact
    <2>3. Len(Front(r)) = m + n
      <3>1. Len(Front(r)) = Len(r) - 1 /\ Len(r) = m + (n + 1)
        BY <2>2, DirFact
      <3> HIDE DEF m
      <3> QED
        BY <2>1, <3>1
    <2>4. TextLen(Front(r)) >= TextLen(q) + n
      BY <1>2, <2>2, <2>3
    <2>5. r[Len(r)] \in Name /\ r = Append(Front(r), r[Len(r)])
      BY <2>2, LastName
    <2>6. Width[r[Len(r)]] \in Nat
      BY <2>5, FileTreeAssumption
    <2>7. TextLen(r) = TextLen(Front(r)) + 1 + Width[r[Len(r)]]
      BY <2>2, <2>5, TextLenFact
    <2>8. TextLen(Front(r)) \in Nat /\ TextLen(q) \in Nat
      BY <1>0, <2>2
    <2> HIDE DEF m, T
    <2> QED
      BY <2>4, <2>6, <2>7, <2>8
  <1>3. Nat \subseteq T
    <2> HIDE DEF T
    <2> QED
      BY <1>1, <1>2, NatSetInduction
  <1>4. Len(p) - m \in Nat /\ (Len(p) = m => p = q)
    BY <1>0, UnderIsOrder, UnderFact
  <1>5. Longer(Len(p) - m)
    BY <1>3, <1>4
  <1>6. TextLen(p) >= TextLen(q) + (Len(p) - m)
    BY <1>0, <1>4, <1>5
  <1> QED
    BY <1>0, <1>4, <1>6

-----------------------------------------------------------------------------
(* What is left of a tree that is removed. *)

\* A sequence is its front and its last element.
LEMMA LastOfSeq ==
  ASSUME NEW S, NEW q \in Seq(S), q # <<>>
  PROVE  Append(Front(q), Last(q)) = q
  <1> DEFINE r == Append(Front(q), Last(q))
  <1>1. /\ Front(q) \in Seq(S) /\ Len(Front(q)) = Len(q) - 1 /\ \A i \in 1..(Len(q) - 1) : Front(q)[i] = q[i]
        /\ Last(q) \in S /\ Last(q) = q[Len(q)] /\ Len(q) \in Nat \ {0}
    BY FrontFact
  <1>2. r \in Seq(S) /\ Len(r) = Len(q) /\ \A i \in 1..Len(q) : r[i] = q[i]
    BY <1>1
  <1> HIDE DEF r
  <1>3. r = q
    BY <1>2, SeqEqual
  <1> QED
    BY <1>3 DEF r


Branch(f, r, d) == d \in DOMAIN f /\ f[d] = "dir" /\ Under(d, r)

\* Of what is under the root r in the file system f, there are left: the branch down to d; the
\* directories L and all they hold, each in a directory on the branch, the deeper ones behind;
\* and the entries l, which are about to be read.
Rests(f, r, L, d, l) ==
  /\ \A i \in DOMAIN L : /\ L[i] \in DOMAIN f /\ f[L[i]] = "dir" /\ Under(L[i], r)
                         /\ Under(d, Dirname(L[i])) /\ ~Under(d, L[i])
  /\ \A i \in DOMAIN L, j \in DOMAIN L : j < i => L[i] # L[j] /\ Under(Dirname(L[i]), Dirname(L[j]))
  /\ \A q \in DOMAIN f : Under(q, r) =>
       \/ Under(d, q)
       \/ \E i \in DOMAIN L : Under(q, L[i])
       \/ \E e \in l : Under(q, e[1])

Entered(f, d) == {<<p, f[p]>> : p \in KidsIn(f, d)}

\* The last of these directories is entered, ...
LEMMA RestsOpen ==
  ASSUME NEW f, IsTree(f), NEW r \in Path, r # <<>>, NEW S \in Seq(Path), NEW d \in Path,
         Rests(f, r, Append(S, d), Dirname(d), {})
  PROVE  /\ Branch(f, r, d) /\ Rests(f, r, S, d, Entered(f, d))
         /\ \A i \in DOMAIN S : \A e \in Entered(f, d) : S[i] # e[1]
  <1> DEFINE L == Append(S, d)
             n == Len(S) + 1
             c == Dirname(d)
  <1>1. /\ L \in Seq(Path) /\ n \in DOMAIN L /\ L[n] = d /\ n \in Nat
        /\ \A i \in DOMAIN S : i \in DOMAIN L /\ L[i] = S[i] /\ i < n /\ S[i] \in Path
        /\ \A i \in DOMAIN L : i = n \/ i \in DOMAIN S
    OBVIOUS
  <1>2. Branch(f, r, d)
    BY <1>1 DEF Rests, Branch
  <1>3. d # <<>> /\ c \in Path /\ Under(d, c) /\ c # d
    <2>1. d # <<>>
      <3>1. Len(r) \in Nat \ {0} /\ Len(r) <= Len(d)
        BY <1>2, UnderFact DEF Branch, Path
      <3> QED
        BY <3>1
    <2> QED
      BY <2>1, DirFact DEF Dirname
  <1> HIDE DEF L, n, c
  <1>4. ASSUME NEW i \in DOMAIN S
        PROVE  /\ S[i] \in DOMAIN f /\ f[S[i]] = "dir" /\ Under(S[i], r)
               /\ Under(d, Dirname(S[i])) /\ ~Under(d, S[i]) /\ Dirname(S[i]) # d
    <2>1. /\ S[i] \in DOMAIN f /\ f[S[i]] = "dir" /\ Under(S[i], r) /\ ~Under(c, S[i]) /\ S[i] \in Path
          /\ S[i] # d /\ Under(c, Dirname(S[i])) /\ Dirname(S[i]) \in Path
      <3>1. i \in DOMAIN L /\ n \in DOMAIN L /\ i < n /\ L[i] = S[i] /\ L[n] = d
        BY <1>1
      <3>2. Rests(f, r, L, c, {})
        BY DEF L, c
      <3> QED
        BY <1>1, <3>1, <3>2, DirFact DEF Rests, Dirname
    <2>2. Under(d, Dirname(S[i]))
      BY <1>3, <2>1, UnderIsOrder
    <2>3. ~Under(d, S[i])
      BY <1>3, <2>1, UpFact DEF c, Dirname
    <2>4. Dirname(S[i]) # d
      BY <1>3, <2>1, UnderIsOrder
    <2> QED
      BY <2>1, <2>2, <2>3, <2>4
  <1>5. ASSUME NEW i \in DOMAIN S, NEW j \in DOMAIN S, j < i
        PROVE  S[i] # S[j] /\ Under(Dirname(S[i]), Dirname(S[j]))
    <2>1. i \in DOMAIN L /\ j \in DOMAIN L /\ L[i] = S[i] /\ L[j] = S[j]
      BY <1>1
    <2>2. Rests(f, r, L, c, {})
      BY DEF L, c
    <2> QED
      BY <1>5, <2>1, <2>2 DEF Rests
  <1>6. ASSUME NEW q \in DOMAIN f, Under(q, r)
        PROVE  \/ Under(d, q)
               \/ \E i \in DOMAIN S : Under(q, S[i])
               \/ \E e \in Entered(f, d) : Under(q, e[1])
    <2>0. q \in Path
      BY TreeDef
    <2>1. Rests(f, r, L, c, {})
      BY DEF L, c
    <2>2. Under(c, q) \/ \E i \in DOMAIN L : Under(q, L[i])
      BY <1>6, <2>1 DEF Rests
    <2>3. CASE Under(c, q)
      BY <1>3, <2>0, <2>3, UnderIsOrder
    <2>4. CASE q = d
      BY <2>0, <2>4, UnderIsOrder
    <2>5. CASE Under(q, d) /\ q # d
      <3>1. PICK k \in DOMAIN f : k # <<>> /\ Front(k) = d /\ Under(q, k)
        BY <2>5, TreeFact
      <3>2. <<k, f[k]>> \in Entered(f, d) /\ <<k, f[k]>>[1] = k
        BY <3>1 DEF Entered, KidsIn
      <3> QED
        BY <3>1, <3>2
    <2>6. ASSUME NEW i \in DOMAIN L, Under(q, L[i]), ~Under(q, d)
          PROVE  \E j \in DOMAIN S : Under(q, S[j])
      BY <1>1, <2>6
    <2> QED
      BY <2>2, <2>3, <2>4, <2>5, <2>6
  <1>7. ASSUME NEW i \in DOMAIN S, NEW e \in Entered(f, d)
        PROVE  S[i] # e[1]
    BY <1>4, <1>7 DEF Entered, KidsIn, Dirname
  <1> QED
    BY <1>2, <1>4, <1>5, <1>6, <1>7 DEF Rests

\* ... one is found in it, ...
LEMMA RestsPush ==
  ASSUME NEW f, NEW r \in Path, NEW S \in Seq(Path), NEW d \in Path, NEW l, Rests(f, r, S, d, l), Under(d, r),
         NEW e \in l, e[1] \in Path, e[1] # <<>>, Front(e[1]) = d, IsTree(f),
         e[1] \in DOMAIN f, f[e[1]] = "dir", \A i \in DOMAIN S : S[i] # e[1]
  PROVE  Rests(f, r, Append(S, e[1]), d, l \ {e})
  <1> DEFINE p == e[1]
             L == Append(S, p)
             n == Len(S) + 1
  <1>1. /\ \A i \in DOMAIN L : i \in DOMAIN S \/ (i = n /\ L[i] = p)
        /\ \A i \in DOMAIN S : i \in DOMAIN L /\ L[i] = S[i] /\ i < n
        /\ n \in DOMAIN L /\ L[n] = p /\ n \in Nat /\ DOMAIN S \subseteq Nat
    OBVIOUS
  <1>2. Under(p, d) /\ d # p /\ Under(p, r) /\ ~Under(d, p) /\ Under(d, d) /\ Dirname(p) = d
    BY DirFact, UnderIsOrder DEF Dirname
  <1>3. p \in DOMAIN f /\ f[p] = "dir" /\ \A i \in DOMAIN S : S[i] # p
    OBVIOUS
  <1> HIDE DEF L, n, p
  <1>4. \A i \in DOMAIN L : /\ L[i] \in DOMAIN f /\ f[L[i]] = "dir" /\ Under(L[i], r)
                            /\ Under(d, Dirname(L[i])) /\ ~Under(d, L[i])
    BY <1>1, <1>2, <1>3 DEF Rests
  <1>5. ASSUME NEW i \in DOMAIN L, NEW j \in DOMAIN L, j < i
        PROVE  L[i] # L[j] /\ Under(Dirname(L[i]), Dirname(L[j]))
    <2>1. j \in DOMAIN S /\ L[j] = S[j]
      BY <1>1, <1>5
    <2>2. CASE i \in DOMAIN S
      <3>1. L[i] = S[i]
        BY <1>1, <2>2
      <3> QED
        BY <1>5, <2>1, <2>2, <3>1 DEF Rests
    <2>3. CASE i = n
      BY <1>1, <1>2, <1>3, <2>1, <2>3 DEF Rests
    <2> QED
      BY <1>1, <2>2, <2>3
  <1>6. ASSUME NEW q \in DOMAIN f, Under(q, r)
        PROVE  \/ Under(d, q)
               \/ \E i \in DOMAIN L : Under(q, L[i])
               \/ \E g \in l \ {e} : Under(q, g[1])
    <2>1. CASE \E i \in DOMAIN S : Under(q, S[i])
      BY <1>1, <2>1
    <2>2. CASE Under(q, p)
      BY <1>1, <2>2
    <2>3. ASSUME NEW g \in l, Under(q, g[1]), ~Under(q, p)
          PROVE  g \in l \ {e}
      BY <2>3 DEF p
    <2> QED
      BY <1>6, <2>1, <2>2, <2>3 DEF Rests
  <1> QED
    BY <1>4, <1>5, <1>6 DEF Rests, L, p

\* ... a file is removed, ...
LEMMA RestsFile ==
  ASSUME NEW f, IsTree(f), NEW r \in Path, NEW S \in Seq(Path), NEW d \in Path, NEW l, Rests(f, r, S, d, l),
         NEW e \in l, e[1] \in DOMAIN f, f[e[1]] # "dir"
  PROVE  KidsIn(f, e[1]) = {} /\ Rests(Without(f, e[1]), r, S, d, l \ {e})
  <1> DEFINE p == e[1]
             g == Without(f, p)
  <1>1. KidsIn(f, p) = {}
    BY TreeDef DEF KidsIn
  <1>2. \A q \in DOMAIN f : Under(q, p) => q = p
    BY <1>1, ShrinksFact
  <1>3. DOMAIN g = DOMAIN f \ {p} /\ \A q \in DOMAIN g : g[q] = f[q]
    BY DEF Without
  <1> HIDE DEF g
  <1>4. p \in DOMAIN f /\ f[p] # "dir"
    OBVIOUS
  <1>5. \A i \in DOMAIN S : S[i] \in DOMAIN g /\ g[S[i]] = "dir"
    BY <1>3, <1>4 DEF Rests
  <1>6. ASSUME NEW q \in DOMAIN g, Under(q, r)
        PROVE  \/ Under(d, q)
               \/ \E i \in DOMAIN S : Under(q, S[i])
               \/ \E h \in l \ {e} : Under(q, h[1])
    <2>1. q \in DOMAIN f /\ ~Under(q, p)
      BY <1>2, <1>3
    <2>2. ASSUME NEW h \in l, Under(q, h[1])
          PROVE  h \in l \ {e}
      BY <2>1, <2>2
    <2> QED
      BY <1>6, <2>1, <2>2 DEF Rests
  <1>7. Rests(g, r, S, d, l \ {e})
    <2> HIDE DEF p
    <2> QED
      BY <1>5, <1>6 DEF Rests
  <1> QED
    BY <1>1, <1>7 DEF g

\* ... and a directory that holds none of the others is empty, and removed, too.
LEMMA RestsRise ==
  ASSUME NEW f, IsTree(f), NEW r \in Path, r # <<>>, NEW L \in Seq(Path), NEW d \in Path,
         Rests(f, r, L, d, {}), Branch(f, r, d),
         L = <<>> \/ Dirname(L[Len(L)]) # d
  PROVE  /\ KidsIn(f, d) = {}
         /\ Rests(Without(f, d), r, L, Dirname(d), {})
         /\ d # r => Branch(Without(f, d), r, Dirname(d))
  <1>0. d # <<>> /\ Dirname(d) \in Path /\ Under(d, Dirname(d)) /\ Dirname(d) # d
    <2>1. d # <<>>
      <3>1. Len(r) \in Nat \ {0} /\ Len(r) <= Len(d)
        BY UnderFact DEF Branch, Path
      <3> QED
        BY <3>1
    <2> QED
      BY <2>1, DirFact DEF Dirname
  <1>1. ASSUME NEW i \in DOMAIN L
        PROVE  L[i] \in Path /\ Dirname(L[i]) \in Path /\ Dirname(L[i]) # d
    <2>1. L[i] \in Path /\ Dirname(L[i]) \in Path /\ Len(L) \in DOMAIN L /\ L[Len(L)] \in Path /\ Dirname(L[Len(L)]) \in Path
      BY DirFact DEF Dirname
    <2>2. i = Len(L) \/ i < Len(L)
      OBVIOUS
    <2>3. Under(Dirname(L[Len(L)]), Dirname(L[i])) \/ i = Len(L)
      BY <2>1, <2>2 DEF Rests
    <2>4. Under(d, Dirname(L[Len(L)])) /\ Dirname(L[Len(L)]) # d
      BY <2>1 DEF Rests
    <2> QED
      BY <2>1, <2>3, <2>4, UnderIsOrder
  <1>2. ASSUME NEW c \in KidsIn(f, d)
        PROVE  FALSE
    <2>1. c \in DOMAIN f /\ c \in Path /\ c # <<>> /\ Front(c) = d /\ Under(c, d) /\ c # d
      BY TreeDef, DirFact DEF KidsIn
    <2>2. Under(c, r) /\ ~Under(d, c)
      BY <2>1, UnderIsOrder DEF Branch
    <2>3. PICK i \in DOMAIN L : Under(c, L[i])
      BY <2>1, <2>2 DEF Rests
    <2>4. c # L[i]
      BY <1>1, <2>1 DEF Dirname
    <2>5. Under(d, L[i])
      BY <1>1, <2>1, <2>3, <2>4, UpFact
    <2> QED
      BY <2>5 DEF Rests
  <1> DEFINE g == Without(f, d)
  <1>3. DOMAIN g = DOMAIN f \ {d} /\ \A q \in DOMAIN g : g[q] = f[q]
    BY DEF Without
  <1> HIDE DEF g
  <1>4. ASSUME NEW i \in DOMAIN L
        PROVE  /\ L[i] \in DOMAIN g /\ g[L[i]] = "dir" /\ Under(L[i], r)
               /\ Under(Dirname(d), Dirname(L[i])) /\ ~Under(Dirname(d), L[i])
    <2>1. L[i] \in DOMAIN f /\ f[L[i]] = "dir" /\ Under(L[i], r) /\ Under(d, Dirname(L[i])) /\ ~Under(d, L[i])
      BY DEF Rests
    <2>2. L[i] # d
      BY <2>1, UnderIsOrder
    <2>3. Under(Dirname(d), Dirname(L[i]))
      BY <1>1, <2>1, UpFact DEF Dirname
    <2>4. ~Under(Dirname(d), L[i])
      BY <1>0, <1>1, <2>1, UnderIsOrder
    <2> QED
      BY <1>3, <2>1, <2>2, <2>3, <2>4
  <1>5. ASSUME NEW q \in DOMAIN g, Under(q, r)
        PROVE  Under(Dirname(d), q) \/ \E i \in DOMAIN L : Under(q, L[i])
    <2>1. q \in DOMAIN f /\ q # d /\ q \in Path
      BY <1>3, TreeDef
    <2>2. Under(d, q) => Under(Dirname(d), q)
      BY <2>1, UpFact DEF Dirname
    <2> QED
      BY <1>5, <2>1, <2>2 DEF Rests
  <1>6. Rests(g, r, L, Dirname(d), {})
    BY <1>4, <1>5 DEF Rests
  <1>7. ASSUME d # r
        PROVE  Branch(g, r, Dirname(d))
    <2>1. Under(Dirname(d), r)
      BY <1>7, UpFact DEF Branch, Dirname
    <2>2. Dirname(d) \in DOMAIN f /\ f[Dirname(d)] = "dir"
      BY <1>0, TreeDef DEF Branch, Dirname
    <2> QED
      BY <1>0, <1>3, <2>1, <2>2 DEF Branch
  <1> QED
    BY <1>2, <1>6, <1>7 DEF g

\* The walk that removes a tree: about to enter a directory, in one, or on its way up from one.
Present(f, w) ==
  \A e \in w.listing : e[1] \in DOMAIN f /\ f[e[1]] = e[2] /\ \A i \in DOMAIN w.stack : w.stack[i] # e[1]

Tidy(f, r, w) ==
  \/ w.at = "open" /\ Rests(f, r, Append(w.stack, w.dir), Dirname(w.dir), {})
  \/ w.at = "read" /\ Rests(f, r, w.stack, w.dir, w.listing) /\ Branch(f, r, w.dir) /\ Present(f, w)
  \/ /\ w.at = "up" /\ Branch(f, r, w.sb)
     /\ \/ w.upto = -1 /\ Rests(f, r, <<>>, w.sb, {})
        \/ /\ w.upto = TextLen(Dirname(w.dir)) /\ Dirname(w.dir) # w.sb
           /\ Rests(f, r, Append(w.stack, w.dir), w.sb, {})

\* Nothing that is removed is missing or in use, until a system call fails.
Removing ==
  Apart /\ faults = 0 =>
    /\ pc = "unlink" => job.dst \in DOMAIN fs
    /\ pc = "remove" => Tidy(fs, job.dst, walk)
    /\ result = "died" => ~job.force

\* What a step of the walk that removes has to keep.
Kept == result' # "died" /\ (pc' = "remove" => Tidy(fs', job.dst, walk')) /\ pc' # "unlink"

\* rmdir() and unlink() of what can be removed, without a failure.
LEMMA RemoveWorks ==
  ASSUME Types, pc = "remove", faults = 0, faults' = 0, NEW p \in DOMAIN fs, Kids(p) = {}, NEW k,
         NEW r \in {"ok", "error"}, Callback(p, k, r)
  PROVE  r = "ok" /\ fs' = Without(fs, p)
  <1>1. do_rmdirr(p, r)
    BY DEF Types, Control, Callback
  <1>2. ~Fault
    BY DEF Fault
  <1>3. r # "error"
    BY <1>1, <1>2 DEF do_rmdirr, FailsIf
  <1> QED
    BY <1>1, <1>3 DEF do_rmdirr

LEMMA TidyOpenDir ==
  ASSUME Types, pc = "remove", faults = 0, faults' = 0, Tidy(fs, job.dst, walk), OpenDir
  PROVE  Kept
  <1> DEFINE d == walk.dir
             S == walk.stack
             w == Reads(walk, Entered(fs, d))
  <1>1. walk.at = "open" /\ UNCHANGED <<job, fs>>
    BY DEF OpenDir
  <1>2. WalkOK(walk) /\ d \in Path /\ S \in Seq(Path) /\ job.dst \in Path /\ job.dst # <<>> /\ IsTree(fs) /\ result = "ok"
    BY JobFact DEF Types, Control, WalkOK, FsOK
  <1>3. Rests(fs, job.dst, Append(S, d), Dirname(d), {})
    BY <1>1 DEF Tidy
  <1>4. /\ Branch(fs, job.dst, d) /\ Rests(fs, job.dst, S, d, Entered(fs, d))
        /\ \A i \in DOMAIN S : \A e \in Entered(fs, d) : S[i] # e[1]
    <2> HIDE DEF d, S
    <2> QED
      BY <1>2, <1>3, RestsOpen
  <1>5. GoOn(w)
    <2>1. ~FailsIf(~IsDir(d))
      BY <1>4 DEF FailsIf, Fault, Branch, IsDir, IsA
    <2> QED
      BY <2>1 DEF OpenDir, Reads, Entered, Kids
  <1>6. w = Rec(walk.mode, walk.root, d, S, Entered(fs, d), "read", walk.sb, walk.upto)
    BY <1>2, PartsFact
  <1>7. w.at = "read" /\ w.stack = S /\ w.dir = d /\ w.listing = Entered(fs, d)
    BY <1>6, RecParts
  <1>8. Present(fs, w)
    <2>1. \A e \in Entered(fs, d) : e[1] \in DOMAIN fs /\ fs[e[1]] = e[2]
      BY DEF Entered, KidsIn
    <2> HIDE DEF w
    <2> QED
      BY <1>4, <1>7, <2>1 DEF Present
  <1>9. Tidy(fs, job.dst, w)
    <2> HIDE DEF w
    <2> QED
      BY <1>4, <1>7, <1>8 DEF Tidy
  <1> QED
    BY <1>1, <1>2, <1>5, <1>9 DEF GoOn, Kept

LEMMA TidyReadEntry ==
  ASSUME Types, pc = "remove", faults = 0, faults' = 0, Tidy(fs, job.dst, walk), NEW e \in walk.listing,
         ReadEntry(e[1], e[2])
  PROVE  Kept
  <1> DEFINE d == walk.dir
             S == walk.stack
             l == walk.listing \ {e}
  <1>1. walk.at = "read" /\ UNCHANGED job /\ e = <<e[1], e[2]>> /\ Front(e[1]) = d /\ e[1] # <<>> /\ e[1] \in Path
    BY DEF ReadEntry, Types, WalkOK
  <1>2. WalkOK(walk) /\ d \in Path /\ S \in Seq(Path) /\ job.dst \in Path /\ IsTree(fs) /\ result = "ok"
        /\ walk.mode = "do_rmdirr"
    BY JobFact DEF Types, Control, WalkOK, FsOK
  <1>3. Rests(fs, job.dst, S, d, walk.listing) /\ Branch(fs, job.dst, d) /\ Present(fs, walk)
    BY <1>1 DEF Tidy
  <1>4. e[1] \in DOMAIN fs /\ fs[e[1]] = e[2] /\ \A i \in DOMAIN S : S[i] # e[1]
    BY <1>3 DEF Present
  <1>5. \A g \in l : g[1] \in DOMAIN fs /\ fs[g[1]] = g[2] /\ g[1] # e[1] /\ \A i \in DOMAIN S : S[i] # g[1]
    <2>1. ASSUME NEW g \in l
          PROVE  g[1] \in DOMAIN fs /\ fs[g[1]] = g[2] /\ g = <<g[1], g[2]>> /\ \A i \in DOMAIN S : S[i] # g[1]
      BY <1>2, <1>3 DEF Present, WalkOK
    <2> QED
      BY <1>1, <1>4, <2>1
  <1>6. CASE e[2] = "dir"
    <2> DEFINE w == Push(walk, l, e[1])
    <2>1. GoOn(w) /\ UNCHANGED fs
      BY <1>1, <1>6 DEF ReadEntry, Push, dataVars
    <2>2. w = Rec(walk.mode, walk.root, d, Append(S, e[1]), l, walk.at, walk.sb, walk.upto)
      BY <1>2, PartsFact
    <2>3. w.at = "read" /\ w.stack = Append(S, e[1]) /\ w.dir = d /\ w.listing = l
      <3> DEFINE T == Append(S, e[1])
      <3>1. w = Rec(walk.mode, walk.root, d, T, l, "read", walk.sb, walk.upto)
        BY <1>1, <2>2
      <3> HIDE DEF w, l, T
      <3>2. w.at = "read" /\ w.stack = T /\ w.dir = d /\ w.listing = l
        BY <3>1, RecParts
      <3> QED
        BY <3>2 DEF T
    <2>4. Rests(fs, job.dst, Append(S, e[1]), d, l)
      BY <1>1, <1>2, <1>3, <1>4, <1>6, RestsPush DEF Branch
    <2>5. Present(fs, w)
      <3>1. \A i \in DOMAIN Append(S, e[1]) : Append(S, e[1])[i] = e[1] \/ (i \in DOMAIN S /\ Append(S, e[1])[i] = S[i])
        BY <1>2
      <3> HIDE DEF w
      <3> QED
        BY <1>5, <2>3, <3>1 DEF Present
    <2>6. Tidy(fs, job.dst, w)
      <3> HIDE DEF w
      <3> QED
        BY <1>3, <2>3, <2>4, <2>5 DEF Tidy
    <2> QED
      BY <1>1, <1>2, <2>1, <2>6 DEF GoOn, Kept
  <1>7. CASE e[2] # "dir"
    <2> DEFINE w == SetListing(walk, l)
    <2>1. PICK r \in {"ok", "error"} : Callback(e[1], e[2], r) /\ IF r = "ok" THEN GoOn(w) ELSE Leave("error")
      BY <1>1, <1>2, <1>7 DEF ReadEntry, Dispatch, SetListing
    <2>2. Kids(e[1]) = {} /\ Rests(Without(fs, e[1]), job.dst, S, d, l)
      BY <1>2, <1>3, <1>4, <1>7, RestsFile DEF Kids
    <2>3. r = "ok" /\ fs' = Without(fs, e[1])
      BY <1>4, <2>1, <2>2, RemoveWorks
    <2>4. w = Rec(walk.mode, walk.root, d, S, l, walk.at, walk.sb, walk.upto)
      BY <1>2, PartsFact
    <2>5. w.at = "read" /\ w.stack = S /\ w.dir = d /\ w.listing = l
      <3> HIDE DEF w, l
      <3> QED
        BY <1>1, <2>4, RecParts
    <2>6. DOMAIN fs' = DOMAIN fs \ {e[1]} /\ \A q \in DOMAIN fs' : fs'[q] = fs[q]
      BY <2>3 DEF Without
    <2>7. Present(fs', w)
      <3> HIDE DEF w
      <3> QED
        BY <1>5, <2>5, <2>6 DEF Present
    <2>8. Branch(fs', job.dst, d)
      BY <1>3, <1>4, <1>7, <2>6 DEF Branch
    <2>9. Tidy(fs', job.dst, w)
      <3> HIDE DEF w
      <3> QED
        BY <2>2, <2>3, <2>5, <2>7, <2>8 DEF Tidy
    <2> QED
      BY <1>1, <1>2, <2>1, <2>3, <2>9 DEF GoOn, Kept
  <1> QED
    BY <1>6, <1>7

\* The walk goes on with the last directory of its list, ...
LEMMA TidyEnter ==
  ASSUME Types, pc = "remove", walk.stack # <<>>, NEW f, NEW r, Dirname(Last(walk.stack)) \in Path,
         Rests(f, r, walk.stack, Dirname(Last(walk.stack)), {})
  PROVE  Tidy(f, r, Enter(walk.mode, walk.root, Last(walk.stack), Front(walk.stack)))
  <1> DEFINE next == Last(walk.stack)
             s == Front(walk.stack)
             w == Enter(walk.mode, walk.root, next, s)
  <1>1. w = Rec(walk.mode, walk.root, next, s, {}, IF ListsDirs(walk.mode) THEN "enter" ELSE "open", next, -1)
    BY PopFact DEF Types
  <1>2. w.at = "open" /\ w.stack = s /\ w.dir = next
    BY <1>1, RecParts DEF Types, Control, ListsDirs
  <1>3. Append(s, next) = walk.stack
    BY LastOfSeq DEF Types, WalkOK
  <1> HIDE DEF w
  <1> QED
    BY <1>2, <1>3 DEF Tidy, w

\* ... when it is done with the one it is in, which it may have to remove, ...
LEMMA TidyNextDir ==
  ASSUME Types, pc = "remove", faults = 0, faults' = 0, Tidy(fs, job.dst, walk), NextDir
  PROVE  Kept
  <1> DEFINE d == walk.dir
             S == walk.stack
             next == Last(S)
             c == Dirname(next)
             w == Enter(walk.mode, walk.root, next, Front(S))
  <1>1. walk.at = "read" /\ walk.listing = {} /\ UNCHANGED job
    BY DEF NextDir
  <1>2. WalkOK(walk) /\ d \in Path /\ S \in Seq(Path) /\ job.dst \in Path /\ job.dst # <<>> /\ IsTree(fs) /\ result = "ok"
        /\ walk.mode = "do_rmdirr" /\ walk.root = job.dst
    BY JobFact DEF Types, Control, WalkOK, FsOK
  <1>3. Rests(fs, job.dst, S, d, {}) /\ Branch(fs, job.dst, d)
    BY <1>1 DEF Tidy
  <1>4. CASE S = <<>>
    <2> DEFINE v == GoesUp(walk, d, -1)
    <2>1. GoOn(v) /\ UNCHANGED fs
      BY <1>2, <1>4 DEF NextDir, GoesUp, dataVars
    <2>2. v = Rec(walk.mode, walk.root, d, S, walk.listing, "up", d, -1)
      BY <1>2, PartsFact
    <2>3. v.at = "up" /\ v.sb = d /\ v.upto = -1
      BY <2>2, RecParts
    <2>4. Tidy(fs, job.dst, v)
      <3> HIDE DEF v
      <3> QED
        BY <1>3, <1>4, <2>3 DEF Tidy
    <2> QED
      BY <1>1, <1>2, <2>1, <2>4 DEF GoOn, Kept
  <1>5. CASE S # <<>>
    <2>1. /\ next \in Path /\ Len(S) \in DOMAIN S /\ next = S[Len(S)] /\ c \in Path
          /\ w = Rec(walk.mode, walk.root, next, Front(S), {}, "open", next, -1)
          /\ Append(Front(S), next) = S
      BY <1>2, <1>5, PopFact, LastOfSeq, DirFact DEF ListsDirs, Dirname
    <2>2. Under(d, c)
      BY <1>3, <2>1 DEF Rests
    <2>3. TextLen(d) = TextLen(c) => d = c
      BY <1>2, <2>1, <2>2, LengthTells
    <2>4. CASE TextLen(d) = TextLen(c)
      <3>1. GoOn(w) /\ UNCHANGED fs
        BY <1>2, <1>5, <2>4 DEF NextDir, dataVars
      <3>2. Rests(fs, job.dst, S, c, {})
        BY <1>3, <2>3, <2>4
      <3>3. Tidy(fs, job.dst, w)
        BY <1>5, <2>1, <3>2, TidyEnter
      <3> QED
        BY <1>1, <1>2, <3>1, <3>3 DEF GoOn, Kept
    <2>5. CASE TextLen(d) # TextLen(c) /\ TextLen(Dirname(d)) = TextLen(c)
      <3>1. PICK r \in {"ok", "error"} : Callback(d, "dir", r) /\ IF r = "ok" THEN GoOn(w) ELSE Leave("error")
        BY <1>2, <1>5, <2>5 DEF NextDir, Dispatch
      <3>2. c # d
        BY <2>5
      <3>3. KidsIn(fs, d) = {} /\ Rests(Without(fs, d), job.dst, S, Dirname(d), {})
        BY <1>2, <1>3, <2>1, <3>2, RestsRise
      <3>4. r = "ok" /\ fs' = Without(fs, d)
        BY <1>3, <3>1, <3>3, RemoveWorks DEF Branch, Kids
      <3>5. Dirname(d) = c
        <4>1. Dirname(d) \in Path /\ Under(Dirname(d), c)
          BY <1>2, <2>1, <2>2, <3>2, UpFact DEF Dirname
        <4> QED
          BY <2>1, <2>5, <4>1, LengthTells
      <3>6. Tidy(fs', job.dst, w)
        BY <1>5, <2>1, <3>3, <3>4, <3>5, TidyEnter
      <3> QED
        BY <1>1, <1>2, <3>1, <3>4, <3>6 DEF GoOn, Kept
    <2>6. CASE TextLen(d) # TextLen(c) /\ TextLen(Dirname(d)) # TextLen(c)
      <3> DEFINE v == GoesUp(w, d, TextLen(c))
      <3>1. GoOn(v) /\ UNCHANGED fs
        BY <1>2, <1>5, <2>6 DEF NextDir, GoesUp, dataVars
      <3>2. v = Rec(walk.mode, walk.root, next, Front(S), {}, "up", d, TextLen(c))
        <4> HIDE DEF w, next, S, d, c
        <4> QED
          BY <2>1, RecFact
      <3>3. v.at = "up" /\ v.sb = d /\ v.upto = TextLen(c) /\ v.dir = next /\ v.stack = Front(S)
        BY <3>2, RecParts
      <3>4. Tidy(fs, job.dst, v)
        <4>1. c # d
          BY <2>6
        <4> HIDE DEF v, w, S, d
        <4> QED
          BY <1>3, <2>1, <3>3, <4>1 DEF Tidy
      <3> QED
        BY <1>1, <1>2, <3>1, <3>4 DEF GoOn, Kept
    <2> QED
      BY <2>4, <2>5, <2>6
  <1> QED
    BY <1>4, <1>5

\* ... or more of them than that one.
LEMMA TidyUnwind ==
  ASSUME Types, pc = "remove", faults = 0, faults' = 0, Tidy(fs, job.dst, walk), Unwind
  PROVE  Kept
  <1> DEFINE b == walk.sb
             c == Dirname(b)
             S == IF walk.upto = -1 THEN <<>> ELSE Append(walk.stack, walk.dir)
             a == IF TextLen(c) = walk.upto THEN "open" ELSE "up"
             w == Leaves(walk, c, a)
  <1>1. walk.at = "up" /\ UNCHANGED job
    BY DEF Unwind
  <1>2. WalkOK(walk) /\ b \in Path /\ walk.dir \in Path /\ walk.stack \in Seq(Path) /\ job.dst \in Path /\ job.dst # <<>>
        /\ IsTree(fs) /\ result = "ok" /\ walk.mode = "do_rmdirr" /\ walk.root = job.dst
        /\ Dirname(walk.dir) \in Path /\ c \in Path
    BY JobFact, DirFact DEF Types, Control, WalkOK, FsOK, Dirname
  <1>3. TextLen(c) \in Nat /\ TextLen(Dirname(walk.dir)) \in Nat /\ TextLen(c) # -1 /\ TextLen(Dirname(walk.dir)) # -1
    <2>1. TextLen(c) \in Nat /\ TextLen(Dirname(walk.dir)) \in Nat
      BY <1>2, UnderIsOrder, LengthTells
    <2> QED
      BY <2>1
  <1>4. /\ Branch(fs, job.dst, b) /\ Rests(fs, job.dst, S, b, {})
        /\ walk.upto # -1 => walk.upto = TextLen(Dirname(walk.dir)) /\ Dirname(walk.dir) # b
    BY <1>1, <1>3 DEF Tidy
  <1>5. S \in Seq(Path) /\ (S = <<>> \/ (walk.upto # -1 /\ S[Len(S)] = walk.dir /\ Len(S) \in DOMAIN S))
    BY <1>2
  <1>6. PICK r \in {"ok", "error"} :
          /\ Callback(b, "dir", r)
          /\ IF r = "error" THEN Leave("error")
             ELSE IF TextLen(b) = TextLen(walk.root) THEN Leave("ok") ELSE GoOn(w)
    BY DEF Unwind, Leaves
  <1>7. /\ KidsIn(fs, b) = {} /\ Rests(Without(fs, b), job.dst, S, c, {})
        /\ b # job.dst => Branch(Without(fs, b), job.dst, c)
    <2> HIDE DEF S, b
    <2> QED
      BY <1>2, <1>4, <1>5, RestsRise
  <1>8. r = "ok" /\ fs' = Without(fs, b)
    BY <1>4, <1>6, <1>7, RemoveWorks DEF Branch, Kids
  <1>9. CASE TextLen(b) = TextLen(walk.root)
    <2>1. Leave("ok")
      BY <1>6, <1>8, <1>9
    <2>2. pc' = "parent" /\ UNCHANGED result
      BY <2>1, LeaveFact DEF Walking
    <2> QED
      BY <1>2, <2>2 DEF Kept
  <1>10. CASE TextLen(b) # TextLen(walk.root)
    <2>1. GoOn(w) /\ b # job.dst
      BY <1>2, <1>6, <1>8, <1>10
    <2>2. w = Rec(walk.mode, walk.root, walk.dir, walk.stack, walk.listing, a, c, walk.upto)
      BY <1>2, PartsFact
    <2>3. w.at = a /\ w.sb = c /\ w.dir = walk.dir /\ w.stack = walk.stack /\ w.upto = walk.upto
      BY <2>2, RecParts
    <2>4. walk.upto # -1 => Under(c, Dirname(walk.dir))
      <3>1. walk.upto # -1 => S[Len(S)] = walk.dir /\ Len(S) \in DOMAIN S
        BY <1>2
      <3> HIDE DEF S
      <3> QED
        BY <1>7, <3>1 DEF Rests
    <2>5. Tidy(fs', job.dst, w)
      <3>1. CASE TextLen(c) = walk.upto
        <4>1. walk.upto # -1 /\ a = "open" /\ S = Append(walk.stack, walk.dir)
          BY <1>3, <3>1
        <4>2. c = Dirname(walk.dir)
          BY <1>2, <1>4, <2>4, <3>1, <4>1, LengthTells
        <4> HIDE DEF w, S, a
        <4> QED
          BY <1>7, <1>8, <2>3, <4>1, <4>2 DEF Tidy
      <3>2. CASE TextLen(c) # walk.upto
        <4>1. a = "up" /\ (walk.upto = -1 => S = <<>>) /\ (walk.upto # -1 => S = Append(walk.stack, walk.dir))
          BY <3>2
        <4>2. walk.upto # -1 => Dirname(walk.dir) # c
          BY <1>4, <3>2
        <4> HIDE DEF w, S, a, c
        <4> QED
          BY <1>4, <1>7, <1>8, <2>1, <2>3, <4>1, <4>2 DEF Tidy
      <3> QED
        BY <3>1, <3>2
    <2> QED
      BY <1>1, <1>2, <2>1, <2>5 DEF GoOn, Kept
  <1> QED
    BY <1>9, <1>10

\* What other programs do in the source is not where the walk is.
LEMMA TidyOutside ==
  ASSUME Types, Apart, pc = "remove", Tidy(fs, job.dst, walk), NEW p \in Path, p # <<>>, Outside(p)
  PROVE  Kept
  <1>1. /\ Under(p, job.src) /\ job.src \in Path /\ job.dst \in Path /\ job.dst # <<>> /\ IsTree(fs)
        /\ GoneAt(p) \/ (p \notin DOMAIN fs /\ \E k \in Kind : fs' = With(fs, p, k))
        /\ UNCHANGED <<job, pc, result>> /\ result = "ok"
    BY OutsideTypes, JobFact DEF Types, Control, FsOK, Outside
  <1>2. ~Under(p, job.dst) /\ ~Under(job.dst, p)
    BY <1>1, ApartFact
  <1>3. \A q \in Path : Under(q, job.dst) => q # p /\ ~Under(p, q)
    BY <1>1, <1>2, UnderIsOrder
  <1>4. \A q : q # p => (q \in DOMAIN fs <=> q \in DOMAIN fs') /\ (q \in DOMAIN fs => fs'[q] = fs[q])
    BY <1>1, OneChange DEF GoneAt, With, Without
  <1>5. WalkOK(walk) /\ IsTree(fs') /\ \A q \in DOMAIN fs' : q \in Path
    <2>1. Types'
      BY OutsideTypes
    <2> QED
      BY <2>1, TreeDef DEF Types, FsOK
  <1>6. walk' = walk
    <2>1. \A e \in walk.listing : e[1] # p
      <3> SUFFICES ASSUME NEW e \in walk.listing PROVE e[1] # p
        OBVIOUS
      <3>1. Under(e[1], walk.root) /\ e[1] \in Path /\ walk.root = job.dst
        BY <1>5, UnderRoot DEF Types, Control
      <3> QED
        BY <1>3, <3>1
    <2>2. walk.at = "read" => walk.dir # Front(p)
      <3> SUFFICES ASSUME walk.at = "read", walk.dir = Front(p) PROVE FALSE
        OBVIOUS
      <3>1. Under(Front(p), job.dst)
        BY DEF Tidy, Branch
      <3>2. Front(p) \in Path /\ Under(p, Front(p))
        BY DirFact
      <3> QED
        BY <1>1, <1>2, <3>1, <3>2, UnderIsOrder
    <2>3. SetListing(walk, walk.listing) = walk
      BY <1>5, PartsFact DEF WalkOK
    <2>4. {e \in walk.listing : e[1] # p} = walk.listing
      BY <2>1
    <2>5. [walk EXCEPT !.listing = {e \in @ : e[1] # p}] = walk
      BY <2>3, <2>4 DEF SetListing
    <2>6. \A k : {[walk EXCEPT !.listing = @ \cup {<<p, k>>}] :
                     x \in {d \in {walk.dir} : walk.at = "read" /\ d = Front(p)}} = {}
      BY <2>2
    <2> QED
      BY <2>5, <2>6 DEF Outside
  <1>7. ASSUME NEW L, NEW d, NEW l, Rests(fs, job.dst, L, d, l), \A i \in DOMAIN L : L[i] \in Path
        PROVE  Rests(fs', job.dst, L, d, l)
    <2>1. \A i \in DOMAIN L : L[i] \in DOMAIN fs' /\ fs'[L[i]] = "dir"
      BY <1>3, <1>4, <1>7 DEF Rests
    <2>2. \A q \in DOMAIN fs' : Under(q, job.dst) => q \in DOMAIN fs
      BY <1>3, <1>4, <1>5
    <2> QED
      BY <1>7, <2>1, <2>2 DEF Rests
  <1>8. ASSUME NEW d \in Path, Branch(fs, job.dst, d)
        PROVE  Branch(fs', job.dst, d)
    BY <1>3, <1>4, <1>8 DEF Branch
  <1>9. ASSUME Present(fs, walk)
        PROVE  Present(fs', walk)
    <2>1. \A e \in walk.listing : Under(e[1], job.dst) /\ e[1] \in Path
      BY <1>5, UnderRoot DEF Types, Control
    <2> QED
      BY <1>3, <1>4, <1>9, <2>1 DEF Present
  <1>10. /\ walk.dir \in Path /\ walk.sb \in Path
         /\ \A i \in DOMAIN walk.stack : walk.stack[i] \in Path
         /\ \A i \in DOMAIN Append(walk.stack, walk.dir) : Append(walk.stack, walk.dir)[i] \in Path
         /\ \A i \in DOMAIN <<>> : (<<>>)[i] \in Path
    BY <1>5 DEF WalkOK
  <1>11. Tidy(fs', job.dst, walk)
    <2>1. CASE walk.at = "open"
      BY <1>7, <1>10, <2>1 DEF Tidy
    <2>2. CASE walk.at = "read"
      BY <1>7, <1>8, <1>9, <1>10, <2>2 DEF Tidy
    <2>3. CASE walk.at = "up"
      BY <1>7, <1>8, <1>10, <2>3 DEF Tidy
    <2> QED
      BY <2>1, <2>2, <2>3 DEF Tidy
  <1> QED
    BY <1>1, <1>6, <1>11 DEF Kept

\* The walks before and after it do not die, and are not followed by a removal.
LEMMA OtherWalkLeaves ==
  ASSUME Types, WalkStep, pc # "remove"
  PROVE  pc' \notin {"unlink", "remove"} /\ result' # "died"
  <1>1. Walking /\ pc # "unlink" /\ result = "ok"
    <2>1. Walking
      BY WalkStepTypes DEF WalkEffect
    <2> QED
      BY <2>1 DEF Walking, Types, Control
  <1>2. ASSUME NEW r \in {"ok", "error"}, Leave(r)
        PROVE  pc' \notin {"unlink", "remove"} /\ result' # "died"
    BY <1>1, <1>2, LeaveFact
  <1>3. ASSUME NEW w, GoOn(w)
        PROVE  pc' \notin {"unlink", "remove"} /\ result' # "died"
    BY <1>1, <1>3 DEF GoOn
  <1>4. ASSUME NEW p, NEW k, NEW w, Dispatch(p, k, w)
        PROVE  pc' \notin {"unlink", "remove"} /\ result' # "died"
    <2>1. GoOn(w) \/ Leave("error")
      BY <1>4 DEF Dispatch
    <2> QED
      BY <1>2, <1>3, <2>1
  <1>5. CASE EnterDir
    BY <1>4, <1>5 DEF EnterDir
  <1>6. CASE OpenDir
    <2>1. Leave("error") \/ \E w : GoOn(w)
      BY <1>6 DEF OpenDir
    <2> QED
      BY <1>2, <1>3, <2>1
  <1>7. CASE NextDir
    <2>1. Leave("ok") \/ (\E w : GoOn(w)) \/ \E w : Dispatch(walk.dir, "dir", w)
      BY <1>7 DEF NextDir
    <2> QED
      BY <1>2, <1>3, <1>4, <2>1
  <1>8. CASE Unwind
    <2>1. Leave("ok") \/ Leave("error") \/ \E w : GoOn(w)
      BY <1>8 DEF Unwind
    <2> QED
      BY <1>2, <1>3, <2>1
  <1>9. ASSUME NEW e \in walk.listing, ReadEntry(e[1], e[2])
        PROVE  pc' \notin {"unlink", "remove"} /\ result' # "died"
    <2>1. (\E w : GoOn(w)) \/ \E w : Dispatch(e[1], e[2], w)
      BY <1>9 DEF ReadEntry
    <2> QED
      BY <1>3, <1>4, <2>1
  <1>10. ASSUME NEW e \in walk.listing, EntryFails(e[1], e[2])
         PROVE  pc' \notin {"unlink", "remove"} /\ result' # "died"
    <2>1. Leave("error") \/ End("bug")
      BY <1>10 DEF EntryFails
    <2> QED
      BY <1>2, <2>1 DEF End
  <1>11. ASSUME NEW e \in walk.listing, OpenFifo(e[1], e[2])
         PROVE  pc' \notin {"unlink", "remove"} /\ result' # "died"
    <2>1. \E w : GoOn(w)
      BY <1>11 DEF OpenFifo
    <2> QED
      BY <1>3, <2>1
  <1>12. CASE ReadFails
    BY <1>3, <1>12 DEF ReadFails
  <1> QED
    BY <1>5, <1>6, <1>7, <1>8, <1>9, <1>10, <1>11, <1>12 DEF WalkStep

\* The removal begins with the whole tree before it.
LEMMA TidyBegins ==
  ASSUME Types, pc = "unlink", faults = 0, faults' = 0, job.dst \in DOMAIN fs, FlexRemove
  PROVE  Kept
  <1>1. /\ job.dst \in Path /\ job.dst # <<>> /\ result = "ok" /\ "do_rmdirr" \in Mode /\ IsTree(fs)
        /\ UNCHANGED job
    BY JobFact DEF Types, Control, FsOK, Mode, FlexRemove
  <1>2. ~FailsIf(job.dst \notin DOMAIN fs)
    BY DEF FailsIf, Fault
  <1>3. CASE pc' = "parent" /\ UNCHANGED result
    BY <1>1, <1>3 DEF Kept
  <1>4. CASE /\ IsDir(job.dst) /\ pc' = "remove" /\ UNCHANGED <<fs, result>>
             /\ Begin("do_rmdirr", job.dst)
    <2> DEFINE d == job.dst
               c == Dirname(d)
               S == <<>>
               L == Append(S, d)
    <2>1. walk' = Rec("do_rmdirr", d, d, S, {}, "open", d, -1)
      BY <1>1, <1>4, BeginFact DEF Begin, ListsDirs
    <2>2. walk'.at = "open" /\ walk'.stack = S /\ walk'.dir = d
      <3> HIDE DEF d, S
      <3> QED
        BY <2>1, RecParts
    <2>3. DOMAIN L = {1} /\ L[1] = d
      OBVIOUS
    <2>4. c \in Path /\ Under(d, c) /\ c # d /\ Under(c, c) /\ Under(d, d) /\ ~Under(c, d)
      <3>1. c \in Path /\ Under(d, c) /\ c # d
        BY <1>1, DirFact DEF Dirname
      <3> QED
        BY <1>1, <3>1, UnderIsOrder
    <2>5. d \in DOMAIN fs /\ fs[d] = "dir"
      BY <1>4 DEF IsDir, IsA
    <2>6. Rests(fs, d, L, c, {})
      <3> HIDE DEF L
      <3>1. \A i \in DOMAIN L : L[i] \in DOMAIN fs /\ fs[L[i]] = "dir" /\ Under(L[i], d) /\ Under(c, Dirname(L[i])) /\ ~Under(c, L[i])
        BY <2>3, <2>4, <2>5
      <3>2. \A i \in DOMAIN L, j \in DOMAIN L : ~(j < i)
        BY <2>3
      <3>3. \A q \in DOMAIN fs : Under(q, d) => \E i \in DOMAIN L : Under(q, L[i])
        BY <2>3
      <3> QED
        BY <3>1, <3>2, <3>3 DEF Rests
    <2>7. Tidy(fs', job.dst, walk')
      <3> HIDE DEF c
      <3> QED
        BY <1>4, <2>2, <2>6 DEF Tidy, c
    <2> QED
      BY <1>1, <1>4, <2>7 DEF Kept
  <1> QED
    BY <1>2, <1>3, <1>4 DEF FlexRemove, Goto

LEMMA RemovingStep ==
  ASSUME Types, Removing, [Next]_vars
  PROVE  Removing'
  <1>0. UNCHANGED job /\ Apart' = Apart
    BY FsStepFact DEF Apart
  <1> SUFFICES ASSUME Apart, faults' = 0
               PROVE  /\ pc' = "unlink" => job.dst \in DOMAIN fs'
                      /\ pc' = "remove" => Tidy(fs', job.dst, walk')
                      /\ result' = "died" => ~job.force
    BY <1>0 DEF Removing
  <1> DEFINE Goal == /\ pc' = "unlink" => job.dst \in DOMAIN fs'
                     /\ pc' = "remove" => Tidy(fs', job.dst, walk')
                     /\ result' = "died" => ~job.force
  <1>1. Kept => Goal
    BY DEF Kept
  <1>2. CASE UNCHANGED faults
    <2>0. /\ faults = 0
          /\ pc = "unlink" => job.dst \in DOMAIN fs
          /\ pc = "remove" => Tidy(fs, job.dst, walk)
          /\ result = "died" => ~job.force
          /\ pc \notin {"join", "over"} => result = "ok"
      BY <1>2 DEF Removing, Types, Control
    <2>1. CASE UNCHANGED vars
      BY <2>0, <2>1 DEF vars
    <2>2. CASE WalkStep /\ pc = "remove"
      <3>1. ASSUME OpenDir PROVE Goal
        BY <1>1, <2>0, <2>2, <3>1, TidyOpenDir
      <3>2. ASSUME NextDir PROVE Goal
        BY <1>1, <2>0, <2>2, <3>2, TidyNextDir
      <3>3. ASSUME Unwind PROVE Goal
        BY <1>1, <2>0, <2>2, <3>3, TidyUnwind
      <3>4. ASSUME NEW e \in walk.listing, ReadEntry(e[1], e[2])
            PROVE  Goal
        BY <1>1, <2>0, <2>2, <3>4, TidyReadEntry
      <3>5. ASSUME NEW e \in walk.listing, EntryFails(e[1], e[2])
            PROVE  FALSE
        <4>1. walk.mode = "do_rmdirr"
          BY <2>2 DEF Types, Control
        <4> QED
          BY <2>0, <3>5, <4>1 DEF EntryFails, Fault
      <3>6. ~EnterDir /\ \A e \in walk.listing : ~OpenFifo(e[1], e[2])
        <4>1. walk.mode = "do_rmdirr" /\ (walk.at = "enter" => walk.mode # "do_rmdirr")
          BY <2>2 DEF Types, Control, WalkOK
        <4> QED
          BY <4>1 DEF EnterDir, OpenFifo
      <3>7. ~ReadFails
        BY <2>0 DEF ReadFails, Fault
      <3> HIDE DEF Goal
      <3>8. Goal
        BY <2>2, <3>1, <3>2, <3>3, <3>4, <3>5, <3>6, <3>7 DEF WalkStep
      <3> QED
        BY <3>8 DEF Goal
    <2>3. CASE WalkStep /\ pc # "remove"
      BY <2>3, OtherWalkLeaves
    <2>4. CASE Access
      BY <2>0, <2>4 DEF Access, Goto, End
    <2>5. CASE FlexRemove
      <3>1. pc = "unlink"
        BY <2>5 DEF FlexRemove
      <3> QED
        BY <1>1, <2>0, <2>5, <3>1, TidyBegins
    <2>6. CASE MakeParents
      BY <2>0, <2>6 DEF MakeParents, End
    <2>7. CASE Join
      BY <2>7 DEF Join, End
    <2>8. CASE Stat
      BY <2>0, <2>8 DEF Stat, End
    <2>9. ASSUME NEW e \in queue, WorkerCopies(e[1], e[2]) \/ WorkerBlocks(e[1], e[2])
          PROVE  Goal
      <3>1. pc \in {"files", "join"} /\ UNCHANGED <<pc, result>>
        BY <2>9 DEF WorkerCopies, WorkerBlocks, Types, Control
      <3> QED
        BY <2>0, <3>1
    <2>10. ASSUME NEW d \in DOMAIN fs, NEW x \in Name, Outside(Append(d, x))
           PROVE  Goal
      <3> DEFINE p == Append(d, x)
      <3>1. p \in Path /\ p # <<>>
        BY TreeDef DEF Types, FsOK, Path
      <3> HIDE DEF p
      <3>2. Outside(p)
        BY <2>10 DEF p
      <3>3. UNCHANGED <<job, pc, result>>
        BY <3>2 DEF Outside
      <3>4. CASE pc = "remove"
        BY <1>1, <2>0, <3>1, <3>2, <3>4, TidyOutside
      <3>5. CASE pc = "unlink"
        <4>1. Under(p, job.src) /\ job.src \in Path /\ job.dst \in Path
          BY <3>1, <3>2, OutsideTypes, JobFact DEF Types, Control
        <4>2. p # job.dst
          BY <3>1, <4>1, ApartFact, UnderIsOrder
        <4>3. job.dst \in DOMAIN fs'
          BY <2>0, <3>2, <3>5, <4>2 DEF Outside, With, Without
        <4> QED
          BY <2>0, <3>3, <3>5, <4>3
      <3>6. CASE pc \notin {"remove", "unlink"}
        BY <2>0, <3>3, <3>6
      <3> QED
        BY <3>4, <3>5, <3>6
    <2> HIDE DEF Goal
    <2>11. Goal
      BY <2>1, <2>2, <2>3, <2>4, <2>5, <2>6, <2>7, <2>8, <2>9, <2>10 DEF Next, CommandStep, Running, Done, Goal
    <2> QED
      BY <2>11 DEF Goal
  <1>3. UNCHANGED faults
    <2>1. faults \in Nat
      BY DEF Types, Troubles
    <2>2. UNCHANGED faults \/ faults' = faults + 1
      BY FaultsGrow
    <2> QED
      BY <2>1, <2>2
  <1> QED
    BY <1>2, <1>3

LEMMA RemovingSpec == Spec => []Removing
  <1>1. Init => Removing
    BY DEF Init, Removing
  <1>2. Types /\ Removing /\ [Next]_vars => Removing'
    BY RemovingStep
  <1> QED
    BY <1>1, <1>2, TypesSpec, PTL DEF Spec

\* Removing a tree of any shape reaches every directory after all it holds, once: rmdirr()
\* (commands/copy.c) fails only if a system call does, however deep the tree and whatever the
\* lengths of its names, by which the walk tells the directories it is done with.
THEOREM RemovalSound == Spec => []RemovalHasCause
  <1>1. Types /\ Removing => RemovalHasCause
    BY DEF Types, Troubles, Removing, RemovalHasCause
  <1> QED
    BY <1>1, TypesSpec, RemovingSpec, PTL

-----------------------------------------------------------------------------
(* What sizeof adds up. *)

Weight(k) == IF Size[k] = 0 THEN SizeOfEmpty ELSE Size[k]
Weights(f, S) == [p \in S |-> Weight(f[p])]

\* MapThenSumSet() as the fold it is.
Summed(g, F, f) ==
  g = [s \in SUBSET F |-> IF s = {} THEN 0
                          ELSE LET x == CHOOSE x \in s : TRUE IN Weight(f[x]) + g[s \ {x}]]
LEMMA SumFold ==
  ASSUME NEW F
  PROVE  MapThenSumSet(LAMBDA p : IF Size[fs[p]] = 0 THEN SizeOfEmpty ELSE Size[fs[p]], F) =
           (CHOOSE g : Summed(g, F, fs))[F]
  BY DEF MapThenSumSet, MapThenFoldSet, Summed, Weight

\* It is the sum of the weights, however they are added up.
LEMMA SumFact ==
  ASSUME NEW U, IsFiniteSet(U), NEW w, NEW t, Sums(t, U, w), NEW F, F \subseteq U, NEW f,
         \A x \in F : w[x] = Weight(f[x]) /\ w[x] \in Nat
  PROVE  (CHOOSE g : Summed(g, F, f))[F] = t[F]
  <1> DEFINE c == [s \in SUBSET F |-> CHOOSE x \in s : TRUE]
             v == [s \in SUBSET F |-> t[s]]
  <1>1. Chooses(c, F)
    BY DEF Chooses
  <1>2. IsFiniteSet(F)
    BY FS_Subset
  <1>3. Sums(v, F, w)
    <2>1. v \in [SUBSET F -> Nat] /\ v[{}] = 0
      BY DEF Sums
    <2>2. ASSUME NEW s \in SUBSET F, NEW x \in F \ s PROVE v[s \cup {x}] = v[s] + w[x]
      <3>1. s \in SUBSET U /\ x \in U \ s /\ s \cup {x} \in SUBSET F
        OBVIOUS
      <3> QED
        BY <3>1 DEF Sums
    <2> HIDE DEF v
    <2> QED
      BY <2>1, <2>2 DEF Sums
  <1>4. Summed(v, F, f)
    <2>1. Folds(v, F, c, w)
      <3> HIDE DEF v, c
      <3> QED
        BY <1>1, <1>3, SumFolds
    <2>2. ASSUME NEW s \in SUBSET F, s # {}
          PROVE  v[s] = Weight(f[c[s]]) + v[s \ {c[s]}]
      <3>1. c[s] \in s
        BY <1>1, <2>2 DEF Chooses
      <3> HIDE DEF v, c
      <3>2. v[s] = v[s \ {c[s]}] + w[c[s]]
        BY <2>1, <2>2 DEF Folds
      <3>3. v[s \ {c[s]}] \in Nat /\ w[c[s]] \in Nat /\ w[c[s]] = Weight(f[c[s]])
        <4>1. s \ {c[s]} \in SUBSET F
          OBVIOUS
        <4> QED
          BY <1>3, <3>1, <4>1 DEF Sums
      <3> QED
        BY <3>2, <3>3
    <2>3. v[{}] = 0
      BY DEF Sums
    <2>4. \A s \in SUBSET F : c[s] = CHOOSE x \in s : TRUE
      OBVIOUS
    <2>5. v = [s \in SUBSET F |-> v[s]]
      OBVIOUS
    <2> HIDE DEF v, c
    <2> QED
      BY <2>2, <2>3, <2>4, <2>5 DEF Summed
  <1> DEFINE h == CHOOSE g : Summed(g, F, f)
  <1>5. Summed(h, F, f)
    <2>1. \E g : Summed(g, F, f)
      BY <1>4
    <2> QED
      BY <2>1, Zenon
  <1> HIDE DEF h
  <1>6. \A n \in Nat : n \in {k \in Nat : \A s \in SUBSET F : Cardinality(s) = k => h[s] = v[s]}
    <2> DEFINE T == {k \in Nat : \A s \in SUBSET F : Cardinality(s) = k => h[s] = v[s]}
    <2>1. 0 \in T
      <3> SUFFICES ASSUME NEW s \in SUBSET F, Cardinality(s) = 0 PROVE h[s] = v[s]
        OBVIOUS
      <3>1. s = {}
        BY <1>2, FS_Subset, FS_EmptySet
      <3> HIDE DEF v
      <3> QED
        BY <1>4, <1>5, <3>1 DEF Summed
    <2>2. ASSUME NEW n \in Nat, n \in T PROVE n + 1 \in T
      <3> HIDE DEF v
      <3> SUFFICES ASSUME NEW s \in SUBSET F, Cardinality(s) = n + 1 PROVE h[s] = v[s]
        OBVIOUS
      <3>1. s # {} /\ IsFiniteSet(s)
        BY <1>2, FS_Subset, FS_EmptySet
      <3> DEFINE x == CHOOSE x \in s : TRUE
      <3>2. x \in s
        BY <3>1
      <3>3. h[s] = Weight(f[x]) + h[s \ {x}] /\ v[s] = Weight(f[x]) + v[s \ {x}]
        BY <1>4, <1>5, <3>1 DEF Summed
      <3> HIDE DEF x
      <3>4. Cardinality(s \ {x}) = n /\ s \ {x} \in SUBSET F
        <4>1. Cardinality(s \ {x}) = Cardinality(s) - 1
          BY <3>1, <3>2, FS_RemoveElement
        <4> QED
          BY <4>1
      <3>5. h[s \ {x}] = v[s \ {x}]
        BY <2>2, <3>4
      <3> QED
        BY <3>3, <3>5
    <2> HIDE DEF T
    <2>3. Nat \subseteq T
      BY <2>1, <2>2, NatSetInduction
    <2> QED
      BY <2>3 DEF T
  <1>7. Cardinality(F) \in Nat
    BY <1>2, FS_CardinalityType
  <1>8. h[F] = v[F]
    <2> HIDE DEF v
    <2> QED
      BY <1>6, <1>7
  <1> QED
    BY <1>8 DEF h

\* The entries in D, of all those in S, have been added up: f tells what each is.
DirsOf(f, D) == {p \in D : f[p] = "dir"}
FilesOf(f, D) == {p \in D : f[p] # "dir"}
Added(f, S, i, D) ==
  /\ i.dirs = Cardinality(DirsOf(f, D))
  /\ i.files = Cardinality(FilesOf(f, D)) + 1
  /\ \A t : Sums(t, S, Weights(f, S)) => i.size = Size["dir"] + t[FilesOf(f, D)]

\* What the walk is about to take for a directory is one, and the entries it has found are
\* there, as what it has found.
Sure(f, w) ==
  /\ w.at = "enter" => w.dir \in DOMAIN f /\ f[w.dir] = "dir"
  /\ \A i \in DOMAIN w.stack : w.stack[i] \in DOMAIN f /\ f[w.stack[i]] = "dir"
  /\ \A e \in w.listing : e[1] \in DOMAIN f /\ f[e[1]] = e[2]

\* L hides some of the source's entries; the walk has added up what is neither hidden nor
\* pending.
Heard(L) == {p \in Original : <<p, "unread">> \notin L}
Passed(w, L) == {p \in Heard(L) : ~PendingIn(w, p)}
SizedTo(w, i, L) ==
  /\ w.at \in {"enter", "open", "read"}
  /\ Once(w) /\ Sure(fs, w)
  /\ \A p \in Original : PendingIn(w, p) => <<p, "unread">> \notin L
  /\ Added(job.was, Original, i, Passed(w, L))

Adding ==
  changed = {} /\ job.cmd = "sizeof" =>
    /\ fs = job.was
    /\ pc = "stat" => lost = {}
    /\ pc = "sizeof" => IsDir(job.src) /\ SizedTo(walk, info, lost)
    /\ pc = "over" /\ result = "ok" /\ IsDir(job.src) => Added(job.was, Original, info, Heard(lost))

\* How a step of the walk keeps it.
SizeKept ==
  /\ UNCHANGED <<job, fs>>
  /\ \/ pc' = "sizeof" /\ SizedTo(walk', info', lost')
     \/ pc' = "over" /\ (result' = "ok" => Added(job.was, Original, info', Heard(lost')))

\* The source is finite, and its entries have weights.
LEMMA OriginalFact ==
  ASSUME job \in Jobs
  PROVE  /\ IsFiniteSet(Original)
         /\ \A p \in Original : /\ p \in Path /\ p \in DOMAIN job.was /\ job.was[p] \in Kind /\ Under(p, job.src)
                                /\ Weights(job.was, Original)[p] = Weight(job.was[p])
                                /\ Weights(job.was, Original)[p] \in Nat
  <1>1. IsFiniteSet(DOMAIN job.was) /\ IsTree(job.was)
    BY FileTreeAssumption
  <1>2. Original \subseteq DOMAIN job.was /\ \A p \in Original : Under(p, job.src)
    BY DEF Original
  <1>3. IsFiniteSet(Original)
    BY <1>1, <1>2, FS_Subset
  <1>4. \A k \in Kind : Weight(k) \in Nat
    BY DEF Weight, Kind, Size, SizeOfEmpty
  <1>5. \A p \in Original : p \in Path /\ job.was[p] \in Kind
    BY <1>1, <1>2, TreeDef
  <1> QED
    BY <1>2, <1>3, <1>4, <1>5 DEF Weights

\* Nothing has been added up.
LEMMA AddNone ==
  ASSUME NEW f, NEW S, NEW i, i = [size |-> Size["dir"], files |-> 1, dirs |-> 0]
  PROVE  Added(f, S, i, {})
  <1>1. DirsOf(f, {}) = {} /\ FilesOf(f, {}) = {} /\ Cardinality({}) = 0
    BY FS_EmptySet DEF DirsOf, FilesOf
  <1>2. i.size = 4 /\ Size["dir"] = 4 /\ i.files = 1 /\ i.dirs = 0
    BY DEF Size
  <1>3. ASSUME NEW t, Sums(t, S, Weights(f, S)) PROVE i.size = Size["dir"] + t[{}]
    <2>1. t[{}] = 0
      BY <1>3 DEF Sums
    <2> QED
      BY <1>2, <2>1
  <1> QED
    BY <1>1, <1>2, <1>3 DEF Added

\* One entry is added.
LEMMA AddOne ==
  ASSUME Types, NEW D \in SUBSET Original, NEW p \in Original, p \notin D,
         Added(job.was, Original, info, D), NEW r, accumsize(p, job.was[p], r),
         NEW E, E = D \cup {p}
  PROVE  Added(job.was, Original, info', E)
  <1> DEFINE f == job.was
             ds == DirsOf(f, D)
             fl == FilesOf(f, D)
  <1>1. /\ IsFiniteSet(Original) /\ f[p] \in Kind
        /\ Weights(f, Original)[p] = Weight(f[p])
    BY OriginalFact DEF Types, Control
  <1>2. /\ IsFiniteSet(ds) /\ IsFiniteSet(fl) /\ ds \subseteq Original /\ fl \subseteq Original
        /\ Cardinality(ds) \in Nat /\ Cardinality(fl) \in Nat /\ p \notin ds /\ p \notin fl
    <2>1. ds \subseteq Original /\ fl \subseteq Original /\ p \notin ds /\ p \notin fl
      BY DEF DirsOf, FilesOf
    <2> QED
      BY <1>1, <2>1, FS_Subset, FS_CardinalityType
  <1>3. info \in [size : Nat, files : Nat, dirs : Nat]
    BY DEF Types, Counted
  <1>4. /\ info.dirs = Cardinality(ds) /\ info.files = Cardinality(fl) + 1
        /\ \A t : Sums(t, Original, Weights(f, Original)) => info.size = Size["dir"] + t[fl]
    BY DEF Added
  <1>5. CASE f[p] = "dir"
    <2>1. DirsOf(f, E) = ds \cup {p} /\ FilesOf(f, E) = fl
      BY <1>5 DEF DirsOf, FilesOf
    <2>2. Cardinality(ds \cup {p}) = Cardinality(ds) + 1
      BY <1>2, FS_AddElement
    <2>3. info'.dirs = info.dirs + 1 /\ info'.files = info.files /\ info'.size = info.size
      BY <1>3, <1>5 DEF accumsize
    <2> HIDE DEF ds, fl, f
    <2>4. Added(f, Original, info', E)
      BY <1>4, <2>1, <2>2, <2>3 DEF Added
    <2> QED
      BY <2>4 DEF f
  <1>6. CASE f[p] # "dir"
    <2>1. DirsOf(f, E) = ds /\ FilesOf(f, E) = fl \cup {p}
      BY <1>6 DEF DirsOf, FilesOf
    <2>2. Cardinality(fl \cup {p}) = Cardinality(fl) + 1
      BY <1>2, FS_AddElement
    <2>3. info'.dirs = info.dirs /\ info'.files = info.files + 1 /\ info'.size = info.size + Weight(f[p])
      BY <1>3, <1>6 DEF accumsize, Weight
    <2>4. Weight(f[p]) \in Nat /\ Size["dir"] \in Nat
      BY <1>1 DEF Weight, Kind, Size, SizeOfEmpty
    <2> HIDE DEF ds, fl, f
    <2>5. ASSUME NEW t, Sums(t, Original, Weights(f, Original))
          PROVE  info'.size = Size["dir"] + t[fl \cup {p}]
      <3>1. t[fl \cup {p}] = t[fl] + Weight(f[p]) /\ t[fl] \in Nat
        <4>1. fl \in SUBSET Original /\ p \in Original \ fl
          BY <1>2
        <4> QED
          BY <1>1, <2>5, <4>1 DEF Sums
      <3>2. info.size = Size["dir"] + t[fl]
        BY <1>4, <2>5
      <3> QED
        BY <2>3, <2>4, <3>1, <3>2
    <2>6. info'.files = (Cardinality(fl) + 1) + 1
      BY <1>2, <1>4, <2>3
    <2>7. Added(f, Original, info', E)
      BY <1>4, <2>1, <2>2, <2>3, <2>5, <2>6 DEF Added
    <2> QED
      BY <2>7 DEF f
  <1> QED
    BY <1>5, <1>6

\* The walk of sizeof goes on from w to v, past the entry p, or past none.
LEMMA PassOne ==
  ASSUME Types, NEW w, SizedTo(w, info, lost), NEW v, v.at \in {"enter", "open", "read"}, Once(v), Sure(fs, v),
         NEW p \in Original, PendingIn(w, p), ~PendingIn(v, p),
         \A q \in Original : q # p => (PendingIn(v, q) <=> PendingIn(w, q)),
         NEW r, accumsize(p, job.was[p], r)
  PROVE  SizedTo(v, info', lost')
  <1>1. UNCHANGED lost /\ \A q \in Original : PendingIn(v, q) => <<q, "unread">> \notin lost'
    BY DEF SizedTo, accumsize
  <1>2. /\ Passed(v, lost') = Passed(w, lost) \cup {p}
        /\ p \notin Passed(w, lost) /\ Passed(w, lost) \in SUBSET Original
    BY <1>1 DEF Passed, Heard, SizedTo
  <1>3. Added(job.was, Original, info', Passed(v, lost'))
    BY <1>2, AddOne DEF SizedTo
  <1> QED
    BY <1>1, <1>3 DEF SizedTo

LEMMA PassNone ==
  ASSUME NEW w, SizedTo(w, info, lost), NEW v, v.at \in {"enter", "open", "read"}, Once(v), Sure(fs, v),
         \A q \in Original : PendingIn(v, q) <=> PendingIn(w, q), UNCHANGED <<info, lost>>
  PROVE  SizedTo(v, info', lost')
  <1>1. Passed(v, lost') = Passed(w, lost)
    BY DEF Passed, Heard
  <1> QED
    BY <1>1 DEF SizedTo

\* It enters a directory, ...
LEMMA SizeEnters ==
  ASSUME Types, pc = "sizeof", changed = {}, fs = job.was, SizedTo(walk, info, lost), EnterDir
  PROVE  SizeKept
  <1> DEFINE v == SetAt(walk, "open")
  <1>1. /\ WalkOK(walk) /\ walk.mode = "accumsize" /\ walk.root = job.src /\ job \in Jobs
        /\ walk.at = "enter" /\ Once(walk) /\ Sure(fs, walk)
    BY DEF Types, Control, SizedTo, EnterDir
  <1>2. walk.listing = {}
    BY <1>1 DEF WalkOK
  <1>3. UNCHANGED <<job, fs>> /\ accumsize(walk.dir, "dir", "ok") /\ GoOn(v)
    BY <1>1 DEF EnterDir, Dispatch, Callback, accumsize, SetAt
  <1>4. v = Rec(walk.mode, walk.root, walk.dir, walk.stack, {}, "open", walk.sb, walk.upto)
    BY <1>1, <1>2, PartsFact
  <1>5. walk.dir \in Original /\ job.was[walk.dir] = "dir" /\ walk.dir \in Path
    BY <1>1 DEF Sure, Original, WalkOK
  <1> HIDE DEF v
  <1>6. v.at = "open" /\ v.dir = walk.dir /\ v.stack = walk.stack /\ v.listing = {}
    BY <1>4, RecParts
  <1>7. Once(v)
    BY <1>1, <1>6 DEF Once
  <1>8. Sure(fs, v)
    BY <1>1, <1>6 DEF Sure
  <1>9. PendingIn(walk, walk.dir) /\ ~PendingIn(v, walk.dir)
    <2>1. Under(walk.dir, walk.dir)
      BY <1>5, UnderIsOrder
    <2> QED
      BY <1>1, <1>5, <1>6, <2>1 DEF PendingIn, Once
  <1>10. \A q \in Original : q # walk.dir => (PendingIn(v, q) <=> PendingIn(walk, q))
    BY <1>1, <1>6 DEF PendingIn
  <1>11. SizedTo(v, info', lost')
    BY <1>3, <1>5, <1>6, <1>7, <1>8, <1>9, <1>10, PassOne
  <1> QED
    BY <1>3, <1>11 DEF GoOn, SizeKept

\* ... finds what is in it, ...
LEMMA SizeOpens ==
  ASSUME Types, pc = "sizeof", changed = {}, fs = job.was, SizedTo(walk, info, lost), OpenDir
  PROVE  SizeKept
  <1> DEFINE l == {<<p, fs[p]>> : p \in Kids(walk.dir)}
             v == Reads(walk, l)
  <1>1. /\ WalkOK(walk) /\ walk.mode = "accumsize" /\ job \in Jobs /\ IsTree(fs)
        /\ walk.at = "open" /\ Once(walk) /\ Sure(fs, walk) /\ UNCHANGED <<job, fs, info, lost>>
    BY DEF Types, FsOK, Control, SizedTo, OpenDir
  <1>2. CASE Leave("error")
    BY <1>1, <1>2 DEF Leave, End, SizeKept
  <1>3. CASE GoOn(v)
    <2>1. v = Rec(walk.mode, walk.root, walk.dir, walk.stack, l, "read", walk.sb, walk.upto)
      BY <1>1, PartsFact
    <2>2. \A e \in l : e[1] \in KidsIn(fs, walk.dir) /\ e = <<e[1], fs[e[1]]>>
      BY DEF Kids
    <2>3. \A p \in KidsIn(fs, walk.dir) : \E e \in l : e[1] = p
      <3>1. \A p \in KidsIn(fs, walk.dir) : <<p, fs[p]>> \in l /\ <<p, fs[p]>>[1] = p
        BY DEF Kids
      <3> HIDE DEF l
      <3> QED
        BY <3>1
    <2> HIDE DEF l, v
    <2>4. v.at = "read" /\ v.stack = walk.stack /\ v.listing = l
      BY <2>1, RecParts
    <2>5. Once(v)
      BY <1>1, <2>1, <2>2, OnceOpen
    <2>6. Sure(fs, v)
      BY <1>1, <2>2, <2>4 DEF Sure, KidsIn
    <2>7. ASSUME NEW q \in Original PROVE PendingIn(v, q) <=> PendingIn(walk, q)
      <3>1. q \in DOMAIN fs /\ q \in Path
        BY <1>1, OriginalFact
      <3> QED
        BY <1>1, <2>1, <2>2, <2>3, <3>1, PendingOpen
    <2>8. SizedTo(v, info', lost')
      BY <1>1, <2>4, <2>5, <2>6, <2>7, PassNone
    <2> QED
      BY <1>1, <1>3, <2>8 DEF GoOn, SizeKept
  <1>4. Leave("error") \/ GoOn(v)
    BY DEF OpenDir, Reads
  <1> QED
    BY <1>2, <1>3, <1>4

\* ... puts a directory on its list or adds up a file, ...
LEMMA SizeReads ==
  ASSUME Types, pc = "sizeof", changed = {}, fs = job.was, SizedTo(walk, info, lost),
         NEW e \in walk.listing, ReadEntry(e[1], e[2])
  PROVE  SizeKept
  <1> DEFINE l == walk.listing \ {e}
             d == Push(walk, l, e[1])
             v == SetListing(walk, l)
  <1>1. /\ WalkOK(walk) /\ walk.mode = "accumsize" /\ walk.root = job.src /\ job \in Jobs /\ IsTree(fs)
        /\ walk.at = "read" /\ Once(walk) /\ Sure(fs, walk) /\ UNCHANGED job
    BY DEF Types, FsOK, Control, SizedTo, ReadEntry
  <1>2. /\ e[1] \in Path /\ e = <<e[1], e[2]>> /\ e[1] \in DOMAIN fs /\ job.was[e[1]] = e[2]
        /\ Under(e[1], job.src) /\ e[1] \in Original
    <2>1. e[1] \in Path /\ Under(e[1], job.src)
      BY <1>1, UnderRoot
    <2>2. e = <<e[1], e[2]>> /\ e[1] \in DOMAIN fs /\ fs[e[1]] = e[2]
      BY <1>1 DEF WalkOK, Sure
    <2> QED
      BY <2>1, <2>2 DEF Original
  <1>3. CASE e[2] = "dir" /\ GoOn(d) /\ UNCHANGED dataVars
    <2>1. d = Rec(walk.mode, walk.root, walk.dir, Append(walk.stack, e[1]), l, "read", walk.sb, walk.upto)
      BY <1>1, PartsFact
    <2> HIDE DEF d
    <2>2. d.at = "read" /\ d.stack = Append(walk.stack, e[1]) /\ d.listing = l
      <3> DEFINE s == Append(walk.stack, e[1])
      <3>1. d = Rec(walk.mode, walk.root, walk.dir, s, l, "read", walk.sb, walk.upto)
        BY <2>1
      <3> HIDE DEF l, s
      <3>2. d.at = "read" /\ d.stack = s /\ d.listing = l
        BY <3>1, RecParts
      <3> QED
        BY <3>2 DEF s
    <2>3. Once(d)
      BY <1>1, <2>1, OnceRead
    <2>4. Sure(fs, d)
      <3>1. walk.stack \in Seq(Path)
        BY <1>1 DEF WalkOK
      <3>2. \A i \in DOMAIN d.stack : \/ i \in DOMAIN walk.stack /\ d.stack[i] = walk.stack[i]
                                      \/ d.stack[i] = e[1]
        BY <1>2, <2>2, <3>1, StackFact
      <3> QED
        BY <1>1, <1>2, <1>3, <2>2, <3>2 DEF Sure
    <2>5. ASSUME NEW q \in Original PROVE PendingIn(d, q) <=> PendingIn(walk, q)
      <3>1. q \in Path
        BY <1>1, OriginalFact
      <3> QED
        BY <1>1, <2>1, <3>1, PendingRead
    <2>6. SizedTo(d, info', lost')
      BY <1>3, <2>2, <2>3, <2>4, <2>5, PassNone DEF dataVars
    <2> QED
      BY <1>1, <1>3, <2>6 DEF GoOn, SizeKept, dataVars
  <1>4. CASE e[2] # "dir" /\ GoOn(v) /\ accumsize(e[1], e[2], "ok")
    <2>1. v = Rec(walk.mode, walk.root, walk.dir, walk.stack, l, "read", walk.sb, walk.upto)
      BY <1>1, PartsFact
    <2> HIDE DEF v
    <2>2. v.at = "read" /\ v.stack = walk.stack /\ v.listing = l
      BY <2>1, RecParts
    <2>3. Once(v) /\ ~PendingIn(v, e[1])
      BY <1>1, <2>1, OnceRead
    <2>4. Sure(fs, v)
      BY <1>1, <2>2 DEF Sure
    <2>5. PendingIn(walk, e[1])
      <3>1. Under(e[1], e[1])
        BY <1>2, UnderIsOrder
      <3> QED
        BY <1>1, <3>1 DEF PendingIn
    <2>6. ASSUME NEW q \in Original, q # e[1] PROVE PendingIn(v, q) <=> PendingIn(walk, q)
      <3>1. q \in Path /\ q \in DOMAIN fs
        BY <1>1, OriginalFact
      <3>2. ~Under(q, e[1])
        BY <1>1, <1>2, <1>4, <2>6, <3>1, TreeDef
      <3> QED
        BY <1>1, <2>1, <3>1, <3>2, PendingRead
    <2>7. SizedTo(v, info', lost')
      BY <1>2, <1>4, <2>2, <2>3, <2>4, <2>5, <2>6, PassOne
    <2> QED
      BY <1>1, <1>4, <2>7 DEF GoOn, SizeKept, accumsize
  <1>5. \/ e[2] = "dir" /\ GoOn(d) /\ UNCHANGED dataVars
        \/ e[2] # "dir" /\ GoOn(v) /\ accumsize(e[1], e[2], "ok")
    <2>1. v = [walk EXCEPT !.listing = @ \ {<<e[1], e[2]>>}]
      BY <1>2 DEF SetListing
    <2>2. d = [v EXCEPT !.stack = Append(@, e[1])]
      BY DEF Push, SetListing
    <2> HIDE DEF v, d
    <2>3. \/ e[2] = "dir" /\ GoOn(d) /\ UNCHANGED dataVars
          \/ e[2] # "dir" /\ Dispatch(e[1], e[2], v)
      BY <1>1, <2>1, <2>2 DEF ReadEntry
    <2> QED
      BY <1>1, <2>3 DEF Dispatch, Callback, accumsize
  <1> QED
    BY <1>3, <1>4, <1>5

\* ... is told of no more, which hides what was pending of the directory, ...
LEMMA SizeReadFails ==
  ASSUME Types, pc = "sizeof", changed = {}, fs = job.was, SizedTo(walk, info, lost), ReadFails
  PROVE  SizeKept
  <1> DEFINE v == SetListing(walk, {})
  <1>1. /\ WalkOK(walk) /\ walk.mode = "accumsize" /\ job \in Jobs
        /\ walk.at = "read" /\ Once(walk) /\ Sure(fs, walk) /\ UNCHANGED <<job, fs, info>>
        /\ GoOn(v) /\ lost' = lost \cup {<<q, "unread">> : q \in Skipped}
    BY DEF Types, Control, SizedTo, ReadFails, SetListing
  <1>2. v = Rec(walk.mode, walk.root, walk.dir, walk.stack, {}, "read", walk.sb, walk.upto)
    BY <1>1, PartsFact
  <1> HIDE DEF v
  <1>3. v.at = "read" /\ v.stack = walk.stack /\ v.listing = {}
    BY <1>2, RecParts
  <1>4. Once(v) /\ Sure(fs, v)
    BY <1>1, <1>3 DEF Once, Sure
  <1>5. ASSUME NEW q \in Original
        PROVE  /\ PendingIn(v, q) => PendingIn(walk, q) /\ q \notin Skipped
               /\ PendingIn(walk, q) /\ ~PendingIn(v, q) => q \in Skipped
               /\ q \in Skipped => PendingIn(walk, q)
    <2>1. q \in Path /\ q \in DOMAIN fs
      BY <1>1, OriginalFact
    <2>2. q \in Skipped <=> \E e \in walk.listing : Under(q, e[1])
      BY <1>1, <2>1 DEF Skipped
    <2>3. PendingIn(v, q) <=> \E i \in DOMAIN walk.stack : Under(q, walk.stack[i])
      BY <1>3 DEF PendingIn
    <2>4. PendingIn(walk, q) <=> q \in Skipped \/ PendingIn(v, q)
      BY <1>1, <2>2, <2>3 DEF PendingIn
    <2>5. ~(q \in Skipped /\ PendingIn(v, q))
      BY <1>1, <2>1, <2>2, <2>3 DEF Once
    <2> QED
      BY <2>4, <2>5
  <1>6. ASSUME NEW q \in Original
        PROVE  <<q, "unread">> \in lost' <=> <<q, "unread">> \in lost \/ q \in Skipped
    BY <1>1
  <1>7. \A q \in Original : PendingIn(v, q) => <<q, "unread">> \notin lost'
    BY <1>5, <1>6 DEF SizedTo
  <1>8. Passed(v, lost') = Passed(walk, lost)
    BY <1>5, <1>6 DEF Passed, Heard, SizedTo
  <1>9. SizedTo(v, info', lost')
    BY <1>1, <1>3, <1>4, <1>7, <1>8 DEF SizedTo
  <1>10. pc' = "sizeof"
    BY <1>1 DEF GoOn
  <1> QED
    BY <1>1, <1>9, <1>10 DEF GoOn, SizeKept

\* ... and comes to the next directory, or to the end.
LEMMA SizeGoesOn ==
  ASSUME Types, pc = "sizeof", changed = {}, fs = job.was, SizedTo(walk, info, lost), NextDir
  PROVE  SizeKept
  <1>1. /\ WalkOK(walk) /\ walk.mode = "accumsize" /\ job \in Jobs /\ walk.listing = {}
        /\ walk.at = "read" /\ Once(walk) /\ Sure(fs, walk) /\ UNCHANGED job
        /\ \A q \in Original : q \in Path
    BY OriginalFact DEF Types, Control, SizedTo, NextDir
  <1>2. CASE walk.stack = <<>>
    <2>1. Leave("ok") /\ UNCHANGED dataVars
      BY <1>1, <1>2 DEF NextDir
    <2>2. pc' = "over" /\ UNCHANGED <<fs, info, lost>>
      BY <1>1, <2>1 DEF Leave, End, dataVars
    <2>3. Passed(walk, lost) = Heard(lost)
      <3>1. \A q \in Original : ~PendingIn(walk, q)
        BY <1>1, <1>2, PendingNext
      <3> QED
        BY <3>1 DEF Passed, Heard
    <2>4. Heard(lost') = Heard(lost)
      BY <2>2
    <2> QED
      BY <1>1, <2>2, <2>3, <2>4 DEF SizeKept, SizedTo
  <1>3. CASE walk.stack # <<>>
    <2> DEFINE v == Enter(walk.mode, walk.root, Last(walk.stack), Front(walk.stack))
    <2>1. GoOn(v) /\ UNCHANGED dataVars
      BY <1>1, <1>3 DEF NextDir
    <2>2. v = Rec(walk.mode, walk.root, Last(walk.stack), Front(walk.stack), {}, "enter", Last(walk.stack), -1)
      BY <1>1, <1>3, PopFact DEF ListsDirs
    <2> HIDE DEF v
    <2>3. v.at = "enter" /\ v.dir = Last(walk.stack) /\ v.stack = Front(walk.stack) /\ v.listing = {}
      BY <2>2, RecParts
    <2>4. Once(v)
      BY <1>1, <1>3, <2>2, OnceNext
    <2>5. Sure(fs, v)
      <3>1. walk.stack \in Seq(Path)
        BY <1>1 DEF WalkOK
      <3> QED
        BY <1>1, <1>3, <2>3, <3>1, StackFact DEF Sure
    <2>6. \A q \in Original : PendingIn(v, q) <=> PendingIn(walk, q)
      BY <1>1, <1>3, <2>2, PendingNext
    <2>7. SizedTo(v, info', lost')
      BY <2>1, <2>3, <2>4, <2>5, <2>6, PassNone DEF dataVars
    <2> QED
      BY <1>1, <2>1, <2>7 DEF GoOn, SizeKept, dataVars
  <1> QED
    BY <1>2, <1>3

\* Each step of its walk.
LEMMA SizeWalks ==
  ASSUME Types, pc = "sizeof", changed = {}, fs = job.was, SizedTo(walk, info, lost), WalkStep
  PROVE  SizeKept
  <1>1. walk.mode = "accumsize" /\ walk.at \in {"enter", "open", "read"}
    BY DEF Types, Control, SizedTo
  <1>2. ASSUME NEW e \in walk.listing, EntryFails(e[1], e[2])
        PROVE  SizeKept
    BY <1>1, <1>2 DEF EntryFails, Leave, End, SizeKept
  <1>3. ASSUME NEW e \in walk.listing
        PROVE  ~OpenFifo(e[1], e[2])
    BY <1>1 DEF OpenFifo
  <1>4. ~Unwind
    BY <1>1 DEF Unwind
  <1> QED
    BY <1>2, <1>3, <1>4, SizeEnters, SizeOpens, SizeReads, SizeReadFails, SizeGoesOn DEF WalkStep

LEMMA AddingInit == Init => Adding
  BY DEF Init, Adding

\* What is added up is added up through every step.
LEMMA AddingStep ==
  ASSUME Types, Adding, [Next]_vars
  PROVE  Adding'
  <1>1. UNCHANGED job /\ changed \subseteq changed'
    BY FsStepFact DEF FsStep
  <1>2. Original' = Original
    BY <1>1 DEF Original
  <1> SUFFICES ASSUME changed' = {}, job.cmd = "sizeof"
               PROVE  Adding'
    BY <1>1 DEF Adding
  <1>3. /\ changed = {} /\ fs = job.was /\ job \in Jobs /\ queue = {} /\ pc \in {"stat", "sizeof", "over"}
        /\ pc = "stat" => lost = {}
        /\ pc = "sizeof" => IsDir(job.src) /\ SizedTo(walk, info, lost)
        /\ pc = "over" /\ result = "ok" /\ IsDir(job.src) => Added(job.was, Original, info, Heard(lost))
    BY <1>1 DEF Adding, Types, Control
  <1>4. ASSUME UNCHANGED fs
        PROVE  /\ IsDir(job.src)' = IsDir(job.src)
               /\ SizedTo(walk', info', lost') => SizedTo(walk, info, lost)'
               /\ Heard(lost)' = Heard(lost')
    <2>1. Heard(lost)' = Heard(lost') /\ Passed(walk, lost)' = Passed(walk', lost')
      BY <1>2 DEF Passed, Heard
    <2> QED
      BY <1>1, <1>2, <1>4, <2>1 DEF SizedTo, IsDir, IsA
  <1>5. CASE WalkStep
    <2>1. pc = "sizeof"
      BY <1>3, <1>5, WalkStepTypes DEF WalkEffect, Walking
    <2>2. SizeKept /\ IsDir(job.src)
      BY <1>3, <1>5, <2>1, SizeWalks
    <2>3. fs' = job'.was /\ IsDir(job.src)'
      BY <1>1, <1>3, <1>4, <2>2 DEF SizeKept
    <2>4. CASE pc' = "sizeof" /\ SizedTo(walk', info', lost')
      <3>1. SizedTo(walk, info, lost)'
        BY <1>4, <2>2, <2>4 DEF SizeKept
      <3> QED
        BY <2>3, <2>4, <3>1 DEF Adding
    <2>5. CASE pc' = "over" /\ (result' = "ok" => Added(job.was, Original, info', Heard(lost')))
      BY <1>1, <1>2, <1>4, <2>2, <2>3, <2>5 DEF Adding, SizeKept
    <2> QED
      BY <2>2, <2>4, <2>5 DEF SizeKept
  <1>6. CASE Stat
    <2>1. UNCHANGED fs /\ fs' = job'.was /\ lost' = {} /\ pc' # "stat"
      BY <1>1, <1>3, <1>6 DEF Stat, End
    <2>2. CASE pc' = "over"
      <3>1. result' # "ok" \/ ~IsDir(job.src)
        BY <1>6, <2>2 DEF Stat, End
      <3> QED
        BY <1>4, <2>1, <2>2, <3>1 DEF Adding
    <2>3. CASE pc' # "over"
      <3>1. /\ IsDir(job.src) /\ pc' = "sizeof" /\ Begin("accumsize", job.src)
            /\ info' = [size |-> Size["dir"], files |-> 1, dirs |-> 0]
        BY <1>6, <2>3 DEF Stat, End, IsDir, IsA
      <3> DEFINE v == Enter("accumsize", job.src, job.src, <<>>)
      <3>2. v = Rec("accumsize", job.src, job.src, <<>>, {}, "enter", job.src, -1)
        <4>1. job.src \in Path /\ "accumsize" \in Mode
          BY <1>3, JobFact DEF Mode
        <4> QED
          BY <4>1, BeginFact DEF ListsDirs
      <3>3. walk' = v
        BY <3>1 DEF Begin
      <3> HIDE DEF v
      <3>4. v.at = "enter" /\ v.dir = job.src /\ v.stack = <<>> /\ v.listing = {}
        BY <3>2, RecParts
      <3>5. Once(v) /\ Sure(fs, v)
        BY <3>1, <3>4 DEF Once, Sure, IsDir, IsA
      <3>6. Passed(v, lost') = {} /\ \A q \in Original : <<q, "unread">> \notin lost'
        BY <2>1, <3>4 DEF Passed, Heard, PendingIn, Original
      <3>7. SizedTo(v, info', lost')
        BY <3>1, <3>4, <3>5, <3>6, AddNone DEF SizedTo
      <3> QED
        BY <1>4, <2>1, <3>1, <3>3, <3>7 DEF Adding
    <2> QED
      BY <2>2, <2>3
  <1>7. CASE UNCHANGED vars
    <2>1. walk' = walk /\ info' = info /\ lost' = lost /\ UNCHANGED <<fs, pc, result>>
      BY <1>7 DEF vars
    <2> QED
      BY <1>1, <1>2, <1>3, <1>4, <2>1 DEF Adding
  <1>8. ~(Access \/ FlexRemove \/ MakeParents \/ Join)
    BY <1>3 DEF Access, FlexRemove, MakeParents, Join
  <1>9. ASSUME NEW d \in DOMAIN fs, NEW x \in Name
        PROVE  ~Outside(Append(d, x))
    BY DEF Outside
  <1> QED
    BY <1>3, <1>5, <1>6, <1>7, <1>8, <1>9 DEF Next, CommandStep, Running, Done

\* sizeof counts every directory and every file once, whatever the tree's shape, and adds up
\* what accumsize() (commands/sizeof.c) takes for the files' sizes, but for what a failing
\* readdir() hides; 64 for an empty file is accumsize()'s, and not the bytes that the comment
\* over the command promises.
THEOREM SizesSound == Spec => []SizesAddUp
  <1>1. Types /\ Adding => SizesAddUp
    <2> SUFFICES ASSUME Types, Adding, pc = "over", result = "ok", job.cmd = "sizeof", changed = {}, IsDir(job.src)
                 PROVE  LET read == {p \in Original : <<p, "unread">> \notin lost}
                            files == {p \in read : ~IsDir(p)}
                        IN  /\ info.dirs = Cardinality(read \ files)
                            /\ info.files = Cardinality(files) + 1
                            /\ info.size = Size["dir"] + MapThenSumSet(LAMBDA p : IF Size[fs[p]] = 0 THEN SizeOfEmpty ELSE Size[fs[p]], files)
      BY DEF SizesAddUp
    <2> DEFINE read == {p \in Original : <<p, "unread">> \notin lost}
               files == {p \in read : ~IsDir(p)}
               w == Weights(job.was, Original)
    <2>1. /\ fs = job.was /\ Added(job.was, Original, info, read)
          /\ IsFiniteSet(Original)
          /\ \A p \in Original : p \in DOMAIN fs /\ w[p] = Weight(fs[p]) /\ w[p] \in Nat
      BY OriginalFact DEF Adding, Types, Control, Heard
    <2>2. files = FilesOf(job.was, read) /\ read \ files = DirsOf(job.was, read)
      BY <2>1 DEF FilesOf, DirsOf, IsDir, IsA
    <2>3. PICK t : Sums(t, Original, w)
      BY <2>1, SumsExist
    <2> HIDE DEF w
    <2>4. (CHOOSE g : Summed(g, files, fs))[files] = t[files]
      <3>1. files \subseteq Original
        OBVIOUS
      <3> HIDE DEF files
      <3> QED
        BY <2>1, <2>3, <3>1, SumFact
    <2> HIDE DEF files, read
    <2>5. info.size = Size["dir"] + t[files]
      BY <2>1, <2>2, <2>3 DEF Added, w
    <2>6. MapThenSumSet(LAMBDA p : IF Size[fs[p]] = 0 THEN SizeOfEmpty ELSE Size[fs[p]], files) =
            (CHOOSE g : Summed(g, files, fs))[files]
      BY SumFold
    <2>7. /\ info.dirs = Cardinality(read \ files)
          /\ info.files = Cardinality(files) + 1
          /\ info.size = Size["dir"] + MapThenSumSet(LAMBDA p : IF Size[fs[p]] = 0 THEN SizeOfEmpty ELSE Size[fs[p]], files)
      BY <2>1, <2>2, <2>4, <2>5, <2>6 DEF Added
    <2> QED
      BY <2>7 DEF files, read
  <1> QED
    BY <1>1, TypesSpec, AddingInit, AddingStep, PTL DEF Spec
=============================================================================
