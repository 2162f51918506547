----------------------------- MODULE DataFacts ------------------------------
(***************************************************************************)
(* Facts about the data that the proofs share: the two operations that the *)
(* schedulers' task lists use, list_add_tail() and list_del() of           *)
(* list_last_entry(); sums over finite sets, and recursive functions on    *)
(* numbers, whose facts are had by looking at a least counterexample.      *)
(***************************************************************************)
EXTENDS SequencesExt, SequenceTheorems, FiniteSetTheorems, WellFoundedInduction, TLAPS

-----------------------------------------------------------------------------
(* Queues. *)

\* list_add_tail(): the queue keeps its elements, in order, and gets one at the end.
LEMMA AppendFact ==
  ASSUME NEW S, NEW q \in Seq(S), NEW e \in S
  PROVE  /\ Append(q, e) \in Seq(S)
         /\ Len(Append(q, e)) = Len(q) + 1
         /\ Len(q) \in Nat
         /\ \A i \in 1..Len(q) : Append(q, e)[i] = q[i]
         /\ Append(q, e)[Len(q) + 1] = e
  OBVIOUS

\* list_del() of the last entry: the other elements keep their places.
LEMMA FrontFact ==
  ASSUME NEW S, NEW q \in Seq(S), q # <<>>
  PROVE  /\ Front(q) \in Seq(S)
         /\ Len(Front(q)) = Len(q) - 1
         /\ \A i \in 1..(Len(q) - 1) : Front(q)[i] = q[i]
         /\ Last(q) \in S /\ Last(q) = q[Len(q)]
         /\ Len(q) \in Nat \ {0}
  <1>1. Len(q) \in Nat \ {0} /\ Last(q) \in S /\ Last(q) = q[Len(q)]
    BY DEF Last
  <1>2. \A i \in 1..(Len(q) - 1) : q[i] \in S
    BY <1>1
  <1> DEFINE r == SubSeq(q, 1, Len(q) - 1)
  <1>3. /\ r \in Seq(S)
        /\ Len(r) = IF 1 <= Len(q) - 1 THEN Len(q) - 1 - 1 + 1 ELSE 0
        /\ \A i \in 1..(Len(q) - 1 - 1 + 1) : r[i] = q[1 + i - 1]
    BY <1>1, <1>2, SubSeqProperties
  <1>4. r = Front(q)
    BY DEF Front
  <1> HIDE DEF r
  <1>5. Len(r) = Len(q) - 1
    <2>1. ASSUME NEW n \in Nat \ {0}, NEW k, k = IF 1 <= n - 1 THEN n - 1 - 1 + 1 ELSE 0
          PROVE  k = n - 1
      BY <2>1
    <2>2. QED
      BY <1>1, <1>3, <2>1
  <1>6. ASSUME NEW i \in 1..(Len(q) - 1) PROVE r[i] = q[i]
    <2>1. i \in 1..(Len(q) - 1 - 1 + 1) /\ 1 + i - 1 = i
      BY <1>1
    <2>2. QED
      BY <1>3, <2>1
  <1>7. QED
    BY <1>1, <1>3, <1>4, <1>5, <1>6

-----------------------------------------------------------------------------
(* Numbers, and sums. *)

\* Numbers have a least among them.
LEMMA LeastOfAll ==
  ASSUME NEW B, B \subseteq Nat, B # {}
  PROVE  \E x \in B : \A y \in B : x <= y
  <1>1. PICK x \in B : \A y \in B : ~(<<y, x>> \in OpToRel(<, Nat))
    BY NatLessThanWellFounded, WFMin, Zenon
  <1>2. \A y \in Nat : y < x => <<y, x>> \in OpToRel(<, Nat)
    BY DEF OpToRel
  <1>3. ASSUME NEW y \in B PROVE x <= y
    <2>1. ~(y < x) /\ x \in Nat /\ y \in Nat
      BY <1>1, <1>2
    <2> QED
      BY <2>1
  <1> QED
    BY <1>1, <1>3

\* Induction, with a set in the place of a predicate.
LEMMA NatSetInduction ==
  ASSUME NEW T, 0 \in T, \A n \in Nat : n \in T => n + 1 \in T
  PROVE  Nat \subseteq T
  <1> SUFFICES ASSUME Nat \ T # {} PROVE FALSE
    OBVIOUS
  <1>1. PICK x \in Nat \ T : \A y \in Nat \ T : x <= y
    BY LeastOfAll
  <1>2. x # 0 /\ x - 1 \in Nat
    OBVIOUS
  <1>3. x - 1 \in T
    BY <1>1, <1>2
  <1> QED
    BY <1>1, <1>2, <1>3

\* The largest of some of the first n places.
LEMMA MaxFact ==
  ASSUME NEW n \in Nat, NEW s, s \subseteq 1..n, s # {}
  PROVE  Max(s) \in s /\ \A y \in s : y <= Max(s)
  <1> DEFINE B == {k \in Nat : \A y \in s : y <= k}
  <1>1. n \in B
    OBVIOUS
  <1>2. PICK k \in B : \A y \in B : k <= y
    BY <1>1, LeastOfAll
  <1>3. k \in s
    <2> SUFFICES ASSUME k \notin s PROVE FALSE
      OBVIOUS
    <2>1. k \in Nat \ {0}
      <3>1. PICK y \in s : TRUE
        OBVIOUS
      <3>2. y \in 1..n /\ y <= k /\ k \in Nat
        OBVIOUS
      <3> QED
        BY <3>2
    <2>2. k - 1 \in B
      BY <2>1
    <2> QED
      BY <1>2, <2>1, <2>2
  <1>4. \A y \in s : k >= y
    OBVIOUS
  <1>5. \E x \in s : \A y \in s : x >= y
    BY <1>3, <1>4
  <1>6. Max(s) \in s /\ \A y \in s : Max(s) >= y
    BY <1>5, Zenon DEF Max
  <1> QED
    BY <1>6

\* t gives the sum of the weights w of every part of S.
Sums(t, S, w) ==
  /\ t \in [SUBSET S -> Nat]
  /\ t[{}] = 0
  /\ \A s \in SUBSET S : \A x \in S \ s : t[s \cup {x}] = t[s] + w[x]

\* One element more.
LEMMA SumsGrow ==
  ASSUME NEW S, NEW x, x \notin S, NEW w, \A y \in S \cup {x} : w[y] \in Nat, NEW t, Sums(t, S, w)
  PROVE  \E u : Sums(u, S \cup {x}, w)
  <1> DEFINE R == S \cup {x}
             u == [s \in SUBSET R |-> IF x \in s THEN t[s \ {x}] + w[x] ELSE t[s]]
  <1>1. \A s \in SUBSET R : s \ {x} \in SUBSET S /\ (x \notin s => s \in SUBSET S)
    OBVIOUS
  <1>2. u \in [SUBSET R -> Nat]
    BY <1>1 DEF Sums
  <1>3. u[{}] = 0
    BY DEF Sums
  <1>4. ASSUME NEW s \in SUBSET R, NEW y \in R \ s
        PROVE  u[s \cup {y}] = u[s] + w[y]
    <2>1. s \cup {y} \in SUBSET R
      OBVIOUS
    <2>2. CASE y = x
      <3>1. (s \cup {y}) \ {x} = s /\ x \notin s /\ x \in s \cup {y}
        BY <2>2
      <3> QED
        BY <2>1, <2>2, <3>1
    <2>3. CASE y # x /\ x \in s
      <3>1. (s \cup {y}) \ {x} = (s \ {x}) \cup {y} /\ x \in s \cup {y}
        BY <2>3
      <3>2. s \ {x} \in SUBSET S /\ y \in S \ (s \ {x})
        BY <1>1, <2>3
      <3>3. t[(s \ {x}) \cup {y}] = t[s \ {x}] + w[y] /\ t[s \ {x}] \in Nat
        BY <3>2 DEF Sums
      <3>4. u[s \cup {y}] = t[(s \ {x}) \cup {y}] + w[x] /\ u[s] = t[s \ {x}] + w[x]
        BY <2>1, <2>3, <3>1
      <3>5. t[(s \ {x}) \cup {y}] \in Nat
        <4>1. (s \ {x}) \cup {y} \in SUBSET S
          BY <3>2
        <4> QED
          BY <4>1 DEF Sums
      <3>6. w[x] \in Nat /\ w[y] \in Nat
        OBVIOUS
      <3> QED
        BY <3>3, <3>4, <3>5, <3>6
    <2>4. CASE y # x /\ x \notin s
      <3>1. x \notin s \cup {y} /\ s \in SUBSET S /\ y \in S \ s
        BY <1>1, <2>4
      <3> QED
        BY <2>1, <3>1 DEF Sums
    <2> QED
      BY <2>2, <2>3, <2>4
  <1> QED
    <2>1. Sums(u, R, w)
      <3> HIDE DEF u, R
      <3> QED
        BY <1>2, <1>3, <1>4 DEF Sums
    <2> QED
      BY <2>1

\* Every part of a finite set has a sum.
LEMMA SumsExist ==
  ASSUME NEW U, IsFiniteSet(U), NEW w, \A y \in U : w[y] \in Nat
  PROVE  \E t : Sums(t, U, w)
  <1> DEFINE T == {n \in Nat : \A S \in SUBSET U : Cardinality(S) = n => \E t : Sums(t, S, w)}
  <1>1. \A S \in SUBSET U : IsFiniteSet(S) /\ Cardinality(S) \in Nat
    BY FS_Subset, FS_CardinalityType
  <1>2. 0 \in T
    <2> SUFFICES ASSUME NEW S \in SUBSET U, Cardinality(S) = 0 PROVE \E t : Sums(t, S, w)
      OBVIOUS
    <2>1. S = {}
      BY <1>1, FS_EmptySet
    <2> DEFINE t == [s \in SUBSET S |-> 0]
    <2>2. Sums(t, S, w)
      BY <2>1 DEF Sums
    <2> QED
      BY <2>2
  <1>3. ASSUME NEW n \in Nat, n \in T PROVE n + 1 \in T
    <2> SUFFICES ASSUME NEW S \in SUBSET U, Cardinality(S) = n + 1 PROVE \E t : Sums(t, S, w)
      OBVIOUS
    <2>1. PICK x \in S : TRUE
      BY <1>1, FS_EmptySet
    <2> DEFINE R == S \ {x}
    <2>2. Cardinality(R) = n /\ R \in SUBSET U /\ R \cup {x} = S /\ x \notin R
      BY <1>1, FS_RemoveElement
    <2>3. PICK t : Sums(t, R, w)
      BY <1>3, <2>2
    <2>4. \A y \in R \cup {x} : w[y] \in Nat
      BY <2>2
    <2> HIDE DEF R
    <2>5. \E u : Sums(u, R \cup {x}, w)
      BY <2>2, <2>3, <2>4, SumsGrow
    <2> QED
      BY <2>2, <2>5
  <1> HIDE DEF T
  <1>4. Nat \subseteq T
    BY <1>2, <1>3, NatSetInduction
  <1>5. Cardinality(U) \in T
    BY <1>1, <1>4
  <1> QED
    BY <1>5 DEF T

\* g adds up the weights of every part of S, in the order in which c chooses.
Folds(g, S, c, w) ==
  g = [s \in SUBSET S |-> IF s = {} THEN 0 ELSE g[s \ {c[s]}] + w[c[s]]]

Chooses(c, S) == \A s \in SUBSET S : s # {} => c[s] \in s

\* In whatever order.
LEMMA FoldIsSum ==
  ASSUME NEW U, IsFiniteSet(U), NEW c, Chooses(c, U),
         NEW w, NEW t, Sums(t, U, w), NEW g, Folds(g, U, c, w),
         NEW p \in SUBSET U
  PROVE  g[p] = t[p]
  <1> DEFINE T == {n \in Nat : \A s \in SUBSET U : Cardinality(s) = n => g[s] = t[s]}
  <1>1. \A s \in SUBSET U : IsFiniteSet(s) /\ Cardinality(s) \in Nat
    BY FS_Subset, FS_CardinalityType
  <1>2. 0 \in T
    <2> SUFFICES ASSUME NEW s \in SUBSET U, Cardinality(s) = 0 PROVE g[s] = t[s]
      OBVIOUS
    <2>1. s = {}
      BY <1>1, FS_EmptySet
    <2> QED
      BY <2>1 DEF Sums, Folds
  <1>3. ASSUME NEW n \in Nat, n \in T PROVE n + 1 \in T
    <2> SUFFICES ASSUME NEW s \in SUBSET U, Cardinality(s) = n + 1 PROVE g[s] = t[s]
      OBVIOUS
    <2>1. s # {}
      BY FS_EmptySet
    <2> DEFINE x == c[s]
               r == s \ {x}
    <2>2. x \in s
      BY <2>1 DEF Chooses
    <2> HIDE DEF x
    <2>3. Cardinality(r) = n /\ r \in SUBSET U /\ r \cup {x} = s /\ x \in U \ r
      BY <1>1, <2>2, FS_RemoveElement
    <2>4. g[s] = g[r] + w[x]
      BY <2>1 DEF Folds, x
    <2> HIDE DEF r
    <2>5. g[r] = t[r]
      BY <1>3, <2>3
    <2>6. t[s] = t[r] + w[x]
      BY <2>3 DEF Sums
    <2> QED
      BY <2>4, <2>5, <2>6
  <1> HIDE DEF T
  <1>4. Nat \subseteq T
    BY <1>2, <1>3, NatSetInduction
  <1> QED
    BY <1>1, <1>4 DEF T

\* A sum is such a fold.
LEMMA SumFolds ==
  ASSUME NEW U, NEW c, Chooses(c, U),
         NEW w, NEW t, Sums(t, U, w)
  PROVE  Folds(t, U, c, w)
  <1>1. ASSUME NEW s \in SUBSET U, s # {} PROVE t[s] = t[s \ {c[s]}] + w[c[s]]
    <2> DEFINE x == c[s]
    <2>1. x \in s
      BY <1>1 DEF Chooses
    <2> HIDE DEF x
    <2>2. s \ {x} \in SUBSET U /\ (s \ {x}) \cup {x} = s /\ x \in U \ (s \ {x})
      BY <2>1
    <2>3. t[(s \ {x}) \cup {x}] = t[s \ {x}] + w[x]
      BY <2>2 DEF Sums
    <2> QED
      BY <2>2, <2>3 DEF x
  <1>2. t = [s \in SUBSET U |-> t[s]] /\ t[{}] = 0
    BY DEF Sums
  <1> QED
    BY <1>1, <1>2 DEF Folds

-----------------------------------------------------------------------------
(* Recursive functions, and sequences of sequences. *)

\* Recursion: a function that gives each place what step makes of the place before it.
Steps(f, a, n, step) == f[0] = a /\ \A k \in 1..n : f[k] = step[<<k, f[k - 1]>>]

LEMMA RecursionExists ==
  ASSUME NEW D, NEW a \in D, NEW n \in Nat, NEW step \in [(1..n) \X D -> D]
  PROVE  \E f \in [0..n -> D] : Steps(f, a, n, step)
  <1> DEFINE Good(f, m) == f \in [0..m -> D] /\ f[0] = a /\ \A k \in 1..m : f[k] = step[<<k, f[k - 1]>>]
             T == {m \in Nat : m <= n => \E f : Good(f, m)}
  <1>1. 0 \in T
    <2> DEFINE f == [k \in 0..0 |-> a]
    <2>1. Good(f, 0)
      OBVIOUS
    <2> QED
      BY <2>1
  <1>2. ASSUME NEW m \in Nat, m \in T PROVE m + 1 \in T
    <2> SUFFICES ASSUME m + 1 <= n PROVE \E f : Good(f, m + 1)
      OBVIOUS
    <2>1. PICK f : Good(f, m)
      BY <1>2
    <2>2. m + 1 \in 1..n /\ f[m] \in D
      BY <2>1
    <2>3. step[<<m + 1, f[m]>>] \in D
      BY <2>2
    <2> DEFINE e == step[<<m + 1, f[m]>>]
               g == [k \in 0..m + 1 |-> IF k = m + 1 THEN e ELSE f[k]]
    <2>4. e \in D
      BY <2>3
    <2>5. e = step[<<m + 1, f[m]>>]
      OBVIOUS
    <2> HIDE DEF e
    <2>6. g \in [0..m + 1 -> D] /\ g[0] = a
      BY <2>1, <2>4
    <2>7. ASSUME NEW k \in 1..m + 1 PROVE g[k] = step[<<k, g[k - 1]>>]
      <3>1. CASE k = m + 1
        <4>1. g[k] = e /\ k - 1 = m /\ g[m] = f[m]
          BY <3>1
        <4> QED
          BY <2>5, <3>1, <4>1
      <3>2. CASE k # m + 1
        <4>1. k \in 1..m /\ k - 1 \in 0..m
          BY <3>2
        <4>2. g[k] = f[k] /\ g[k - 1] = f[k - 1]
          BY <4>1
        <4> HIDE DEF g
        <4>3. f[k] = step[<<k, f[k - 1]>>]
          BY <2>1, <4>1
        <4> QED
          BY <4>2, <4>3
      <3> QED
        BY <3>1, <3>2
    <2> HIDE DEF g
    <2> QED
      BY <2>6, <2>7
  <1> HIDE DEF T
  <1>3. Nat \subseteq T
    BY <1>1, <1>2, NatSetInduction
  <1>4. \E f : Good(f, n)
    BY <1>3 DEF T
  <1> QED
    BY <1>4 DEF Steps

\* How a sequence of sequences is put together.
Joins(f, s) ==
  /\ DOMAIN f = 0..Len(s)
  /\ f[0] = <<>>
  /\ \A k \in 1..Len(s) : f[k] = f[k - 1] \o s[k]

LEMMA FlattenFact ==
  ASSUME NEW D, NEW s \in Seq(Seq(D))
  PROVE  \E f \in [0..Len(s) -> Seq(D)] : Joins(f, s) /\ FlattenSeq(s) = f[Len(s)]
  <1> DEFINE n == Len(s)
             step == [x \in (1..n) \X Seq(D) |-> x[2] \o s[x[1]]]
  <1>1. n \in Nat /\ <<>> \in Seq(D)
    OBVIOUS
  <1>2. step \in [(1..n) \X Seq(D) -> Seq(D)]
    <2>1. ASSUME NEW x \in (1..n) \X Seq(D) PROVE x[2] \o s[x[1]] \in Seq(D)
      <3>1. x[2] \in Seq(D) /\ s[x[1]] \in Seq(D)
        OBVIOUS
      <3> QED
        BY <3>1, ConcatProperties
    <2> QED
      BY <2>1
  <1>3. \A k \in 1..n, t \in Seq(D) : step[<<k, t>>] = t \o s[k]
    OBVIOUS
  <1>0. n = Len(s)
    OBVIOUS
  <1> HIDE DEF step, n
  <1>4. PICK f \in [0..n -> Seq(D)] : f[0] = <<>> /\ \A k \in 1..n : f[k] = step[<<k, f[k - 1]>>]
    <2>1. \E f \in [0..n -> Seq(D)] : Steps(f, <<>>, n, step)
      BY <1>1, <1>2, RecursionExists
    <2> QED
      BY <2>1 DEF Steps
  <1>5. \A k \in 1..n : f[k] = f[k - 1] \o s[k]
    <2> TAKE k \in 1..n
    <2>1. f[k - 1] \in Seq(D)
      BY <1>1
    <2> QED
      BY <1>3, <1>4, <2>1
  <1>6. Joins(f, s)
    BY <1>4, <1>5, <1>0 DEF Joins
  <1>7. FlattenSeq(s) = f[n]
    <2>1. CASE n = 0
      <3>1. FlattenSeq(s) = s
        BY <2>1, <1>0, Zenon DEF FlattenSeq
      <3>2. s = <<>>
        BY <2>1, <1>0
      <3> QED
        BY <2>1, <3>1, <3>2, <1>4
    <2>2. CASE n # 0
      <3> DEFINE F(g) == g = [i \in 1..n |-> IF i = 1 THEN s[i] ELSE g[i - 1] \o s[i]]
                 c == CHOOSE g : F(g)
                 h == [k \in 1..n |-> f[k]]
      <3>1. F(h)
        <4>1. ASSUME NEW i \in 1..n PROVE h[i] = IF i = 1 THEN s[i] ELSE h[i - 1] \o s[i]
          <5>1. CASE i = 1
            <6>1. 1 \in 1..n /\ 1 - 1 = 0 /\ s[1] \in Seq(D)
              BY <5>1, <1>0
            <6>2. f[1] = f[1 - 1] \o s[1]
              BY <1>5, <6>1
            <6>3. f[1] = <<>> \o s[1]
              BY <1>4, <6>1, <6>2
            <6> QED
              BY <5>1, <6>1, <6>3
          <5>2. CASE i # 1
            <6>1. i - 1 \in 1..n
              BY <5>2, <1>1
            <6> QED
              BY <5>2, <6>1, <1>5
          <5> QED
            BY <5>1, <5>2
        <4> QED
          BY <4>1
      <3>2. F(c)
        BY <3>1, Zenon
      <3>3. FlattenSeq(s) = c[n]
        BY <2>2, <1>0, Zenon DEF FlattenSeq
      <3>4. \A i \in 1..n : c[i] = IF i = 1 THEN s[i] ELSE c[i - 1] \o s[i]
        BY <3>2
      <3> HIDE DEF F, c
      <3> DEFINE T == {k \in Nat : k \in 1..n => c[k] = f[k]}
      <3>5. 0 \in T
        OBVIOUS
      <3>6. ASSUME NEW k \in Nat, k \in T PROVE k + 1 \in T
        <4> SUFFICES ASSUME k + 1 \in 1..n PROVE c[k + 1] = f[k + 1]
          OBVIOUS
        <4>1. CASE k = 0
          <5>1. c[1] = s[1]
            BY <3>4, <4>1
          <5>2. f[1] = f[0] \o s[1]
            <6>1. 1 \in 1..n /\ 1 - 1 = 0
              BY <4>1
            <6>2. f[1] = f[1 - 1] \o s[1]
              BY <1>5, <6>1
            <6> QED
              BY <6>1, <6>2
          <5>3. s[1] \in Seq(D)
            BY <1>0, <4>1
          <5> QED
            BY <4>1, <5>1, <5>2, <5>3, <1>4
        <4>2. CASE k # 0
          <5>1. k \in 1..n /\ k + 1 # 1 /\ (k + 1) - 1 = k
            BY <4>2, <1>1
          <5>2. c[k + 1] = c[k] \o s[k + 1]
            BY <3>4, <5>1
          <5>3. f[k + 1] = f[k] \o s[k + 1]
            BY <1>5, <5>1
          <5> QED
            BY <3>6, <5>1, <5>2, <5>3
        <4> QED
          BY <4>1, <4>2
      <3> HIDE DEF T
      <3>7. Nat \subseteq T
        BY <3>5, <3>6, NatSetInduction
      <3>8. n \in T /\ n \in 1..n
        BY <3>7, <2>2, <1>1
      <3> QED
        BY <3>3, <3>8 DEF T
    <2> QED
      BY <2>1, <2>2
  <1> QED
    BY <1>6, <1>7, <1>0

=============================================================================
