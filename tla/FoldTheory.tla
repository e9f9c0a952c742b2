------------------------------ MODULE FoldTheory ------------------------------
(***************************************************************************)
(* What FoldLeft does, proved once for any operator and for sequences of   *)
(* any length.  The loops of the gateway that Routes and Cookies write as  *)
(* folds (path.Clean and url.PathUnescape in httpserver/routes.go, the     *)
(* parameters in server.go, nativeLoginReturnTo, the headers in            *)
(* security/cookie.go) are instances.                                      *)
(***************************************************************************)
EXTENDS Integers, SequencesExt, SequenceTheorems, WellFoundedInduction, TLAPS

CONSTANT op(_, _, _)

Fold(c, d, s) == FoldLeft(LAMBDA acc, x : op(c, acc, x), d, s)

-----------------------------------------------------------------------------
(* Induction over the naturals, with a set in place of a predicate. *)

LEMMA Least ==
  ASSUME NEW T \in SUBSET Nat, T # {}
  PROVE  \E x \in T : \A y \in T : x <= y
<1> DEFINE R == OpToRel(<, Nat)
<1>1. IsWellFoundedOn(R, Nat)
  BY NatLessThanWellFounded DEF OpToRel
<1>2. \A x, y \in Nat : y < x => <<y, x>> \in R
  BY DEF OpToRel
<1>3. PICK x \in T : \A y \in T : <<y, x>> \notin R
  <2> HIDE DEF R
  <2> QED
    BY <1>1, WFMin
<1>4. ASSUME NEW y \in T
      PROVE  x <= y
  <2> HIDE DEF R
  <2>1. ~(y < x)
    BY <1>2, <1>3
  <2> QED
    BY <2>1
<1> HIDE DEF R
<1> QED
  BY <1>4

\* A set that holds 0 and with every number the next holds all of them: what
\* is said of a loop over a path or a header (routes.go:38-54, cookie.go:107-159)
\* may be said length by length.
THEOREM Induct ==
  ASSUME NEW T, 0 \in T, \A n \in Nat : n \in T => n + 1 \in T
  PROVE  Nat \subseteq T
<1> SUFFICES ASSUME Nat \ T # {}
             PROVE  FALSE
  OBVIOUS
<1>1. PICK x \in Nat \ T : \A y \in Nat \ T : x <= y
  BY Least
<1>2. x # 0
  OBVIOUS
<1>3. x - 1 \in Nat /\ x - 1 \in T
  BY <1>1, <1>2
<1> QED
  BY <1>1, <1>3

\* A set that holds the empty sequence and with every sequence all that are one
\* longer holds all of them: what is said of a path, a jar or a header of any
\* length (routes.go:38-54, cookie.go:107-213).
THEOREM SeqInduct ==
  ASSUME NEW X, NEW T, <<>> \in T,
         \A v \in Seq(X), e \in X : v \in T =>
            \A u : u = Append(v, e) => u \in T
  PROVE  Seq(X) \subseteq T
<1> DEFINE N == {n \in Nat : \A u \in Seq(X) : Len(u) = n => u \in T}
<1>1. 0 \in N
  <2>1. \A u \in Seq(X) : Len(u) = 0 => u = <<>>
    OBVIOUS
  <2> QED
    BY <2>1
<1>2. ASSUME NEW n \in Nat, n \in N
      PROVE  n + 1 \in N
  <2>1. ASSUME NEW u \in Seq(X), Len(u) = n + 1
        PROVE  u \in T
    <3>1. PICK v \in Seq(X), e \in X : u = Append(v, e)
      <4>1. u # <<>>
        BY <2>1
      <4> QED
        BY <4>1, SequenceEmptyOrAppend, Zenon
    <3>2. Len(v) = n
      BY <2>1, <3>1
    <3>3. v \in T
      BY <1>2, <3>2
    <3> QED
      BY <3>1, <3>3, Zenon
  <2> QED
    BY <2>1
<1>3. Nat \subseteq N
  <2> HIDE DEF N
  <2> QED
    BY <1>1, <1>2, Induct
<1>4. ASSUME NEW u \in Seq(X)
      PROVE  u \in T
  <2>1. Len(u) \in Nat
    OBVIOUS
  <2> QED
    BY <1>3, <2>1
<1> QED
  BY <1>4

-----------------------------------------------------------------------------
(* FoldLeft picks a function on the sets of positions of a sequence. *)

LEMMA Unfold ==
  ASSUME NEW c, NEW d, NEW s
  PROVE  Fold(c, d, s) =
           (CHOOSE iter : iter = [x \in SUBSET DOMAIN s |->
                IF x = {} THEN d ELSE op(c, iter[x \ {Max(x)}], s[Max(x)])])[DOMAIN s]
BY DEF Fold, FoldLeft, MapThenFoldSet

LEMMA NoPosition == 1..0 = {}
<1>1. \A y : y \notin 1..0
  OBVIOUS
<1> QED
  BY <1>1

LEMMA Greatest ==
  ASSUME NEW m \in Nat, NEW x \in SUBSET (1..m), x # {}
  PROVE  Max(x) \in x /\ \A y \in x : y <= Max(x)
<1> DEFINE T == {m - i : i \in x}
<1>1. T \in SUBSET Nat /\ T # {}
  <2>1. \A i \in x : m - i \in Nat
    OBVIOUS
  <2>2. \E i \in x : TRUE
    OBVIOUS
  <2> QED
    BY <2>1, <2>2
<1>2. PICK t \in T : \A u \in T : t <= u
  BY <1>1, Least
<1>3. PICK i \in x : t = m - i
  OBVIOUS
<1>4. \A y \in x : i >= y
  <2>1. \A y \in x : m - y \in T
    OBVIOUS
  <2> QED
    BY <1>2, <1>3, <2>1
<1>5. \E z \in x : \A y \in x : z >= y
  BY <1>4
<1>6. Max(x) \in x /\ \A y \in x : Max(x) >= y
  BY <1>5 DEF Max
<1> QED
  BY <1>6

\* g folds the first m elements of s.
Folds(g, c, d, s, m) ==
    g = [x \in SUBSET (1..m) |->
            IF x = {} THEN d ELSE op(c, g[x \ {Max(x)}], s[Max(x)])]

LEMMA OneMore ==
  ASSUME NEW c, NEW d, NEW s, NEW n \in Nat, NEW g, Folds(g, c, d, s, n)
  PROVE  \E h : Folds(h, c, d, s, n + 1)
<1> DEFINE h == [x \in SUBSET (1..(n + 1)) |->
                    IF x \subseteq 1..n THEN g[x]
                                        ELSE op(c, g[x \ {n + 1}], s[n + 1])]
<1>1. ASSUME NEW x \in SUBSET (1..(n + 1))
      PROVE  h[x] = IF x = {} THEN d ELSE op(c, h[x \ {Max(x)}], s[Max(x)])
  <2>1. CASE x = {}
    BY <2>1 DEF Folds
  <2>2. CASE x # {} /\ x \subseteq 1..n
    <3>1. x \ {Max(x)} \subseteq 1..n
      BY <2>2
    <3> QED
      BY <2>2, <3>1 DEF Folds
  <2>3. CASE ~(x \subseteq 1..n)
    <3>1. n + 1 \in x
      BY <2>3
    <3>2. Max(x) \in x /\ \A y \in x : y <= Max(x)
      BY <3>1, Greatest
    <3>3. Max(x) = n + 1
      <4>1. n + 1 <= Max(x) /\ Max(x) \in 1..(n + 1)
        BY <3>1, <3>2
      <4> QED
        BY <4>1
    <3>4. x \ {n + 1} \subseteq 1..n
      OBVIOUS
    <3> QED
      BY <2>3, <3>1, <3>3, <3>4
  <2> QED
    BY <2>1, <2>2, <2>3
<1>2. h = [x \in SUBSET (1..(n + 1)) |->
              IF x = {} THEN d ELSE op(c, h[x \ {Max(x)}], s[Max(x)])]
  BY <1>1
<1> QED
  BY <1>2 DEF Folds

LEMMA Exists ==
  ASSUME NEW c, NEW d, NEW s, NEW m \in Nat
  PROVE  \E g : Folds(g, c, d, s, m)
<1> DEFINE T == {n \in Nat : \E g : Folds(g, c, d, s, n)}
<1>1. 0 \in T
  <2> DEFINE g == [x \in SUBSET (1..0) |-> d]
  <2>1. \A x \in SUBSET (1..0) : x = {}
    BY NoPosition
  <2>2. g = [x \in SUBSET (1..0) |->
                IF x = {} THEN d ELSE op(c, g[x \ {Max(x)}], s[Max(x)])]
    BY <2>1
  <2>3. Folds(g, c, d, s, 0)
    BY <2>2 DEF Folds
  <2> HIDE DEF g
  <2> QED
    BY <2>3
<1>2. \A n \in Nat : n \in T => n + 1 \in T
  BY OneMore
<1>3. Nat \subseteq T
  <2> HIDE DEF T
  <2> QED
    BY <1>1, <1>2, Induct
<1> QED
  BY <1>3

\* Two such functions agree on positions where the sequences do.
LEMMA Agree ==
  ASSUME NEW c, NEW d, NEW s, NEW t, NEW m \in Nat,
         NEW g, Folds(g, c, d, s, m), NEW h, Folds(h, c, d, t, m + 1),
         \A i \in 1..m : s[i] = t[i]
  PROVE  g[1..m] = h[1..m]
<1> DEFINE T == {n \in Nat : n <= m => \A x \in SUBSET (1..n) : g[x] = h[x]}
<1>1. 0 \in T
  <2>1. g[{}] = d /\ h[{}] = d
    BY DEF Folds
  <2> QED
    BY <2>1, NoPosition
<1>2. ASSUME NEW n \in Nat, n \in T
      PROVE  n + 1 \in T
  <2>1. ASSUME n + 1 <= m, NEW x \in SUBSET (1..(n + 1))
        PROVE  g[x] = h[x]
    <3>1. CASE x = {}
      BY <3>1 DEF Folds
    <3>2. CASE x # {}
      <4>1. Max(x) \in x /\ \A y \in x : y <= Max(x)
        BY <2>1, <3>2, Greatest
      <4>2. x \ {Max(x)} \in SUBSET (1..n)
        <5>1. Max(x) \in 1..(n + 1)
          BY <4>1
        <5>2. ASSUME NEW y \in x, y # Max(x)
              PROVE  y \in 1..n
          <6>1. y \in 1..(n + 1) /\ y <= Max(x)
            BY <4>1
          <6> QED
            BY <5>1, <5>2, <6>1
        <5> QED
          BY <5>2
      <4>3. g[x \ {Max(x)}] = h[x \ {Max(x)}]
        BY <1>2, <2>1, <4>2
      <4>4. x \in SUBSET (1..m) /\ x \in SUBSET (1..(m + 1)) /\ Max(x) \in 1..m
        <5>1. \A y \in x : y \in 1..m /\ y \in 1..(m + 1)
          BY <2>1
        <5> QED
          BY <4>1, <5>1
      <4>5. /\ g[x] = op(c, g[x \ {Max(x)}], s[Max(x)])
            /\ h[x] = op(c, h[x \ {Max(x)}], t[Max(x)])
        BY <3>2, <4>4 DEF Folds
      <4> QED
        BY <4>3, <4>4, <4>5
    <3> QED
      BY <3>1, <3>2
  <2> QED
    BY <2>1
<1>3. m \in T
  <2> HIDE DEF T
  <2> QED
    BY <1>1, <1>2, Induct
<1> QED
  BY <1>3

LEMMA FoldIs ==
  ASSUME NEW X, NEW c, NEW d, NEW s \in Seq(X)
  PROVE  \E g : Folds(g, c, d, s, Len(s)) /\ Fold(c, d, s) = g[1..Len(s)]
<1>1. Len(s) \in Nat /\ DOMAIN s = 1..Len(s)
  OBVIOUS
<1> DEFINE g == CHOOSE iter : Folds(iter, c, d, s, Len(s))
<1>2. Folds(g, c, d, s, Len(s))
  BY <1>1, Exists
<1>3. Fold(c, d, s) = g[1..Len(s)]
  BY <1>1, Unfold DEF Folds
<1> HIDE DEF g
<1> QED
  BY <1>2, <1>3
-----------------------------------------------------------------------------
(* The laws of FoldLeft. *)

\* A loop over nothing returns what it started with: the clean form of the root
\* is the root (routes.go:38-54).
THEOREM FoldEmpty ==
  ASSUME NEW c, NEW d
  PROVE  Fold(c, d, <<>>) = d
<1>1. <<>> \in Seq({}) /\ Len(<<>>) = 0
  OBVIOUS
<1>2. PICK g : Folds(g, c, d, <<>>, 0) /\ Fold(c, d, <<>>) = g[1..0]
  <2>1. \A s \in Seq({}) : \E g : Folds(g, c, d, s, Len(s)) /\ Fold(c, d, s) = g[1..Len(s)]
    BY FoldIs
  <2>2. \E g : Folds(g, c, d, <<>>, Len(<<>>)) /\ Fold(c, d, <<>>) = g[1..Len(<<>>)]
    BY <1>1, <2>1, Zenon
  <2> QED
    BY <1>1, <2>2
<1> QED
  BY <1>2, NoPosition DEF Folds

\* t is s with e behind it, v is s with t behind it; said without Append and
\* \o, which the provers expand too soon.
Extends(t, s, e) == /\ Len(t) = Len(s) + 1 /\ t[Len(t)] = e
                    /\ \A i \in 1..Len(s) : t[i] = s[i]

Joined(v, s, t) == /\ Len(v) = Len(s) + Len(t)
                   /\ \A i \in 1..Len(s) : v[i] = s[i]
                   /\ \A i \in 1..Len(t) : v[Len(s) + i] = t[i]

LEMMA AppendExtends ==
  ASSUME NEW X, NEW s \in Seq(X), NEW e \in X
  PROVE  \A t : t = Append(s, e) => t \in Seq(X) /\ Extends(t, s, e)
BY DEF Extends

LEMMA ConcatJoins ==
  ASSUME NEW X, NEW s \in Seq(X), NEW t \in Seq(X)
  PROVE  \A v : v = s \o t => v \in Seq(X) /\ Joined(v, s, t)
BY DEF Joined

\* One element more is one step more: a path with a segment behind it is cleaned
\* up to that segment first (routes.go:38-54).
THEOREM FoldAppend ==
  ASSUME NEW X, NEW c, NEW d, NEW s \in Seq(X), NEW e, NEW t \in Seq(X),
         Extends(t, s, e)
  PROVE  Fold(c, d, t) = op(c, Fold(c, d, s), e)
<1>1. PICK n \in Nat : /\ n = Len(s) /\ n + 1 = Len(t) /\ t[n + 1] = e
                      /\ \A i \in 1..n : s[i] = t[i]
  BY DEF Extends
<1>2. PICK g : Folds(g, c, d, s, n) /\ Fold(c, d, s) = g[1..n]
  BY <1>1, FoldIs
<1>3. PICK h : Folds(h, c, d, t, n + 1) /\ Fold(c, d, t) = h[1..(n + 1)]
  BY <1>1, FoldIs
<1>4. g[1..n] = h[1..n]
  <2>1. \A i \in 1..n : s[i] = t[i]
    BY <1>1
  <2>2. Folds(g, c, d, s, n) /\ Folds(h, c, d, t, n + 1)
    BY <1>2, <1>3
  <2> QED
    BY <2>1, <2>2, Agree
<1>5. Max(1..(n + 1)) = n + 1
  <2>1. n + 1 \in Nat /\ n + 1 \in 1..(n + 1) /\ 1..(n + 1) \in SUBSET (1..(n + 1))
    OBVIOUS
  <2>2. 1..(n + 1) # {}
    BY <2>1
  <2>3. Max(1..(n + 1)) \in 1..(n + 1) /\ n + 1 <= Max(1..(n + 1))
    BY <2>1, <2>2, Greatest
  <2> QED
    BY <2>3
<1>6. (1..(n + 1)) \ {n + 1} = 1..n /\ 1..(n + 1) # {}
  <2>1. n + 1 \in 1..(n + 1)
    OBVIOUS
  <2>2. \A i : i \in (1..(n + 1)) \ {n + 1} <=> i \in 1..n
    OBVIOUS
  <2> QED
    BY <2>1, <2>2, Zenon
<1>7. h[1..(n + 1)] = op(c, h[1..n], t[n + 1])
  <2>1. \A x \in SUBSET (1..(n + 1)) :
           x # {} => h[x] = op(c, h[x \ {Max(x)}], t[Max(x)])
    BY <1>3 DEF Folds
  <2> QED
    BY <1>5, <1>6, <2>1, Zenon
<1> QED
  BY <1>1, <1>2, <1>3, <1>4, <1>7

HasPrefix(X, v, k) == \E y \in Seq(X) : Len(y) = k /\ \A i \in 1..k : y[i] = v[i]

LEMMA PrefixOf ==
  ASSUME NEW X, NEW v \in Seq(X), NEW k \in 0..Len(v)
  PROVE  HasPrefix(X, v, k)
<1> DEFINE y == SubSeq(v, 1, k)
<1>1. y \in Seq(X) /\ Len(y) = k
  OBVIOUS
<1>2. \A i \in 1..k : y[i] = v[i]
  OBVIOUS
<1> HIDE DEF y
<1> QED
  BY <1>1, <1>2 DEF HasPrefix

\* What every step keeps holds of the result: whatever parameters a login has,
\* only targets that pass the checks are collected (server.go:641-683).
THEOREM FoldType ==
  ASSUME NEW X, NEW D, NEW c, NEW d \in D,
         \A y \in D, x \in X : op(c, y, x) \in D,
         NEW s \in Seq(X)
  PROVE  Fold(c, d, s) \in D
<1> DEFINE T == {n \in Nat : \A u \in Seq(X) : Len(u) = n => Fold(c, d, u) \in D}
<1>1. 0 \in T
  BY FoldEmpty
<1>2. ASSUME NEW n \in Nat, n \in T
      PROVE  n + 1 \in T
  <2>1. ASSUME NEW u \in Seq(X), Len(u) = n + 1
        PROVE  Fold(c, d, u) \in D
    <3>1. PICK v \in Seq(X) : Len(v) = n /\ \A i \in 1..n : v[i] = u[i]
      <4>1. n \in 0..Len(u)
        BY <2>1
      <4>2. HasPrefix(X, u, n)
        BY <4>1, PrefixOf, Zenon
      <4> QED
        BY <4>2 DEF HasPrefix
    <3>2. Fold(c, d, u) = op(c, Fold(c, d, v), u[Len(u)])
      <4>1. Extends(u, v, u[Len(u)])
        BY <2>1, <3>1 DEF Extends
      <4> QED
        BY <4>1, FoldAppend
    <3>3. u[Len(u)] \in X
      BY <2>1
    <3> QED
      BY <1>2, <3>1, <3>2, <3>3
  <2> QED
    BY <2>1
<1>3. Len(s) \in T
  <2> HIDE DEF T
  <2> QED
    BY <1>1, <1>2, Induct
<1> QED
  BY <1>3

\* A loop over two sequences in a row is two loops in a row, so that a part of a
\* path can be exchanged for one that does the same (routes.go:38-54).
THEOREM FoldConcat ==
  ASSUME NEW X, NEW c, NEW d, NEW s \in Seq(X), NEW t \in Seq(X), NEW w \in Seq(X),
         Joined(w, s, t)
  PROVE  Fold(c, d, w) = Fold(c, Fold(c, d, s), t)
<1> DEFINE T == {n \in Nat : \A u, v \in Seq(X) : Len(u) = n /\ Joined(v, s, u) =>
                    Fold(c, d, v) = Fold(c, Fold(c, d, s), u)}
<1>1. 0 \in T
  <2>1. ASSUME NEW u \in Seq(X), NEW v \in Seq(X), Len(u) = 0, Joined(v, s, u)
        PROVE  Fold(c, d, v) = Fold(c, Fold(c, d, s), u)
    <3>1. u = <<>> /\ v = s
      <4>1. Len(v) = Len(s) /\ \A i \in 1..Len(s) : v[i] = s[i]
        BY <2>1 DEF Joined
      <4> QED
        BY <2>1, <4>1, SeqEqual, EmptySeq
    <3> QED
      BY <3>1, FoldEmpty
  <2> QED
    BY <2>1
<1>2. ASSUME NEW n \in Nat, n \in T
      PROVE  n + 1 \in T
  <2>1. ASSUME NEW u \in Seq(X), NEW v \in Seq(X), Len(u) = n + 1, Joined(v, s, u)
        PROVE  Fold(c, d, v) = Fold(c, Fold(c, d, s), u)
    <3>1. PICK x \in Seq(X) : Len(x) = n /\ \A i \in 1..n : x[i] = u[i]
      <4>1. n \in 0..Len(u)
        BY <2>1
      <4>2. HasPrefix(X, u, n)
        BY <4>1, PrefixOf, Zenon
      <4> QED
        BY <4>2 DEF HasPrefix
    <3>2. PICK k \in Nat : k = Len(s) + n /\ k + 1 = Len(v)
      <4>1. Len(s) \in Nat
        OBVIOUS
      <4>2. Len(u) = n + 1 /\ Len(v) = Len(s) + Len(u)
        BY <2>1, Zenon DEF Joined
      <4>3. Len(s) + n \in Nat /\ (Len(s) + n) + 1 = Len(v)
        BY <4>1, <4>2
      <4> QED
        BY <4>3, Zenon
    <3>3. PICK y \in Seq(X) : Len(y) = k /\ \A i \in 1..k : y[i] = v[i]
      <4>1. k \in 0..Len(v)
        BY <3>2
      <4>2. HasPrefix(X, v, k)
        BY <4>1, PrefixOf, Zenon
      <4> QED
        BY <4>2 DEF HasPrefix
    <3>4. Joined(y, s, x)
      <4>1. Len(s) \in Nat /\ Len(y) = Len(s) + Len(x)
        BY <3>1, <3>2, <3>3
      <4>2. \A i \in 1..Len(s) : y[i] = s[i]
        BY <2>1, <3>2, <3>3, <4>1 DEF Joined
      <4>3. ASSUME NEW i \in 1..n
            PROVE  y[Len(s) + i] = x[i]
        <5>1. Len(s) + i \in 1..k /\ i \in 1..Len(u)
          BY <2>1, <3>2, <4>1
        <5> QED
          BY <2>1, <3>1, <3>3, <5>1 DEF Joined
      <4> QED
        BY <3>1, <4>1, <4>2, <4>3 DEF Joined
    <3>5. Fold(c, d, y) = Fold(c, Fold(c, d, s), x)
      BY <1>2, <3>1, <3>4
    <3>6. Fold(c, d, v) = op(c, Fold(c, d, y), v[Len(v)])
      <4>1. Extends(v, y, v[Len(v)])
        BY <3>2, <3>3 DEF Extends
      <4> QED
        BY <4>1, FoldAppend
    <3>7. Fold(c, Fold(c, d, s), u) = op(c, Fold(c, Fold(c, d, s), x), u[Len(u)])
      <4>1. Extends(u, x, u[Len(u)])
        BY <2>1, <3>1 DEF Extends
      <4> QED
        BY <4>1, FoldAppend
    <3>8. v[Len(v)] = u[Len(u)]
      BY <2>1, <3>2 DEF Joined
    <3> QED
      BY <3>5, <3>6, <3>7, <3>8
  <2> QED
    BY <2>1
<1>3. Len(t) \in T
  <2>1. Len(t) \in Nat
    OBVIOUS
  <2> HIDE DEF T
  <2> QED
    BY <1>1, <1>2, <2>1, Induct
<1> QED
  BY <1>3
=============================================================================
