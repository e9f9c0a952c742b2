----------------------------- MODULE BrowserProofs -----------------------------
(***************************************************************************)
(* Theorems about Routes and Cookies, for paths, jars and headers of any   *)
(* length.  The loops of the code are folds; FoldTheory says what they do. *)
(***************************************************************************)
EXTENDS MCBrowser, SequenceTheorems, TLAPS

-----------------------------------------------------------------------------
(* CleanPath and Unescape are folds. *)

Walking(c, done, s) == Walk(done, s)
Unescaping(c, done, s) == done \o Unescaped(s)
Gathering(c, usable, v) == usable \o Candidates(v)

W == INSTANCE FoldTheory WITH op <- Walking
U == INSTANCE FoldTheory WITH op <- Unescaping
G == INSTANCE FoldTheory WITH op <- Gathering

LEMMA UnescapeIsFold == ASSUME NEW p PROVE Unescape(p) = U!Fold(0, <<>>, p)
BY DEF Unescape, Unescaping, U!Fold, U!Max, Max, U!FoldLeft, U!MapThenFoldSet,
       FoldLeft, MapThenFoldSet

LEMMA CleanPathIsFold ==
  ASSUME NEW p PROVE CleanPath(p) = W!Fold(0, <<>>, Unescape(p))
BY DEF CleanPath, Walking, W!Fold, W!Max, Max, W!FoldLeft, W!MapThenFoldSet,
       FoldLeft, MapThenFoldSet

LEMMA GatherIsFold ==
  ASSUME NEW params
  PROVE  Offered(params) = G!Fold(0, <<>>, params)
BY DEF Offered, Gathering, G!Fold, G!Max, Max, G!FoldLeft, G!MapThenFoldSet,
       FoldLeft, MapThenFoldSet

Word == Words \cup {"", ".", "..", "rest", "webhook"}
Segment == [words : Seq(Word), escaped : Nat]

LEMMA SegOK ==
  /\ \A w \in Word : Seg(w) \in Segment
  /\ \A words \in Seq(Word) : Path(words) \in Seq(Segment) /\ Len(Path(words)) = Len(words)
<1>1. ASSUME NEW w \in Word
      PROVE  Seg(w) \in Segment
  BY DEF Seg, Segment
<1>2. ASSUME NEW words \in Seq(Word)
      PROVE  Path(words) \in Seq(Segment) /\ Len(Path(words)) = Len(words)
  <2>1. \A i \in 1..Len(words) : words[i] \in Word
    OBVIOUS
  <2> QED
    BY <1>1, <2>1 DEF Path
<1> QED
  BY <1>1, <1>2

LEMMA UnescapedOK == \A s \in Segment : Unescaped(s) \in Seq(Segment)
<1> SUFFICES ASSUME NEW s \in Segment
             PROVE  Unescaped(s) \in Seq(Segment)
  OBVIOUS
<1>1. CASE s.escaped = 0
  BY <1>1 DEF Unescaped
<1>2. CASE s.escaped = 1
  <2>1. Unescaped(s) = Path(s.words)
    BY <1>2 DEF Unescaped
  <2>2. s.words \in Seq(Word)
    BY DEF Segment
  <2> QED
    BY <2>1, <2>2, SegOK
<1>3. CASE s.escaped > 1
  <2>1. [s EXCEPT !.escaped = @ - 1] \in Segment
    BY <1>3 DEF Segment
  <2> QED
    BY <1>3, <2>1 DEF Unescaped
<1> QED
  BY <1>1, <1>2, <1>3 DEF Segment

LEMMA UnescapingOK ==
  \A d \in Seq(Segment), s \in Segment : Unescaping(0, d, s) \in Seq(Segment)
BY UnescapedOK DEF Unescaping

LEMMA UnescapeType == \A p \in Seq(Segment) : Unescape(p) \in Seq(Segment)
<1> SUFFICES ASSUME NEW p \in Seq(Segment)
             PROVE  Unescape(p) \in Seq(Segment)
  OBVIOUS
<1>1. <<>> \in Seq(Segment)
  OBVIOUS
<1> QED
  BY <1>1, UnescapingOK, UnescapeIsFold, U!FoldType

LEMMA Associative ==
  \A p, q, r \in Seq(Segment) : (p \o q) \o r = p \o (q \o r)
BY ConcatAssociative

LEMMA UnescapeAppend ==
  ASSUME NEW v \in Seq(Segment), NEW s \in Segment
  PROVE  \A q, d : q = Append(v, s) =>
           U!Fold(0, d, q) = Unescaping(0, U!Fold(0, d, v), s)
<1>1. \A q : q = Append(v, s) => q \in Seq(Segment) /\ U!Extends(q, v, s)
  BY U!AppendExtends
<1>2. \A q \in Seq(Segment) : \A d : U!Extends(q, v, s) =>
         U!Fold(0, d, q) = Unescaping(0, U!Fold(0, d, v), s)
  BY U!FoldAppend
<1> QED
  BY <1>1, <1>2, Zenon

LEMMA UnescapeStep ==
  ASSUME NEW d \in Seq(Segment), NEW v \in Seq(Segment), NEW s \in Segment,
         NEW q, q = Append(v, s)
  PROVE  U!Fold(0, d, v) = d \o Unescape(v) => U!Fold(0, d, q) = d \o Unescape(q)
<1>1. \A e : U!Fold(0, e, q) = U!Fold(0, e, v) \o Unescaped(s)
  <2>1. \A e : U!Fold(0, e, q) = Unescaping(0, U!Fold(0, e, v), s)
    BY UnescapeAppend, Zenon
  <2> QED
    BY <2>1, Zenon DEF Unescaping
<1>2. Unescape(q) = Unescape(v) \o Unescaped(s)
  BY <1>1, UnescapeIsFold, Zenon
<1>3. Unescape(v) \in Seq(Segment) /\ Unescaped(s) \in Seq(Segment)
  BY UnescapeType, UnescapedOK, Zenon
<1>4. (d \o Unescape(v)) \o Unescaped(s) = d \o (Unescape(v) \o Unescaped(s))
  BY <1>3, Associative, Zenon
<1>5. U!Fold(0, d, q) = U!Fold(0, d, v) \o Unescaped(s)
  BY <1>1, Zenon
<1> QED
  BY <1>2, <1>4, <1>5, Zenon

\* Unescaping goes on where it stopped.
LEMMA UnescapeMore ==
  ASSUME NEW d \in Seq(Segment), NEW p \in Seq(Segment)
  PROVE  U!Fold(0, d, p) = d \o Unescape(p)
<1> DEFINE Holds(q) == U!Fold(0, d, q) = d \o Unescape(q)
           T == {n \in Nat : \A q \in Seq(Segment) : Len(q) = n => Holds(q)}
<1>1. Holds(<<>>)
  <2>1. Unescape(<<>>) = <<>> /\ U!Fold(0, d, <<>>) = d
    BY UnescapeIsFold, U!FoldEmpty
  <2> QED
    BY <2>1
<1>2. ASSUME NEW v \in Seq(Segment), NEW s \in Segment, Holds(v)
      PROVE  \A q : q = Append(v, s) => Holds(q)
  BY <1>2, UnescapeStep, Zenon
<1>3. 0 \in T
  <2> HIDE DEF Holds
  <2>1. \A q \in Seq(Segment) : Len(q) = 0 => q = <<>>
    OBVIOUS
  <2> QED
    BY <1>1, <2>1
<1>4. ASSUME NEW n \in Nat, n \in T
      PROVE  n + 1 \in T
  <2> HIDE DEF Holds
  <2>1. ASSUME NEW q \in Seq(Segment), Len(q) = n + 1
        PROVE  Holds(q)
    <3>1. PICK v \in Seq(Segment), s \in Segment : q = Append(v, s)
      BY <2>1, SequenceEmptyOrAppend
    <3>2. Len(v) = n
      BY <2>1, <3>1
    <3>3. Holds(v)
      BY <1>4, <3>2
    <3> QED
      BY <1>2, <3>1, <3>3, Zenon
  <2> QED
    BY <2>1
<1>5. Len(p) \in T
  <2>1. Len(p) \in Nat
    OBVIOUS
  <2> HIDE DEF T
  <2> QED
    BY <1>3, <1>4, <2>1, U!Induct
<1> QED
  BY <1>5

LEMMA UnescapeConcat ==
  ASSUME NEW p \in Seq(Segment), NEW q \in Seq(Segment)
  PROVE  \A r : r = p \o q => Unescape(r) = Unescape(p) \o Unescape(q)
<1>1. \A x : Unescape(x) = U!Fold(0, <<>>, x)
  BY UnescapeIsFold, Zenon
<1>2. \A r : r = p \o q => U!Fold(0, <<>>, r) = U!Fold(0, U!Fold(0, <<>>, p), q)
  <2>1. \A r : r = p \o q => r \in Seq(Segment) /\ U!Joined(r, p, q)
    BY U!ConcatJoins
  <2>2. \A r \in Seq(Segment) : U!Joined(r, p, q) =>
           U!Fold(0, <<>>, r) = U!Fold(0, U!Fold(0, <<>>, p), q)
    BY U!FoldConcat
  <2> QED
    BY <2>1, <2>2, Zenon
<1>3. U!Fold(0, Unescape(p), q) = Unescape(p) \o Unescape(q)
  BY UnescapeType, UnescapeMore
<1> QED
  BY <1>1, <1>2, <1>3, Zenon

LEMMA UnescapeEmpty == Unescape(<<>>) = <<>>
BY UnescapeIsFold, U!FoldEmpty

LEMMA UnescapeOne ==
  ASSUME NEW s \in Segment
  PROVE  Unescape(<<s>>) = Unescaped(s)
<1>1. <<s>> = Append(<<>>, s) /\ <<>> \in Seq(Segment)
  OBVIOUS
<1>2. U!Fold(0, <<>>, <<s>>) = Unescaping(0, U!Fold(0, <<>>, <<>>), s)
  BY <1>1, UnescapeAppend, Zenon
<1>3. U!Fold(0, <<>>, <<>>) = <<>>
  BY U!FoldEmpty
<1>4. <<>> \o Unescaped(s) = Unescaped(s)
  BY UnescapedOK
<1>5. Unescape(<<s>>) = U!Fold(0, <<>>, <<s>>)
  BY UnescapeIsFold
<1> QED
  BY <1>2, <1>3, <1>4, <1>5, Zenon DEF Unescaping

-----------------------------------------------------------------------------
(* Cleaning goes on where it stopped. *)

Cleaned(d, p) == W!Fold(0, d, Unescape(p))

LEMMA WalkType ==
  ASSUME NEW d \in Seq(Segment), NEW s \in Segment
  PROVE  Walk(d, s) \in Seq(Segment)
<1>1. \/ Walk(d, s) = d
      \/ d # <<>> /\ Walk(d, s) = Front(d)
      \/ Walk(d, s) = Append(d, s)
  BY DEF Walk
<1>2. d # <<>> => Front(d) \in Seq(Segment)
  BY DEF Front
<1>3. Append(d, s) \in Seq(Segment)
  OBVIOUS
<1> QED
  BY <1>1, <1>2, <1>3, Zenon

LEMMA CleanedType ==
  ASSUME NEW d \in Seq(Segment), NEW p \in Seq(Segment)
  PROVE  Cleaned(d, p) \in Seq(Segment)
<1>1. \A y \in Seq(Segment), x \in Segment : Walking(0, y, x) \in Seq(Segment)
  BY WalkType DEF Walking
<1>2. Unescape(p) \in Seq(Segment)
  BY UnescapeType
<1> QED
  BY <1>1, <1>2, W!FoldType DEF Cleaned

LEMMA CleanedConcat ==
  ASSUME NEW d, NEW p \in Seq(Segment), NEW q \in Seq(Segment)
  PROVE  Cleaned(d, p \o q) = Cleaned(Cleaned(d, p), q)
<1>1. PICK r \in Seq(Segment) : r = p \o q /\ Unescape(r) = Unescape(p) \o Unescape(q)
  <2>1. p \o q \in Seq(Segment)
    OBVIOUS
  <2> QED
    BY <2>1, UnescapeConcat, Zenon
<1>2. W!Joined(Unescape(r), Unescape(p), Unescape(q))
  <2>1. Unescape(p) \in Seq(Segment) /\ Unescape(q) \in Seq(Segment)
    BY UnescapeType
  <2> QED
    BY <1>1, <2>1, W!ConcatJoins
<1>3. W!Fold(0, d, Unescape(r)) = W!Fold(0, W!Fold(0, d, Unescape(p)), Unescape(q))
  BY <1>2, UnescapeType, W!FoldConcat
<1> QED
  BY <1>1, <1>3, Zenon DEF Cleaned

LEMMA CleanedPath == \A p : CleanPath(p) = Cleaned(<<>>, p)
BY CleanPathIsFold, Zenon DEF Cleaned

\* A path that is a, m and b, cleaned.
LEMMA CleanedAround ==
  ASSUME NEW a \in Seq(Segment), NEW m \in Seq(Segment), NEW b \in Seq(Segment)
  PROVE  CleanPath((a \o m) \o b) = Cleaned(Cleaned(Cleaned(<<>>, a), m), b)
<1>1. a \o m \in Seq(Segment)
  OBVIOUS
<1>2. Cleaned(<<>>, (a \o m) \o b) = Cleaned(Cleaned(<<>>, a \o m), b)
  BY <1>1, CleanedConcat, Zenon
<1>3. Cleaned(<<>>, a \o m) = Cleaned(Cleaned(<<>>, a), m)
  BY CleanedConcat, Zenon
<1> QED
  BY <1>2, <1>3, CleanedPath, Zenon

\* Two pieces that clean alike may stand for each other.
Alike(m, n) == /\ m \in Seq(Segment) /\ n \in Seq(Segment)
               /\ \A d \in Seq(Segment) : Cleaned(d, m) = Cleaned(d, n)

LEMMA Exchanged ==
  ASSUME NEW a \in Seq(Segment), NEW b \in Seq(Segment), NEW m, NEW n, Alike(m, n)
  PROVE  CleanPath((a \o m) \o b) = CleanPath((a \o n) \o b)
<1>1. Cleaned(<<>>, a) \in Seq(Segment)
  BY CleanedType, EmptySeq
<1> QED
  <2>1. /\ CleanPath((a \o m) \o b) = Cleaned(Cleaned(Cleaned(<<>>, a), m), b)
        /\ CleanPath((a \o n) \o b) = Cleaned(Cleaned(Cleaned(<<>>, a), n), b)
    BY CleanedAround, Zenon DEF Alike
  <2>2. Cleaned(Cleaned(<<>>, a), m) = Cleaned(Cleaned(<<>>, a), n)
    BY <1>1, Zenon DEF Alike
  <2> QED
    BY <2>1, <2>2, Zenon

-----------------------------------------------------------------------------
(* Pieces that clean alike. *)

LEMMA ConcatOK ==
  \A S : \A p, q \in Seq(S) : p \o q \in Seq(S) /\ (p # <<>> => p \o q # <<>>)
OBVIOUS

LEMMA PathOfOne == \A w : Path(<<w>>) = <<Seg(w)>>
BY DEF Path

LEMMA PathConcat ==
  \A v, w \in Seq(Word) : Path(v) \o Path(w) = Path(v \o w)
BY DEF Path

LEMMA SegApart ==
  /\ \A v, w : Seg(v) = Seg(w) => v = w
  /\ \A w : Seg(w).escaped = 0 /\ Seg(w).words = <<w>>
BY DEF Seg

LEMMA Steps ==
  /\ \A w \in {"rest", "webhook"} : Seg(w) \notin Skipped /\ Seg(w) # Seg("..")
  /\ Seg("..") \notin Skipped
<1>1. \A v, w : Seg(v) = Seg(w) => v = w
  BY SegApart
<1> QED
  BY <1>1, Zenon DEF Skipped

LEMMA CleanedNothing == \A d : Cleaned(d, <<>>) = d
BY UnescapeEmpty, W!FoldEmpty DEF Cleaned

LEMMA CleanedPlain ==
  ASSUME NEW d, NEW s \in Segment, s.escaped = 0
  PROVE  Cleaned(d, <<s>>) = Walk(d, s)
<1>1. Unescape(<<s>>) = <<s>>
  <2>1. Unescaped(s) = <<s>>
    BY DEF Unescaped
  <2> QED
    BY <2>1, UnescapeOne, Zenon
<1>2. <<s>> \in Seq(Segment) /\ <<>> \in Seq(Segment) /\ W!Extends(<<s>>, <<>>, s)
  BY DEF W!Extends
<1>3. W!Fold(0, d, <<s>>) = Walking(0, W!Fold(0, d, <<>>), s)
  <2>1. \A t, u \in Seq(Segment) : \A e : W!Extends(t, u, e) =>
           W!Fold(0, d, t) = Walking(0, W!Fold(0, d, u), e)
    BY W!FoldAppend
  <2> QED
    BY <1>2, <2>1, Zenon
<1>4. W!Fold(0, d, <<>>) = d
  BY W!FoldEmpty
<1> QED
  BY <1>1, <1>3, <1>4, Zenon DEF Cleaned, Walking

\* A slash more, or a dot.
LEMMA SkippedAlike ==
  ASSUME NEW s \in Skipped
  PROVE  s \in Segment /\ Alike(<<>>, <<s>>)
<1>1. s \in Segment /\ s.escaped = 0
  BY SegOK, SegApart, Zenon DEF Skipped, Word
<1>2. \A d : Cleaned(d, <<>>) = d /\ Cleaned(d, <<s>>) = d
  <2>1. \A d : Walk(d, s) = d
    BY Steps DEF Walk
  <2> QED
    BY <1>1, <2>1, CleanedNothing, CleanedPlain, Zenon
<1>3. <<>> \in Seq(Segment) /\ <<s>> \in Seq(Segment)
  BY <1>1
<1> QED
  BY <1>1, <1>2, <1>3, Zenon DEF Alike

\* A step down and back.
LEMMA DownAndBack ==
  ASSUME NEW w \in {"rest", "webhook"}
  PROVE  Alike(<<>>, Path(<<w, "..">>))
<1>1. /\ Seg(w) \in Segment /\ Seg(w).escaped = 0
      /\ Seg("..") \in Segment /\ Seg("..").escaped = 0
  BY SegOK, SegApart, Zenon DEF Word
<1>2. Path(<<w, "..">>) = <<Seg(w)>> \o <<Seg("..")>>
  BY DEF Path
<1>3. <<Seg(w)>> \in Seq(Segment) /\ <<Seg("..")>> \in Seq(Segment)
  BY <1>1
<1>4. Path(<<w, "..">>) \in Seq(Segment)
  BY <1>2, <1>3, ConcatOK, Zenon
<1>5. ASSUME NEW d \in Seq(Segment)
      PROVE  Cleaned(d, Path(<<w, "..">>)) = d
  <2>1. Cleaned(d, Path(<<w, "..">>)) = Cleaned(Cleaned(d, <<Seg(w)>>), <<Seg("..")>>)
    <3>1. Cleaned(d, <<Seg(w)>> \o <<Seg("..")>>)
            = Cleaned(Cleaned(d, <<Seg(w)>>), <<Seg("..")>>)
      BY <1>3, CleanedConcat, Zenon
    <3> QED
      BY <1>2, <3>1, Zenon
  <2>2. Cleaned(d, <<Seg(w)>>) = Append(d, Seg(w))
    <3>1. Walk(d, Seg(w)) = Append(d, Seg(w))
      BY Steps DEF Walk
    <3> QED
      BY <1>1, <3>1, CleanedPlain, Zenon
  <2>3. Walk(Append(d, Seg(w)), Seg("..")) = d
    <3>1. PICK e : e = Append(d, Seg(w))
      OBVIOUS
    <3>2. e # <<>> /\ Front(e) = d
      BY <1>1, <3>1 DEF Front
    <3> QED
      BY <3>1, <3>2, Steps DEF Walk
  <2> QED
    BY <1>1, <2>1, <2>2, <2>3, CleanedPlain, Zenon
<1> QED
  BY <1>4, <1>5, CleanedNothing, EmptySeq, Zenon DEF Alike

\* A step above the root.
LEMMA AboveRoot ==
  ASSUME NEW p \in Seq(Segment)
  PROVE  CleanPath(<<Seg("..")>> \o p) = CleanPath(p)
<1>1. Seg("..") \in Segment /\ Seg("..").escaped = 0
  BY SegOK, SegApart, Zenon DEF Word
<1>2. <<Seg("..")>> \in Seq(Segment)
  BY <1>1
<1>3. Cleaned(<<>>, <<Seg("..")>> \o p) = Cleaned(Cleaned(<<>>, <<Seg("..")>>), p)
  BY <1>2, CleanedConcat, Zenon
<1>4. Walk(<<>>, Seg("..")) = <<>>
  BY Steps DEF Walk
<1> QED
  BY <1>1, <1>3, <1>4, CleanedPlain, CleanedPath, Zenon

\* A segment as a request has it: written as one word, or escaped.
Spelled == {s \in Segment : /\ s.escaped <= 1 /\ s.words # <<>>
                            /\ s.escaped = 0 => Len(s.words) = 1}

LEMMA SpelledIsPath ==
  ASSUME NEW s \in Spelled
  PROVE  Unescape(<<s>>) = Path(s.words)
<1>1. s \in Segment /\ s.words \in Seq(Word) /\ s.escaped \in {0, 1}
  BY DEF Spelled, Segment
<1>2. Unescaped(s) = Path(s.words)
  <2>1. CASE s.escaped = 1
    BY <2>1 DEF Unescaped
  <2>2. CASE s.escaped = 0
    <3>0. s.words = <<s.words[1]>>
      BY <1>1, <2>2 DEF Spelled
    <3>1. Path(s.words) = <<Seg(s.words[1])>>
      BY <3>0, PathOfOne, Zenon
    <3>2. Seg(s.words[1]) = s
      <4>2. s = [words |-> s.words, escaped |-> s.escaped]
        BY <1>1 DEF Segment
      <4> QED
        BY <2>2, <3>0, <4>2, Zenon DEF Seg
    <3> QED
      BY <2>2, <3>1, <3>2 DEF Unescaped
  <2> QED
    BY <1>1, <2>1, <2>2
<1> QED
  BY <1>1, <1>2, UnescapeOne

LEMMA EscapedAlike ==
  ASSUME NEW s \in Spelled
  PROVE  /\ [s EXCEPT !.escaped = 1] \in Spelled
         /\ Alike(<<s>>, <<[s EXCEPT !.escaped = 1]>>)
<1>1. PICK t \in Spelled : t = [s EXCEPT !.escaped = 1] /\ t.words = s.words
  <2>1. [s EXCEPT !.escaped = 1] \in Spelled
    BY DEF Spelled, Segment
  <2>2. [s EXCEPT !.escaped = 1].words = s.words
    BY DEF Spelled, Segment
  <2> QED
    BY <2>1, <2>2, Zenon
<1>2. Unescape(<<s>>) = Unescape(<<t>>)
  BY <1>1, SpelledIsPath
<1>3. <<s>> \in Seq(Segment) /\ <<t>> \in Seq(Segment)
  BY DEF Spelled
<1> QED
  BY <1>1, <1>2, <1>3, Zenon DEF Alike, Cleaned

Fused(s, t) == [words |-> s.words \o t.words, escaped |-> 1]

\* An escaped slash.
LEMMA FusedAlike ==
  ASSUME NEW s \in Spelled, NEW t \in Spelled
  PROVE  Fused(s, t) \in Spelled /\ Alike(<<s>> \o <<t>>, <<Fused(s, t)>>)
<1>1. /\ s.words \in Seq(Word) /\ t.words \in Seq(Word)
      /\ s.words # <<>> /\ t.words # <<>>
      /\ <<s>> \in Seq(Segment) /\ <<t>> \in Seq(Segment)
  BY DEF Spelled, Segment
<1>2. PICK words \in Seq(Word) : words = s.words \o t.words /\ words # <<>>
  BY <1>1, ConcatOK, Zenon
<1>3. PICK f \in Spelled : f = Fused(s, t) /\ f.words = words
  <2>1. [words |-> words, escaped |-> 1] \in Spelled
    BY <1>2 DEF Spelled, Segment
  <2>2. [words |-> words, escaped |-> 1].words = words
    OBVIOUS
  <2> QED
    BY <1>2, <2>1, <2>2, Zenon DEF Fused
<1>4. Unescape(<<s>> \o <<t>>) = Unescape(<<s>>) \o Unescape(<<t>>)
  BY <1>1, UnescapeConcat, Zenon
<1>5. Path(s.words) \o Path(t.words) = Path(words)
  BY <1>1, <1>2, PathConcat, Zenon
<1>6. Unescape(<<s>> \o <<t>>) = Unescape(<<f>>)
  BY <1>3, <1>4, <1>5, SpelledIsPath
<1>7. <<s>> \o <<t>> \in Seq(Segment) /\ <<f>> \in Seq(Segment)
  BY <1>1, <1>3 DEF Spelled
<1> QED
  BY <1>3, <1>6, <1>7, Zenon DEF Alike, Cleaned

-----------------------------------------------------------------------------
(* Other spellings of a path clean to the same. *)

LEMMA CutAt ==
  ASSUME NEW S, NEW p \in Seq(S), NEW i \in 0..Len(p)
  PROVE  /\ SubSeq(p, 1, i) \in Seq(S) /\ SubSeq(p, i + 1, Len(p)) \in Seq(S)
         /\ p = SubSeq(p, 1, i) \o SubSeq(p, i + 1, Len(p))
<1>1. SubSeq(p, 1, i) \in Seq(S) /\ SubSeq(p, i + 1, Len(p)) \in Seq(S)
  OBVIOUS
<1>2. 1 \in 1..(Len(p) + 1) /\ i \in (1 - 1)..Len(p) /\ Len(p) \in i..Len(p)
  OBVIOUS
<1>3. SubSeq(p, 1, i) \o SubSeq(p, i + 1, Len(p)) = SubSeq(p, 1, Len(p))
  BY <1>2, ConcatAdjacentSubSeq
<1>4. SubSeq(p, 1, Len(p)) = p
  BY SubSeqFull
<1> QED
  BY <1>1, <1>3, <1>4, Zenon

LEMMA Pieces ==
  ASSUME NEW S, NEW p \in Seq(S), NEW i \in 1..Len(p)
  PROVE  /\ p[i] \in S /\ SubSeq(p, 1, i - 1) \in Seq(S)
         /\ p = (SubSeq(p, 1, i - 1) \o <<p[i]>>) \o SubSeq(p, i + 1, Len(p))
<1>1. p[i] \in S /\ SubSeq(p, 1, i - 1) \in Seq(S)
  OBVIOUS
<1>2. 1 \in 1..Len(p) /\ i \in 1..Len(p) /\ i \in 0..Len(p)
  OBVIOUS
<1>3. SubSeq(p, 1, i) = SubSeq(p, 1, i - 1) \o <<p[i]>>
  BY <1>2, SubSeqRecursiveSecond
<1> QED
  BY <1>1, <1>2, <1>3, CutAt, Zenon

Regrouped(a, x, y, b) == (a \o x) \o (y \o b) = (a \o (x \o y)) \o b

LEMMA Regroup ==
  ASSUME NEW a \in Seq(Segment), NEW x \in Seq(Segment),
         NEW y \in Seq(Segment), NEW b \in Seq(Segment)
  PROVE  Regrouped(a, x, y, b)
<1>0. a \o x \in Seq(Segment)
  OBVIOUS
<1>1. ((a \o x) \o y) \o b = (a \o x) \o (y \o b)
  BY <1>0, Associative, Zenon
<1>2. (a \o x) \o y = a \o (x \o y)
  BY Associative, Zenon
<1> QED
  BY <1>1, <1>2, Zenon DEF Regrouped

LEMMA TwoPieces ==
  ASSUME NEW p \in Seq(Segment), NEW i \in 1..(Len(p) - 1)
  PROVE  p = (SubSeq(p, 1, i - 1) \o (<<p[i]>> \o <<p[i + 1]>>))
               \o SubSeq(p, i + 2, Len(p))
<1>1. /\ i \in 1..Len(p) /\ i + 1 \in 1..Len(p) /\ Len(p) \in (i + 1)..Len(p)
      /\ (i + 1) + 1 = i + 2
  OBVIOUS
<1>2. p = (SubSeq(p, 1, i - 1) \o <<p[i]>>) \o SubSeq(p, i + 1, Len(p))
  BY <1>1, Pieces, Zenon
<1>3. SubSeq(p, i + 1, Len(p)) = <<p[i + 1]>> \o SubSeq(p, (i + 1) + 1, Len(p))
  BY <1>1, SubSeqRecursiveFirst, Zenon
<1>4. PICK a \in Seq(Segment) : a = SubSeq(p, 1, i - 1)
  <2>1. SubSeq(p, 1, i - 1) \in Seq(Segment)
    OBVIOUS
  <2> QED
    BY <2>1, Zenon
<1>5. PICK b \in Seq(Segment) : b = SubSeq(p, i + 2, Len(p))
  <2>1. SubSeq(p, i + 2, Len(p)) \in Seq(Segment)
    OBVIOUS
  <2> QED
    BY <2>1, Zenon
<1>6. PICK x \in Seq(Segment) : x = <<p[i]>>
  <2>1. <<p[i]>> \in Seq(Segment)
    OBVIOUS
  <2> QED
    BY <2>1, Zenon
<1>7. PICK y \in Seq(Segment) : y = <<p[i + 1]>>
  <2>1. <<p[i + 1]>> \in Seq(Segment)
    OBVIOUS
  <2> QED
    BY <2>1, Zenon
<1>8. p = (a \o x) \o (y \o b)
  BY <1>1, <1>2, <1>3, <1>4, <1>5, <1>6, <1>7, Zenon
<1>9. Regrouped(a, x, y, b)
  BY Regroup, Zenon
<1> QED
  BY <1>4, <1>5, <1>6, <1>7, <1>8, <1>9, Zenon DEF Regrouped

LEMMA SpelledSegment == \A p \in Seq(Spelled) : p \in Seq(Segment)
BY DEF Spelled

\* q spells p in another way, and goes where p goes.
Respells(q, p) == q \in Seq(Spelled) /\ CleanPath(q) = CleanPath(p)

\* What Exchanged says of whole spellings.
LEMMA Respelled ==
  ASSUME NEW a \in Seq(Spelled), NEW b \in Seq(Spelled), NEW m, NEW n \in Seq(Spelled),
         Alike(m, n), NEW p, p = (a \o m) \o b, NEW q, q = (a \o n) \o b
  PROVE  Respells(q, p)
<1>1. (a \o n) \o b \in Seq(Spelled)
  BY ConcatOK, Zenon
<1>2. CleanPath((a \o m) \o b) = CleanPath((a \o n) \o b)
  BY SpelledSegment, Exchanged, Zenon
<1> QED
  BY <1>1, <1>2, Zenon DEF Respells

LEMMA PlainSpelled == \A w \in Word : Seg(w) \in Spelled
<1>1. \A w : Len(<<w>>) = 1 /\ <<w>> # <<>>
  OBVIOUS
<1>2. \A w \in Word : /\ Seg(w) \in Segment /\ Seg(w).escaped = 0
                      /\ Seg(w).words # <<>> /\ Len(Seg(w).words) = 1
  BY <1>1, SegOK, SegApart, Zenon
<1> QED
  BY <1>2 DEF Spelled

LEMMA PlainPath ==
  \A words \in Seq(Word) : Path(words) \in Seq(Spelled)
BY PlainSpelled DEF Path

\* A slash more, or a dot.
LEMMA Inserted ==
  ASSUME NEW p \in Seq(Spelled), NEW i \in 1..(Len(p) + 1), NEW s \in Skipped
  PROVE  Respells(InsertAt(p, i, s), p)
<1>1. i - 1 \in 0..Len(p) /\ (i - 1) + 1 = i
  OBVIOUS
<1>2. /\ SubSeq(p, 1, i - 1) \in Seq(Spelled) /\ SubSeq(p, i, Len(p)) \in Seq(Spelled)
      /\ p = SubSeq(p, 1, i - 1) \o SubSeq(p, i, Len(p))
  BY <1>1, CutAt, Zenon
<1>3. PICK a \in Seq(Spelled) : a = SubSeq(p, 1, i - 1)
  BY <1>2, Zenon
<1>4. PICK b \in Seq(Spelled) : b = SubSeq(p, i, Len(p))
  BY <1>2, Zenon
<1>5. a \o <<>> = a
  OBVIOUS
<1>6. PICK n \in Seq(Spelled) : n = <<s>>
  <2>1. s \in Spelled
    BY PlainSpelled, Zenon DEF Skipped, Word
  <2>2. <<s>> \in Seq(Spelled)
    BY <2>1
  <2> QED
    BY <2>2, Zenon
<1>7. Alike(<<>>, n)
  BY <1>6, SkippedAlike, Zenon
<1>8. p = (a \o <<>>) \o b
  BY <1>2, <1>3, <1>4, <1>5, Zenon
<1>9. InsertAt(p, i, s) = (a \o n) \o b
  BY <1>3, <1>4, <1>6, Zenon DEF InsertAt
<1> QED
  BY <1>7, <1>8, <1>9, Respelled, Zenon

\* A step down and back.
LEMMA SteppedBack ==
  ASSUME NEW p \in Seq(Spelled), NEW i \in 0..Len(p), NEW w \in {"rest", "webhook"}
  PROVE  Respells(Back(p, i, w), p)
<1>1. /\ SubSeq(p, 1, i) \in Seq(Spelled) /\ SubSeq(p, i + 1, Len(p)) \in Seq(Spelled)
      /\ p = SubSeq(p, 1, i) \o SubSeq(p, i + 1, Len(p))
  BY CutAt, Zenon
<1>2. PICK a \in Seq(Spelled) : a = SubSeq(p, 1, i)
  BY <1>1, Zenon
<1>3. PICK b \in Seq(Spelled) : b = SubSeq(p, i + 1, Len(p))
  BY <1>1, Zenon
<1>4. a \o <<>> = a
  OBVIOUS
<1>5. PICK n \in Seq(Spelled) : n = Path(<<w, "..">>)
  <2>1. w \in Word /\ ".." \in Word
    BY Zenon DEF Word
  <2>2. <<w, "..">> \in Seq(Word)
    BY <2>1
  <2> QED
    BY <2>2, PlainPath, Zenon
<1>6. Alike(<<>>, n)
  BY <1>5, DownAndBack, Zenon
<1>7. p = (a \o <<>>) \o b
  BY <1>1, <1>2, <1>3, <1>4, Zenon
<1>8. Back(p, i, w) = (a \o n) \o b
  BY <1>2, <1>3, <1>5, Zenon DEF Back
<1> QED
  BY <1>6, <1>7, <1>8, Respelled, Zenon

\* A step above the root.
LEMMA SteppedUp ==
  ASSUME NEW p \in Seq(Spelled)
  PROVE  Respells(<<Seg("..")>> \o p, p)
<1>1. Seg("..") \in Spelled
  BY PlainSpelled, Zenon DEF Word
<1>2. <<Seg("..")>> \in Seq(Spelled)
  BY <1>1
<1> QED
  BY <1>2, ConcatOK, AboveRoot, SpelledSegment, Zenon DEF Respells

LEMMA SubSeqAgree ==
  ASSUME NEW S, NEW p \in Seq(S), NEW q \in Seq(S), Len(q) = Len(p),
         NEW k \in 1..(Len(p) + 1), NEW m \in 0..Len(p),
         \A j \in k..m : q[j] = p[j]
  PROVE  SubSeq(q, k, m) = SubSeq(p, k, m)
<1>1. /\ SubSeq(p, k, m) \in Seq(S) /\ SubSeq(q, k, m) \in Seq(S)
      /\ Len(SubSeq(p, k, m)) = IF k <= m THEN m - k + 1 ELSE 0
      /\ Len(SubSeq(q, k, m)) = IF k <= m THEN m - k + 1 ELSE 0
  OBVIOUS
<1>2. \A j \in 1..Len(SubSeq(p, k, m)) : SubSeq(q, k, m)[j] = SubSeq(p, k, m)[j]
  BY <1>1
<1> QED
  BY <1>1, <1>2, SeqEqual

\* A segment with percent signs.
LEMMA Escaped ==
  ASSUME NEW p \in Seq(Spelled), NEW i \in DOMAIN p
  PROVE  Respells([p EXCEPT ![i].escaped = 1], p)
<1>1. i \in 1..Len(p)
  OBVIOUS
<1>2. /\ p[i] \in Spelled
      /\ p = (SubSeq(p, 1, i - 1) \o <<p[i]>>) \o SubSeq(p, i + 1, Len(p))
  BY <1>1, Pieces, Zenon
<1>3. PICK t \in Spelled : /\ t = [p[i] EXCEPT !.escaped = 1]
                           /\ Alike(<<p[i]>>, <<t>>)
  BY <1>2, EscapedAlike, Zenon
<1>4. PICK q \in Seq(Spelled) : /\ q = [p EXCEPT ![i].escaped = 1]
                                /\ Len(q) = Len(p) /\ q[i] = t
                                /\ \A j \in 1..Len(p) : j # i => q[j] = p[j]
  <2>1. [p EXCEPT ![i].escaped = 1] = [p EXCEPT ![i] = t]
    BY <1>3
  <2>2. /\ [p EXCEPT ![i] = t] \in Seq(Spelled)
        /\ Len([p EXCEPT ![i] = t]) = Len(p) /\ [p EXCEPT ![i] = t][i] = t
        /\ \A j \in 1..Len(p) : j # i => [p EXCEPT ![i] = t][j] = p[j]
    BY <1>1, ExceptSeq
  <2> QED
    BY <2>1, <2>2, Zenon
<1>5. q = (SubSeq(q, 1, i - 1) \o <<q[i]>>) \o SubSeq(q, i + 1, Len(q))
  BY <1>1, <1>4, Pieces, Zenon
<1>6. /\ SubSeq(q, 1, i - 1) = SubSeq(p, 1, i - 1)
      /\ SubSeq(q, i + 1, Len(q)) = SubSeq(p, i + 1, Len(p))
  <2>1. /\ i - 1 \in 0..Len(p) /\ 1 \in 1..(Len(p) + 1) /\ Len(p) \in 0..Len(p)
        /\ i + 1 \in 1..(Len(p) + 1)
    BY <1>1
  <2>2. /\ \A j \in 1..(i - 1) : q[j] = p[j]
        /\ \A j \in (i + 1)..Len(p) : q[j] = p[j]
    BY <1>1, <1>4
  <2>3. Len(q) = Len(p)
    BY <1>4, Zenon
  <2>4. SubSeq(q, 1, i - 1) = SubSeq(p, 1, i - 1)
    BY <2>1, <2>2, <2>3, SubSeqAgree, Zenon
  <2>5. SubSeq(q, i + 1, Len(p)) = SubSeq(p, i + 1, Len(p))
    BY <2>1, <2>2, <2>3, SubSeqAgree, Zenon
  <2> QED
    BY <2>3, <2>4, <2>5, Zenon
<1>7. PICK a \in Seq(Spelled) : a = SubSeq(p, 1, i - 1)
  <2>1. SubSeq(p, 1, i - 1) \in Seq(Spelled)
    BY <1>1
  <2> QED
    BY <2>1, Zenon
<1>8. PICK b \in Seq(Spelled) : b = SubSeq(p, i + 1, Len(p))
  <2>1. SubSeq(p, i + 1, Len(p)) \in Seq(Spelled)
    BY <1>1
  <2> QED
    BY <2>1, Zenon
<1>9. PICK m : m = <<p[i]>>
  OBVIOUS
<1>10. PICK n \in Seq(Spelled) : n = <<t>>
  <2>1. <<t>> \in Seq(Spelled)
    OBVIOUS
  <2> QED
    BY <2>1, Zenon
<1>11. Alike(m, n) /\ p = (a \o m) \o b /\ q = (a \o n) \o b
  BY <1>2, <1>3, <1>4, <1>5, <1>6, <1>7, <1>8, <1>9, <1>10, Zenon
<1>12. Respells(q, p)
  BY <1>11, Respelled, Zenon
<1> QED
  BY <1>4, <1>12, Zenon

\* An escaped slash.
LEMMA EscapedSlash ==
  ASSUME NEW p \in Seq(Spelled), NEW i \in 1..(Len(p) - 1)
  PROVE  Respells(Fuse(p, i), p)
<1>1. p[i] \in Spelled /\ p[i + 1] \in Spelled
  OBVIOUS
<1>2. p = (SubSeq(p, 1, i - 1) \o (<<p[i]>> \o <<p[i + 1]>>)) \o SubSeq(p, i + 2, Len(p))
  BY SpelledSegment, TwoPieces, Zenon
<1>3. PICK f \in Spelled : /\ f = Fused(p[i], p[i + 1])
                           /\ Alike(<<p[i]>> \o <<p[i + 1]>>, <<f>>)
  BY <1>1, FusedAlike, Zenon
<1>4. PICK a \in Seq(Spelled) : a = SubSeq(p, 1, i - 1)
  <2>1. SubSeq(p, 1, i - 1) \in Seq(Spelled)
    OBVIOUS
  <2> QED
    BY <2>1, Zenon
<1>5. PICK b \in Seq(Spelled) : b = SubSeq(p, i + 2, Len(p))
  <2>1. SubSeq(p, i + 2, Len(p)) \in Seq(Spelled)
    OBVIOUS
  <2> QED
    BY <2>1, Zenon
<1>6. PICK m : m = <<p[i]>> \o <<p[i + 1]>>
  OBVIOUS
<1>7. PICK n \in Seq(Spelled) : n = <<f>>
  <2>1. <<f>> \in Seq(Spelled)
    OBVIOUS
  <2> QED
    BY <2>1, Zenon
<1>8. Alike(m, n) /\ p = (a \o m) \o b
  BY <1>2, <1>3, <1>4, <1>5, <1>6, <1>7, Zenon
<1>9. Fuse(p, i) = (a \o n) \o b
  BY <1>3, <1>4, <1>5, <1>7, Zenon DEF Fuse, Fused
<1> QED
  BY <1>8, <1>9, Respelled, Zenon

LEMMA SpellingKept ==
  ASSUME NEW p \in Seq(Spelled), NEW q \in Spellings(p)
  PROVE  Respells(q, p)
<1>1. \/ \E i \in 1..(Len(p) + 1), s \in Skipped : q = InsertAt(p, i, s)
      \/ \E i \in 0..Len(p), w \in {"rest", "webhook"} : q = Back(p, i, w)
      \/ q = <<Seg("..")>> \o p
      \/ \E i \in DOMAIN p : q = [p EXCEPT ![i].escaped = 1]
      \/ \E i \in 1..(Len(p) - 1) : q = Fuse(p, i)
  BY DEF Spellings
<1> QED
  BY <1>1, Inserted, SteppedBack, SteppedUp, Escaped, EscapedSlash, Zenon

-----------------------------------------------------------------------------
(* The invariant: a request's path is a spelling of names, and a login sends *)
(* the browser only where Accepted says or home.                             *)

\* What an address bar holds: a spelling, escaped once more.
Shown == {s \in Segment : s.escaped <= 2}
Parameter == [path : Seq(Shown), host : BOOLEAN, escaped : Nat]
Good == {v \in Parameter : Accepted(v) /\ v.escaped <= 1}

PathInv == path \in Seq(Spelled)
TargetInv == target = Home \/ target \in Good

LEMMA ShownOnce == \A s \in Shown : Unescaped(s) \in Seq(Shown)
<1> SUFFICES ASSUME NEW s \in Shown
             PROVE  Unescaped(s) \in Seq(Shown)
  OBVIOUS
<1>1. s \in Segment /\ s.escaped \in {0, 1, 2} /\ s.words \in Seq(Word)
  BY DEF Shown, Segment
<1>2. CASE s.escaped = 0
  BY <1>2 DEF Unescaped
<1>3. CASE s.escaped = 1
  <2>1. \A w \in Word : Seg(w) \in Shown
    <3>1. \A w \in Word : Seg(w) \in Segment /\ Seg(w).escaped = 0
      BY SegOK, SegApart, Zenon
    <3> QED
      BY <3>1 DEF Shown
  <2>2. \A words \in Seq(Word) : Path(words) \in Seq(Shown)
    BY <2>1 DEF Path
  <2>3. Unescaped(s) = Path(s.words)
    BY <1>3 DEF Unescaped
  <2> QED
    BY <1>1, <2>2, <2>3, Zenon
<1>4. CASE s.escaped = 2
  <2>1. [s EXCEPT !.escaped = @ - 1] \in Shown
    BY <1>1, <1>4 DEF Shown, Segment
  <2> QED
    BY <1>4, <2>1 DEF Unescaped
<1> QED
  BY <1>1, <1>2, <1>3, <1>4

LEMMA ShownUnescape == \A p \in Seq(Shown) : Unescape(p) \in Seq(Shown)
<1> SUFFICES ASSUME NEW p \in Seq(Shown)
             PROVE  Unescape(p) \in Seq(Shown)
  OBVIOUS
<1>1. <<>> \in Seq(Shown)
  OBVIOUS
<1>2. \A d \in Seq(Shown), s \in Shown : Unescaping(0, d, s) \in Seq(Shown)
  BY ShownOnce DEF Unescaping
<1> QED
  BY <1>1, <1>2, UnescapeIsFold, U!FoldType

LEMMA OnceType == \A v \in Parameter : Once(v) \in Parameter
<1> SUFFICES ASSUME NEW v \in Parameter
             PROVE  Once(v) \in Parameter
  OBVIOUS
<1>1. v.path \in Seq(Shown) /\ Unescape(v.path) \in Seq(Shown)
  BY ShownUnescape DEF Parameter
<1>2. CASE v.escaped > 0
  BY <1>2 DEF Once, Parameter
<1>3. CASE ~(v.escaped > 0)
  <2>1. PICK q \in Seq(Shown) : q = Unescape(v.path)
    BY <1>1, Zenon
  <2>2. Once(v) = [v EXCEPT !.path = q]
    BY <1>3, <2>1 DEF Once
  <2> QED
    BY <2>2 DEF Parameter
<1> QED
  BY <1>2, <1>3

\* Whatever is found in a parameter may be used.
LEMMA CandidatesGood == \A v \in Parameter : Candidates(v) \in Seq(Good)
<1>1. ASSUME NEW v \in Parameter
      PROVE  Usable(v) \in Seq(Good)
  <2>1. CASE v.escaped = 0 /\ Accepted(v)
    <3>1. v \in Good
      BY <2>1 DEF Good
    <3>2. Usable(v) = <<v>>
      BY <2>1 DEF Usable
    <3> QED
      BY <3>1, <3>2
  <2>2. CASE ~(v.escaped = 0 /\ Accepted(v))
    <3>1. Usable(v) = <<>>
      BY <2>2 DEF Usable
    <3> QED
      BY <3>1
  <2> QED
    BY <2>1, <2>2
<1>2. ASSUME NEW v \in Parameter
      PROVE  /\ Usable(v) \in Seq(Good) /\ Usable(Once(v)) \in Seq(Good)
             /\ Usable(Once(Once(v))) \in Seq(Good)
  BY <1>1, OnceType
<1> QED
  BY <1>2, ConcatOK, Zenon DEF Candidates

\* However many parameters a request has.
LEMMA FoundGood ==
  ASSUME NEW params \in Seq(Parameter)
  PROVE  Offered(params) \in Seq(Good)
<1>1. \A d \in Seq(Good), v \in Parameter : Gathering(0, d, v) \in Seq(Good)
  BY CandidatesGood, ConcatOK, Zenon DEF Gathering
<1>2. <<>> \in Seq(Good)
  OBVIOUS
<1>3. G!Fold(0, <<>>, params) \in Seq(Good)
  BY <1>1, <1>2, G!FoldType
<1> QED
  BY <1>3, GatherIsFold, Zenon

LEMMA ValidIs ==
  \A v : ValidReturnTo(v) => ~v.host /\ v.escaped <= 1
BY Zenon DEF ValidReturnTo

LEMMA SafeIsGood ==
  ASSUME NEW v \in Parameter
  PROVE  /\ SafeReturnTo(v) \in Good \cup {Home}
         /\ Accepted(v) => v \in Good
<1>1. Accepted(v) => v.escaped <= 1
  BY ValidIs, Zenon DEF Accepted
<1> QED
  BY <1>1 DEF SafeReturnTo, Good

LEMMA NativeIsGood ==
  ASSUME NEW params \in Seq(Parameter), NEW referer \in Parameter
  PROVE  NativeReturnTo(params, referer) \in Good \cup {Home}
<1>1. \A usable \in Seq(Good) : usable # <<>> => Head(usable) \in Good
  OBVIOUS
<1>2. Offered(params) # <<>> => Head(Offered(params)) \in Good
  BY <1>1, FoundGood, Zenon
<1>3. SafeReturnTo(referer) \in Good \cup {Home}
  BY SafeIsGood
<1> QED
  BY <1>2, <1>3 DEF NativeReturnTo

LEMMA SpelledShown ==
  ASSUME NEW p \in Seq(Spelled)
  PROVE  p \in Seq(Shown) /\ Escape(p) \in Seq(Shown)
<1>1. ASSUME NEW s \in Spelled
      PROVE  s \in Shown /\ [s EXCEPT !.escaped = @ + 1] \in Shown
  <2>1. s \in Segment /\ s.escaped \in 0..1
    BY DEF Spelled, Segment
  <2>2. [s EXCEPT !.escaped = @ + 1] \in Segment
    BY <2>1 DEF Segment
  <2>3. [s EXCEPT !.escaped = @ + 1].escaped = s.escaped + 1
    BY <2>1 DEF Segment
  <2>4. PICK t \in Segment : t = [s EXCEPT !.escaped = @ + 1] /\ t.escaped <= 2
    <3>1. s.escaped + 1 <= 2
      BY <2>1
    <3> QED
      BY <2>2, <2>3, <3>1, Zenon
  <2>5. s \in Shown /\ t \in Shown
    <3>1. s.escaped <= 2
      BY <2>1
    <3> QED
      BY <2>1, <2>4, <3>1, Zenon DEF Shown
  <2> QED
    BY <2>4, <2>5, Zenon
<1>2. \A i \in 1..Len(p) : p[i] \in Spelled
  OBVIOUS
<1>3. p \in Seq(Shown)
  <2>1. \A s \in Spelled : s \in Shown
    BY <1>1
  <2> QED
    BY <2>1
<1>4. Escape(p) \in Seq(Shown)
  <2>1. \A i \in 1..Len(p) :
           (IF p[i].escaped > 0 THEN [p[i] EXCEPT !.escaped = @ + 1] ELSE p[i]) \in Shown
    BY <1>1, <1>2
  <2>2. DOMAIN p = 1..Len(p)
    OBVIOUS
  <2> QED
    BY <2>1, <2>2 DEF Escape
<1> QED
  BY <1>3, <1>4

LEMMA ValuesType == PathInv => Values \subseteq Parameter
<1> SUFFICES ASSUME PathInv, NEW p \in {path, Escape(path)}, NEW host \in BOOLEAN,
                    NEW escaped \in 0..3
             PROVE  Value(p, host, escaped) \in Parameter
  BY DEF Values
<1> QED
  BY SpelledShown DEF PathInv, Value, Parameter

LEMMA ElsewhereType == Elsewhere \in Parameter
BY DEF Elsewhere, Value, Parameter

LEMMA InitPath == RoutesInit => PathInv /\ TargetInv
<1>1. ASSUME NEW n \in 1..2, NEW words \in [1..n -> Words]
      PROVE  words \in Seq(Word)
  <2>1. Words \subseteq Word
    BY Zenon DEF Word
  <2> QED
    BY <2>1
<1>2. RoutesInit => \E words \in Seq(Word) : path = Path(words)
  BY <1>1 DEF RoutesInit
<1> QED
  BY <1>2, PlainPath, Zenon DEF RoutesInit, PathInv, TargetInv

LEMMA RespellKeeps ==
  ASSUME PathInv, Respell
  PROVE  PathInv' /\ TargetInv' /\ CleanPath(path') = CleanPath(path)
<1>1. path' \in Spellings(path) /\ target' = Home
  BY DEF Respell
<1>2. Respells(path', path)
  BY <1>1, SpellingKept, Zenon DEF PathInv
<1> QED
  BY <1>1, <1>2, Zenon DEF Respells, PathInv, TargetInv

LEMMA ReturnKeeps ==
  ASSUME PathInv, Return
  PROVE  PathInv' /\ TargetInv' /\ path' = path
<1>1. PICK v \in Values :
         target' \in {SafeReturnTo(v), NativeReturnTo(<<Elsewhere, v>>, Elsewhere),
                      NativeReturnTo(<<Elsewhere>>, [v EXCEPT !.escaped = 0])}
  BY DEF Return
<1>2. v \in Parameter /\ [v EXCEPT !.escaped = 0] \in Parameter /\ Elsewhere \in Parameter
  <2>1. v \in Parameter
    BY ValuesType
  <2> QED
    BY <2>1, ElsewhereType DEF Parameter
<1>3. <<Elsewhere, v>> \in Seq(Parameter) /\ <<Elsewhere>> \in Seq(Parameter)
  BY <1>2
<1>4. target' \in Good \cup {Home}
  BY <1>1, <1>2, <1>3, SafeIsGood, NativeIsGood, Zenon
<1>5. path' = path
  BY DEF Return
<1> QED
  BY <1>4, <1>5 DEF PathInv, TargetInv

LEMMA RoutesInv == Spec => [](PathInv /\ TargetInv)
<1>1. Init => PathInv /\ TargetInv
  <2>1. <<>> \in Seq(Spelled)
    OBVIOUS
  <2> QED
    BY <2>1, InitPath DEF Init, PathInv, TargetInv
<1>2. ASSUME PathInv, TargetInv, [Next]_<<part, routesVars, cookieVars>>
      PROVE  PathInv' /\ TargetInv'
  <2>1. CASE Respell
    BY <1>2, <2>1, RespellKeeps
  <2>2. CASE Return
    BY <1>2, <2>2, ReturnKeeps
  <2>3. CASE UNCHANGED routesVars
    BY <1>2, <2>3 DEF routesVars, PathInv, TargetInv
  <2> QED
    BY <1>2, <2>1, <2>2, <2>3 DEF Next, RoutesNext
<1> QED
  BY <1>1, <1>2, PTL DEF Spec

-----------------------------------------------------------------------------
(* The theorems. *)

LEMMA ClassOfCleanPath ==
  ASSUME NEW p, NEW q, CleanPath(p) = CleanPath(q), NEW method
  PROVE  ClassifyRoute(method, p) = ClassifyRoute(method, q)
BY DEF ClassifyRoute

\* However a path is spelled, with slashes, dots, steps up and down or percent
\* signs, its requests get the class of the plain path: for paths of any length
\* (routes.go:20-57).
THEOREM SpellingIrrelevant == Spec => SpellingDoesNotMatter
<1>1. ASSUME PathInv, [Next]_<<part, routesVars, cookieVars>>
      PROVE  [\A method \in {"GET", "POST"} :
                ClassifyRoute(method, path') = ClassifyRoute(method, path)]_path
  <2>1. CASE Respell
    BY <1>1, <2>1, RespellKeeps, ClassOfCleanPath
  <2>2. CASE Return
    BY <1>1, <2>2, ReturnKeeps
  <2>3. CASE UNCHANGED routesVars
    BY <2>3 DEF routesVars
  <2> QED
    BY <1>1, <2>1, <2>2, <2>3 DEF Next, RoutesNext
<1> QED
  BY <1>1, RoutesInv, PTL DEF Spec, SpellingDoesNotMatter

LEMMA RoutesTypeCorrect == Spec => []RoutesTypeOK
<1>1. PathInv /\ TargetInv => RoutesTypeOK
  <2> SUFFICES ASSUME PathInv, TargetInv
               PROVE  RoutesTypeOK
    OBVIOUS
  <2>1. \A i \in DOMAIN path : path[i].words # <<>> /\ path[i].escaped \in 0..1
    BY DEF PathInv, Spelled, Segment
  <2>2. target.path \in Seq(Shown) /\ target.host \in BOOLEAN /\ target.escaped \in 0..1
    <3>1. CASE target = Home
      BY <3>1 DEF Home, Value
    <3>2. CASE target \in Good
      BY <3>2 DEF Good, Parameter
    <3> QED
      BY <3>1, <3>2 DEF TargetInv
  <2>3. \A i \in DOMAIN target.path : target.path[i].escaped \in 0..2
    <3>1. \A s \in Shown : s.escaped \in 0..2
      BY DEF Shown, Segment
    <3> QED
      BY <2>2, <3>1
  <2> QED
    BY <2>1, <2>2, <2>3 DEF RoutesTypeOK
<1> QED
  BY <1>1, RoutesInv, PTL

-----------------------------------------------------------------------------
(* Only picks elements and keeps their order. *)

Sifting(S, out, x) == IF x \in S THEN Append(out, x) ELSE out
O == INSTANCE FoldTheory WITH op <- Sifting

LEMMA OnlyIsFold == \A s, S : Only(s, S) = O!Fold(S, <<>>, s)
BY DEF Only, Sifting, O!Fold, O!Max, Max, O!FoldLeft, O!MapThenFoldSet,
       FoldLeft, MapThenFoldSet

LEMMA OnlyEmpty == \A S : Only(<<>>, S) = <<>>
BY OnlyIsFold, O!FoldEmpty

LEMMA OnlyAppend ==
  ASSUME NEW X, NEW S, NEW v \in Seq(X), NEW e \in X
  PROVE  \A s : s = Append(v, e) =>
           Only(s, S) = Sifting(S, Only(v, S), e)
<1>1. \A s : s = Append(v, e) => s \in Seq(X) /\ O!Extends(s, v, e)
  BY O!AppendExtends
<1>2. \A s \in Seq(X) : \A d : O!Extends(s, v, e) =>
         O!Fold(S, d, s) = Sifting(S, O!Fold(S, d, v), e)
  BY O!FoldAppend
<1> QED
  BY <1>1, <1>2, OnlyIsFold, Zenon

\* f says where in s the elements of t are; all of s that is in S is there.
Embedding(f, t, s, S) ==
    /\ f \in [1..Len(t) -> 1..Len(s)]
    /\ \A i \in 1..Len(t) : t[i] = s[f[i]] /\ t[i] \in S
    /\ \A i, j \in 1..Len(t) : i < j => f[i] < f[j]
    /\ \A k \in 1..Len(s) : s[k] \in S => \E i \in 1..Len(t) : f[i] = k

Embeds(X, t, s, S) == t \in Seq(X) /\ \E f : Embedding(f, t, s, S)

LEMMA EmbedsOneMore ==
  ASSUME NEW X, NEW S, NEW v \in Seq(X), NEW e \in X, NEW t, Embeds(X, t, v, S),
         NEW s, s = Append(v, e), NEW u,
         u = Sifting(S, t, e)
  PROVE  Embeds(X, u, s, S)
<1>1. PICK n \in Nat : n = Len(v) /\ s \in Seq(X) /\ Len(s) = n + 1
  OBVIOUS
<1>2. s[n + 1] = e /\ \A i \in 1..n : s[i] = v[i]
  BY <1>1
<1>3. PICK f : Embedding(f, t, v, S)
  BY DEF Embeds
<1>4. PICK m \in Nat : m = Len(t) /\ t \in Seq(X)
  BY DEF Embeds
<1>5. /\ f \in [1..m -> 1..n]
      /\ \A i \in 1..m : t[i] = v[f[i]] /\ t[i] \in S
      /\ \A i, j \in 1..m : i < j => f[i] < f[j]
      /\ \A k \in 1..n : v[k] \in S => \E i \in 1..m : f[i] = k
  BY <1>1, <1>3, <1>4 DEF Embedding
<1>6. CASE e \notin S
  <2>1. u = t
    BY <1>6 DEF Sifting
  <2>2. \A i \in 1..m : f[i] \in 1..n /\ f[i] \in 1..(n + 1)
    BY <1>5
  <2>3. /\ f \in [1..m -> 1..(n + 1)]
        /\ \A i \in 1..m : t[i] = s[f[i]] /\ t[i] \in S
    <3>1. f \in [1..m -> 1..(n + 1)]
      BY <1>5, <2>2
    <3>2. \A i \in 1..m : t[i] = s[f[i]] /\ t[i] \in S
      BY <1>2, <1>5, <2>2, Zenon
    <3> QED
      BY <3>1, <3>2
  <2>4. \A k \in 1..(n + 1) : s[k] \in S => \E i \in 1..m : f[i] = k
    <3>1. \A k \in 1..(n + 1) : k \in 1..n \/ k = n + 1
      OBVIOUS
    <3>2. \A k \in 1..n : s[k] \in S => \E i \in 1..m : f[i] = k
      BY <1>2, <1>5, Zenon
    <3>3. s[n + 1] \notin S
      BY <1>2, <1>6, Zenon
    <3> QED
      BY <3>1, <3>2, <3>3, Zenon
  <2>5. Embedding(f, t, s, S)
    BY <1>1, <1>4, <1>5, <2>3, <2>4 DEF Embedding
  <2> QED
    BY <1>4, <2>1, <2>5 DEF Embeds
<1>7. CASE e \in S
  <2> DEFINE g == [i \in 1..(m + 1) |-> IF i = m + 1 THEN n + 1 ELSE f[i]]
  <2>1. u \in Seq(X) /\ Len(u) = m + 1 /\ u[m + 1] = e /\ \A i \in 1..m : u[i] = t[i]
    BY <1>4, <1>7 DEF Sifting
  <2>2. g \in [1..(m + 1) -> 1..(n + 1)]
    BY <1>5
  <2>3. \A i \in 1..(m + 1) : u[i] = s[g[i]] /\ u[i] \in S
    <3>1. ASSUME NEW i \in 1..m
          PROVE  u[i] = s[g[i]] /\ u[i] \in S
      <4>1. f[i] \in 1..n /\ g[i] = f[i]
        BY <1>5
      <4> HIDE DEF g
      <4> QED
        BY <1>2, <1>5, <2>1, <4>1, Zenon
    <3>2. g[m + 1] = n + 1
      OBVIOUS
    <3> HIDE DEF g
    <3>3. \A i \in 1..(m + 1) : i \in 1..m \/ i = m + 1
      OBVIOUS
    <3> QED
      BY <1>2, <1>7, <2>1, <3>1, <3>2, <3>3, Zenon
  <2>4. \A i, j \in 1..(m + 1) : i < j => g[i] < g[j]
    BY <1>5
  <2>5. \A k \in 1..(n + 1) : s[k] \in S => \E i \in 1..(m + 1) : g[i] = k
    <3>1. ASSUME NEW k \in 1..n, s[k] \in S
          PROVE  \E i \in 1..(m + 1) : g[i] = k
      <4>1. PICK i \in 1..m : f[i] = k
        BY <1>2, <1>5, <3>1
      <4>2. i \in 1..(m + 1) /\ g[i] = k
        BY <4>1
      <4> QED
        BY <4>2, Zenon
    <3>2. m + 1 \in 1..(m + 1) /\ g[m + 1] = n + 1
      OBVIOUS
    <3>3. \A k \in 1..(n + 1) : k \in 1..n \/ k = n + 1
      OBVIOUS
    <3> QED
      BY <3>1, <3>2, <3>3, Zenon
  <2> HIDE DEF g
  <2>6. Embedding(g, u, s, S)
    BY <1>1, <2>1, <2>2, <2>3, <2>4, <2>5 DEF Embedding
  <2> QED
    BY <2>1, <2>6 DEF Embeds
<1> QED
  BY <1>6, <1>7

LEMMA OnlyEmbeds ==
  ASSUME NEW X, NEW S, NEW s \in Seq(X)
  PROVE  Embeds(X, Only(s, S), s, S)
<1> DEFINE Holds(u) == Embeds(X, Only(u, S), u, S)
           T == {u \in Seq(X) : Holds(u)}
<1>1. Holds(<<>>)
  <2>1. Embedding([i \in {} |-> 0], <<>>, <<>>, S)
    BY O!NoPosition DEF Embedding
  <2>2. <<>> \in Seq(X)
    OBVIOUS
  <2> QED
    BY <2>1, <2>2, OnlyEmpty DEF Embeds
<1>2. ASSUME NEW v \in Seq(X), NEW e \in X, Holds(v)
      PROVE  \A u : u = Append(v, e) => Holds(u)
  <2>1. \A u : u = Append(v, e) =>
           Only(u, S) = Sifting(S, Only(v, S), e)
    BY OnlyAppend, Zenon
  <2>2. \A t : Embeds(X, t, v, S) =>
           \A u, w : u = Append(v, e) /\ w = Sifting(S, t, e) => Embeds(X, w, u, S)
    BY EmbedsOneMore, Zenon
  <2> QED
    BY <1>2, <2>1, <2>2, Zenon
<1>3. s \in T
  <2> HIDE DEF Holds
  <2>1. <<>> \in T
    BY <1>1
  <2>2. \A v \in Seq(X), e \in X : v \in T => \A u : u = Append(v, e) => u \in T
    <3>1. \A v \in Seq(X), e \in X : \A u : u = Append(v, e) => u \in Seq(X)
      OBVIOUS
    <3> QED
      BY <1>2, <3>1, Zenon
  <2> HIDE DEF T
  <2> QED
    BY <2>1, <2>2, O!SeqInduct
<1> QED
  BY <1>3

\* Everything, or nothing.
LEMMA OnlyAll ==
  ASSUME NEW X, NEW S, NEW s \in Seq(X), \A i \in 1..Len(s) : s[i] \in S
  PROVE  Only(s, S) = s
<1> DEFINE Holds(u) == (\A i \in 1..Len(u) : u[i] \in S) => Only(u, S) = u
           T == {u \in Seq(X) : Holds(u)}
<1>1. Holds(<<>>)
  BY OnlyEmpty
<1>2. ASSUME NEW v \in Seq(X), NEW e \in X, Holds(v)
      PROVE  \A u : u = Append(v, e) => Holds(u)
  <2>1. \A u : u = Append(v, e) =>
           Only(u, S) = Sifting(S, Only(v, S), e)
    BY OnlyAppend, Zenon
  <2>2. \A u : u = Append(v, e) /\ (\A i \in 1..Len(u) : u[i] \in S) =>
           e \in S /\ \A i \in 1..Len(v) : v[i] \in S
    <3>1. ASSUME NEW u, u = Append(v, e), \A i \in 1..Len(u) : u[i] \in S
          PROVE  e \in S /\ \A i \in 1..Len(v) : v[i] \in S
      <4>1. /\ Len(u) = Len(v) + 1 /\ u[Len(v) + 1] = e
            /\ \A i \in 1..Len(v) : u[i] = v[i] /\ i \in 1..Len(u)
            /\ Len(v) + 1 \in 1..Len(u)
        BY <3>1
      <4> QED
        BY <3>1, <4>1, Zenon
    <3> QED
      BY <3>1, Zenon
  <2>3. \A t : e \in S => Sifting(S, t, e) = Append(t, e)
    BY DEF Sifting
  <2> QED
    BY <1>2, <2>1, <2>2, <2>3, Zenon
<1>3. s \in T
  <2> HIDE DEF Holds
  <2>1. <<>> \in T
    BY <1>1
  <2>2. \A v \in Seq(X), e \in X : v \in T => \A u : u = Append(v, e) => u \in T
    <3>1. \A v \in Seq(X), e \in X : \A u : u = Append(v, e) => u \in Seq(X)
      OBVIOUS
    <3> QED
      BY <1>2, <3>1, Zenon
  <2> HIDE DEF T
  <2> QED
    BY <2>1, <2>2, O!SeqInduct
<1> QED
  BY <1>3

LEMMA OnlyNone ==
  ASSUME NEW X, NEW S, NEW s \in Seq(X), \A i \in 1..Len(s) : s[i] \notin S
  PROVE  Only(s, S) = <<>>
<1>1. PICK t \in Seq(X) : t = Only(s, S) /\ \E f : Embedding(f, t, s, S)
  BY OnlyEmbeds, Zenon DEF Embeds
<1>2. PICK f : Embedding(f, t, s, S)
  BY <1>1
<1>3. \A i \in 1..Len(t) : FALSE
  BY <1>2 DEF Embedding
<1>4. t = <<>>
  BY <1>3
<1> QED
  BY <1>1, <1>4

-----------------------------------------------------------------------------
(* Sequences as sets. *)

LEMMA InSet ==
  ASSUME NEW X, NEW s \in Seq(X), NEW x
  PROVE  x \in ToSet(s) <=> \E i \in 1..Len(s) : s[i] = x
BY DEF ToSet

LEMMA SetType ==
  ASSUME NEW X, NEW s \in Seq(X)
  PROVE  ToSet(s) \subseteq X
BY DEF ToSet

LEMMA ConcatSet ==
  ASSUME NEW X, NEW s \in Seq(X), NEW t \in Seq(X), NEW x
  PROVE  x \in ToSet(s \o t) <=> x \in ToSet(s) \/ x \in ToSet(t)
<1>1. PICK r \in Seq(X) : r = s \o t /\ O!Joined(r, s, t)
  <2>1. s \o t \in Seq(X)
    OBVIOUS
  <2> QED
    BY <2>1, O!ConcatJoins, Zenon
<1>2. PICK m \in Nat, n \in Nat : m = Len(s) /\ n = Len(t)
  OBVIOUS
<1>3. /\ Len(r) = m + n /\ \A i \in 1..m : r[i] = s[i]
      /\ \A i \in 1..n : r[m + i] = t[i]
  BY <1>1, <1>2 DEF O!Joined
<1>4. \A i \in 1..(m + n) : i \in 1..m \/ \E j \in 1..n : i = m + j
  <2>1. ASSUME NEW i \in 1..(m + n), i \notin 1..m
        PROVE  i - m \in 1..n /\ i = m + (i - m)
    BY <2>1
  <2> QED
    BY <2>1
<1>5. /\ \A i \in 1..m : i \in 1..(m + n)
      /\ \A i \in 1..n : m + i \in 1..(m + n)
  OBVIOUS
<1>6. (\E i \in 1..(m + n) : r[i] = x)
        <=> (\E i \in 1..m : s[i] = x) \/ (\E i \in 1..n : t[i] = x)
  <2>1. ASSUME NEW i \in 1..(m + n), r[i] = x
        PROVE  (\E j \in 1..m : s[j] = x) \/ (\E j \in 1..n : t[j] = x)
    <3>1. CASE i \in 1..m
      BY <1>3, <2>1, <3>1, Zenon
    <3>2. CASE i \notin 1..m
      <4>1. PICK j \in 1..n : i = m + j
        BY <1>4, <3>2, Zenon
      <4>2. t[j] = x
        BY <1>3, <2>1, <4>1, Zenon
      <4> QED
        BY <4>2, Zenon
    <3> QED
      BY <3>1, <3>2, Zenon
  <2>2. ASSUME NEW i \in 1..m, s[i] = x
        PROVE  \E j \in 1..(m + n) : r[j] = x
    BY <1>3, <1>5, <2>2, Zenon
  <2>3. ASSUME NEW i \in 1..n, t[i] = x
        PROVE  \E j \in 1..(m + n) : r[j] = x
    BY <1>3, <1>5, <2>3, Zenon
  <2> QED
    BY <2>1, <2>2, <2>3, Zenon
<1>7. /\ x \in ToSet(r) <=> \E i \in 1..(m + n) : r[i] = x
      /\ x \in ToSet(s) <=> \E i \in 1..m : s[i] = x
      /\ x \in ToSet(t) <=> \E i \in 1..n : t[i] = x
  <2>1. x \in ToSet(r) <=> \E i \in 1..Len(r) : r[i] = x
    BY InSet
  <2>2. x \in ToSet(s) <=> \E i \in 1..Len(s) : s[i] = x
    BY InSet
  <2>3. x \in ToSet(t) <=> \E i \in 1..Len(t) : t[i] = x
    BY InSet
  <2> QED
    BY <1>2, <1>3, <2>1, <2>2, <2>3, Zenon
<1> QED
  BY <1>1, <1>6, <1>7, Zenon

LEMMA OnlySet ==
  ASSUME NEW X, NEW S, NEW s \in Seq(X)
  PROVE  /\ Only(s, S) \in Seq(X)
         /\ \A x : x \in ToSet(Only(s, S)) <=> x \in ToSet(s) /\ x \in S
<1>1. PICK t \in Seq(X) : t = Only(s, S) /\ \E f : Embedding(f, t, s, S)
  BY OnlyEmbeds, Zenon DEF Embeds
<1>2. PICK f : Embedding(f, t, s, S)
  BY <1>1
<1>3. PICK m \in Nat, n \in Nat : m = Len(t) /\ n = Len(s)
  OBVIOUS
<1>4. /\ \A i \in 1..m : f[i] \in 1..n /\ t[i] = s[f[i]] /\ t[i] \in S
      /\ \A k \in 1..n : s[k] \in S => \E i \in 1..m : f[i] = k
  BY <1>2, <1>3 DEF Embedding
<1>5. ASSUME NEW x
      PROVE  (\E i \in 1..m : t[i] = x) <=> (\E k \in 1..n : s[k] = x) /\ x \in S
  <2>1. ASSUME NEW i \in 1..m, t[i] = x
        PROVE  (\E k \in 1..n : s[k] = x) /\ x \in S
    BY <1>4, <2>1, Zenon
  <2>2. ASSUME NEW k \in 1..n, s[k] = x, x \in S
        PROVE  \E i \in 1..m : t[i] = x
    <3>1. PICK i \in 1..m : f[i] = k
      BY <1>4, <2>2
    <3>2. t[i] = x
      BY <1>4, <2>2, <3>1
    <3> QED
      BY <3>2
  <2> QED
    BY <2>1, <2>2, Zenon
<1>6. \A x : /\ x \in ToSet(t) <=> \E i \in 1..m : t[i] = x
             /\ x \in ToSet(s) <=> \E k \in 1..n : s[k] = x
  BY <1>3, InSet, Zenon
<1> QED
  BY <1>1, <1>5, <1>6, Zenon

-----------------------------------------------------------------------------
(* The header that goes on to n8n. *)

AllNames == Names \cup ProxyCookieNames \cup {"auth"}

\* A cookie as a browser stores it; a name and a value.
Baked == [name : AllNames, val : Nat, host : {"own", "parent"},
          path : Paths \cup {"/"}, secure : BOOLEAN,
          samesite : {"lax", "none", "strict"}]
Entry == [name : AllNames, val : Nat]
Outside == {e \in Entry : e.name \notin ProxyCookieNames}

Keeping(unused, out, c) == Keep(out, c)
K == INSTANCE FoldTheory WITH op <- Keeping

LEMMA SanitizedIsFold ==
  \A h : SanitizedUpstreamCookieHeader(h) = K!Fold(0, <<>>, h)
BY DEF SanitizedUpstreamCookieHeader, Keeping, K!Fold, K!Max, Max, K!FoldLeft,
       K!MapThenFoldSet, FoldLeft, MapThenFoldSet

LEMMA SanitizedAppend ==
  ASSUME NEW X, NEW v \in Seq(X), NEW e \in X
  PROVE  \A h : h = Append(v, e) =>
           SanitizedUpstreamCookieHeader(h) = Keep(SanitizedUpstreamCookieHeader(v), e)
<1>1. \A h : h = Append(v, e) => h \in Seq(X) /\ K!Extends(h, v, e)
  BY K!AppendExtends
<1>2. \A h \in Seq(X) : \A d : K!Extends(h, v, e) =>
         K!Fold(0, d, h) = Keeping(0, K!Fold(0, d, v), e)
  BY K!FoldAppend
<1> QED
  BY <1>1, <1>2, SanitizedIsFold, Zenon DEF Keeping

LEMMA SanitizedEmpty == SanitizedUpstreamCookieHeader(<<>>) = <<>>
BY SanitizedIsFold, K!FoldEmpty

LEMMA KeepType ==
  ASSUME NEW out \in Seq(Outside), NEW c \in Baked
  PROVE  Keep(out, c) \in Seq(Outside)
<1> DEFINE at == {i \in DOMAIN out : out[i].name = c.name}
<1>1. CASE c.name \in ProxyCookieNames
  BY <1>1 DEF Keep
<1>2. CASE c.name \notin ProxyCookieNames /\ at # {}
  <2>1. \A i \in 1..Len(out) :
           (IF i \in at THEN [out[i] EXCEPT !.val = c.val] ELSE out[i]) \in Outside
    BY DEF Outside, Entry, Baked
  <2>2. Keep(out, c) = [i \in 1..Len(out) |->
                          IF i \in at THEN [out[i] EXCEPT !.val = c.val] ELSE out[i]]
    BY <1>2 DEF Keep
  <2> HIDE DEF at
  <2> QED
    BY <2>1, <2>2
<1>3. CASE c.name \notin ProxyCookieNames /\ ~(at # {})
  <2>1. [name |-> c.name, val |-> c.val] \in Outside
    BY <1>3 DEF Outside, Entry, Baked
  <2>2. Keep(out, c) = Append(out, [name |-> c.name, val |-> c.val])
    BY <1>3 DEF Keep
  <2> QED
    BY <2>1, <2>2
<1> QED
  BY <1>1, <1>2, <1>3

LEMMA SanitizedType ==
  ASSUME NEW h \in Seq(Baked)
  PROVE  SanitizedUpstreamCookieHeader(h) \in Seq(Outside)
<1>1. \A out \in Seq(Outside), c \in Baked : Keeping(0, out, c) \in Seq(Outside)
  BY KeepType, Zenon DEF Keeping
<1>2. <<>> \in Seq(Outside)
  OBVIOUS
<1>3. K!Fold(0, <<>>, h) \in Seq(Outside)
  BY <1>1, <1>2, K!FoldType
<1> QED
  BY <1>3, SanitizedIsFold, Zenon

\* The values of one name after one more cookie.
LEMMA KeepValues ==
  ASSUME NEW out \in Seq(Outside), NEW c \in Baked, c.name \notin ProxyCookieNames,
         NEW name
  PROVE  ValuesIn(Keep(out, c), {name}) =
            IF c.name = name THEN {c.val} ELSE ValuesIn(out, {name})
<1> DEFINE at == {i \in DOMAIN out : out[i].name = c.name}
<1>1. CASE at # {}
  <2>1. PICK n \in Nat : n = Len(out) /\ DOMAIN out = 1..n
    OBVIOUS
  <2>2. PICK new \in Seq(Outside) :
           /\ new = Keep(out, c) /\ DOMAIN new = 1..n
           /\ \A i \in 1..n : new[i] = IF i \in at THEN [out[i] EXCEPT !.val = c.val]
                                                   ELSE out[i]
    <3>1. Keep(out, c) = [i \in 1..n |->
                            IF i \in at THEN [out[i] EXCEPT !.val = c.val] ELSE out[i]]
      BY <1>1, <2>1 DEF Keep
    <3>2. Keep(out, c) \in Seq(Outside)
      BY KeepType
    <3> HIDE DEF at
    <3> QED
      BY <3>1, <3>2
  <2>3. \A i \in 1..n : /\ new[i].name = out[i].name
                        /\ out[i].name = c.name => new[i].val = c.val
                        /\ out[i].name # c.name => new[i].val = out[i].val
    <3>1. \A o \in Outside : /\ [o EXCEPT !.val = c.val].name = o.name
                             /\ [o EXCEPT !.val = c.val].val = c.val
      BY DEF Outside, Entry
    <3>2. \A i \in 1..n : out[i] \in Outside
      BY <2>1
    <3>3. \A i \in 1..n : i \in at <=> out[i].name = c.name
      BY <2>1
    <3> HIDE DEF at
    <3>4. ASSUME NEW i \in 1..n
          PROVE  /\ new[i].name = out[i].name
                 /\ out[i].name = c.name => new[i].val = c.val
                 /\ out[i].name # c.name => new[i].val = out[i].val
      <4>1. CASE i \in at
        <5>1. new[i] = [out[i] EXCEPT !.val = c.val]
          BY <2>2, <4>1
        <5> QED
          BY <3>1, <3>2, <3>3, <4>1, <5>1, Zenon
      <4>2. CASE i \notin at
        BY <2>2, <3>3, <4>2
      <4> QED
        BY <4>1, <4>2
    <3> QED
      BY <3>4
  <2>4. \E i \in 1..n : out[i].name = c.name
    BY <1>1, <2>1
  <2> HIDE DEF at
  <2>5. CASE c.name = name
    <3>1. ValuesIn(new, {name}) = {c.val}
      BY <2>2, <2>3, <2>4, <2>5 DEF ValuesIn
    <3> QED
      BY <2>2, <2>5, <3>1
  <2>6. CASE c.name # name
    <3>1. ValuesIn(new, {name}) = ValuesIn(out, {name})
      BY <2>1, <2>2, <2>3, <2>6 DEF ValuesIn
    <3> QED
      BY <2>2, <2>6, <3>1
  <2> QED
    BY <2>5, <2>6
<1>2. CASE ~(at # {})
  <2>1. PICK n \in Nat : n = Len(out) /\ DOMAIN out = 1..n
    OBVIOUS
  <2>2. PICK e \in Entry : e = [name |-> c.name, val |-> c.val]
                           /\ e.name = c.name /\ e.val = c.val
    <3>1. c.name \in AllNames /\ c.val \in Nat
      BY DEF Baked
    <3>2. [name |-> c.name, val |-> c.val] \in Entry
      BY <3>1 DEF Entry
    <3> QED
      BY <3>2
  <2>3. Keep(out, c) = Append(out, e)
    BY <1>2, <2>2 DEF Keep
  <2>4. PICK new : /\ new = Append(out, e) /\ DOMAIN new = 1..(n + 1)
                   /\ new[n + 1] = e /\ \A i \in 1..n : new[i] = out[i]
    <3>1. /\ DOMAIN Append(out, e) = 1..(n + 1) /\ Append(out, e)[n + 1] = e
          /\ \A i \in 1..n : Append(out, e)[i] = out[i]
      BY <2>1
    <3> QED
      BY <3>1, Zenon
  <2>5. \A i \in 1..n : out[i].name # c.name
    BY <1>2, <2>1
  <2>6. \A i : i \in 1..(n + 1) <=> i \in 1..n \/ i = n + 1
    OBVIOUS
  <2> HIDE DEF at
  <2>7. CASE c.name = name
    <3>1. ValuesIn(new, {name}) = {c.val}
      BY <2>2, <2>4, <2>5, <2>6, <2>7 DEF ValuesIn
    <3> QED
      BY <2>3, <2>4, <2>7, <3>1
  <2>8. CASE c.name # name
    <3>1. ValuesIn(new, {name}) = ValuesIn(out, {name})
      BY <2>1, <2>2, <2>4, <2>6, <2>8 DEF ValuesIn
    <3> QED
      BY <2>3, <2>4, <2>8, <3>1
  <2> QED
    BY <2>7, <2>8
<1> QED
  BY <1>1, <1>2

\* Of a name of n8n's the last value goes on and no other.
GoesOn(h, name) ==
    /\ \A i \in 1..Len(h) :
          h[i].name = name /\ (\A k \in 1..Len(h) : h[k].name = name => k <= i)
          => ValuesIn(SanitizedUpstreamCookieHeader(h), {name}) = {h[i].val}
    /\ \A val : (\A k \in 1..Len(h) : h[k].name = name => h[k].val = val)
          => ValuesIn(SanitizedUpstreamCookieHeader(h), {name}) \subseteq {val}

LEMMA GoesOnOneMore ==
  ASSUME NEW name, name \notin ProxyCookieNames, NEW v \in Seq(Baked), NEW e \in Baked,
         GoesOn(v, name), NEW u, u = Append(v, e)
  PROVE  GoesOn(u, name)
<1> DEFINE Of(h) == ValuesIn(SanitizedUpstreamCookieHeader(h), {name})
<1>1. Of(u) = IF e.name = name THEN {e.val} ELSE Of(v)
  <2>1. SanitizedUpstreamCookieHeader(u) = Keep(SanitizedUpstreamCookieHeader(v), e)
    <3>1. \A h : h = Append(v, e) =>
           SanitizedUpstreamCookieHeader(h) = Keep(SanitizedUpstreamCookieHeader(v), e)
      BY SanitizedAppend
    <3> QED
      BY <3>1, Zenon
  <2>2. PICK out \in Seq(Outside) : out = SanitizedUpstreamCookieHeader(v)
    BY SanitizedType
  <2>3. CASE e.name \in ProxyCookieNames
    <3>1. Keep(out, e) = out
      BY <2>3 DEF Keep
    <3> QED
      BY <2>1, <2>2, <2>3, <3>1, Zenon
  <2>4. CASE e.name \notin ProxyCookieNames
    <3>1. ValuesIn(Keep(out, e), {name}) =
            IF e.name = name THEN {e.val} ELSE ValuesIn(out, {name})
      BY <2>4, KeepValues
    <3> QED
      BY <2>1, <2>2, <3>1, Zenon
  <2> QED
    BY <2>3, <2>4
<1>2. PICK n \in Nat : n = Len(v) /\ Len(u) = n + 1
  OBVIOUS
<1>3. u[n + 1] = e /\ \A i \in 1..n : u[i] = v[i]
  BY <1>2
<1>4. /\ \A i \in 1..(n + 1) : i \in 1..n \/ i = n + 1
      /\ \A i \in 1..n : i \in 1..(n + 1) /\ ~(n + 1 <= i)
      /\ n + 1 \in 1..(n + 1)
  OBVIOUS
<1> HIDE DEF Of
<1>5. ASSUME NEW i \in 1..(n + 1), u[i].name = name,
             \A k \in 1..(n + 1) : u[k].name = name => k <= i
      PROVE  Of(u) = {u[i].val}
  <2>1. CASE e.name = name
    <3>1. i = n + 1
      BY <1>3, <1>4, <1>5, <2>1, Zenon
    <3> QED
      BY <1>1, <1>3, <2>1, <3>1, Zenon
  <2>2. CASE e.name # name
    <3>1. i \in 1..n
      BY <1>3, <1>4, <1>5, <2>2, Zenon
    <3>2. v[i].name = name /\ \A k \in 1..n : v[k].name = name => k <= i
      BY <1>3, <1>4, <1>5, <3>1, Zenon
    <3>3. Of(v) = {v[i].val}
      BY <1>2, <3>1, <3>2, Zenon DEF GoesOn, Of
    <3> QED
      BY <1>1, <1>3, <2>2, <3>1, <3>3, Zenon
  <2> QED
    BY <2>1, <2>2
<1>6. ASSUME NEW val, \A k \in 1..(n + 1) : u[k].name = name => u[k].val = val
      PROVE  Of(u) \subseteq {val}
  <2>1. CASE e.name = name
    <3>1. e.val = val
      BY <1>3, <1>4, <1>6, <2>1, Zenon
    <3> QED
      BY <1>1, <2>1, <3>1
  <2>2. CASE e.name # name
    <3>1. \A k \in 1..n : v[k].name = name => v[k].val = val
      BY <1>3, <1>4, <1>6, Zenon
    <3>2. Of(v) \subseteq {val}
      BY <1>2, <3>1, Zenon DEF GoesOn, Of
    <3> QED
      BY <1>1, <2>2, <3>2, Zenon
  <2> QED
    BY <2>1, <2>2
<1> QED
  BY <1>2, <1>5, <1>6, Zenon DEF GoesOn, Of

LEMMA LastGoesOn ==
  ASSUME NEW name, name \notin ProxyCookieNames, NEW h \in Seq(Baked)
  PROVE  GoesOn(h, name)
<1> DEFINE T == {u \in Seq(Baked) : GoesOn(u, name)}
<1>1. GoesOn(<<>>, name)
  <2>1. ValuesIn(<<>>, {name}) = {}
    BY DEF ValuesIn
  <2>2. \A i \in 1..Len(<<>>) : FALSE
    OBVIOUS
  <2> QED
    BY <2>1, <2>2, SanitizedEmpty DEF GoesOn
<1>2. <<>> \in T
  BY <1>1
<1>3. \A v \in Seq(Baked), e \in Baked : v \in T => \A u : u = Append(v, e) => u \in T
  <2>1. \A v \in Seq(Baked), e \in Baked : \A u : u = Append(v, e) => u \in Seq(Baked)
    OBVIOUS
  <2> QED
    BY <2>1, GoesOnOneMore, Zenon
<1>4. h \in T
  <2> HIDE DEF T
  <2> QED
    BY <1>2, <1>3, O!SeqInduct
<1> QED
  BY <1>4

-----------------------------------------------------------------------------
(* The Cookie header holds what the jar holds for the page. *)

LEMMA ValuesBySet ==
  ASSUME NEW X, NEW s \in Seq(X), NEW names, NEW v
  PROVE  v \in ValuesIn(s, names) <=> \E x \in ToSet(s) : x.name \in names /\ x.val = v
BY DEF ValuesIn, ToSet

LEMMA HeaderSet ==
  ASSUME jar \in Seq(Baked), NEW page
  PROVE  /\ Header(page) \in Seq(Baked)
         /\ \A c : c \in ToSet(Header(page)) <=> c \in ToSet(jar) /\ c.path \in {"/", page}
<1> DEFINE sent == {c \in ToSet(jar) : c.path \in {"/", page}}
           A == {c \in sent : c.path # "/"}
           B == {c \in sent : c.path = "/"}
<1>1. Header(page) = Only(jar, A) \o Only(jar, B)
  BY DEF Header
<1>2. \A c : (c \in A \/ c \in B) <=> c \in ToSet(jar) /\ c.path \in {"/", page}
  OBVIOUS
<1>3. \A c : c \in A \/ c \in B => c \in ToSet(jar)
  OBVIOUS
<1> HIDE DEF A, B
<1>4. PICK s \in Seq(Baked) : s = Only(jar, A) /\ \A c : c \in ToSet(s) <=> c \in ToSet(jar) /\ c \in A
  BY OnlySet
<1>5. PICK t \in Seq(Baked) : t = Only(jar, B) /\ \A c : c \in ToSet(t) <=> c \in ToSet(jar) /\ c \in B
  BY OnlySet
<1>6. s \o t \in Seq(Baked)
  OBVIOUS
<1>7. \A c : c \in ToSet(s \o t) <=> c \in ToSet(s) \/ c \in ToSet(t)
  BY ConcatSet
<1>8. Header(page) = s \o t
  BY <1>1, <1>4, <1>5, Zenon
<1> QED
  BY <1>2, <1>3, <1>4, <1>5, <1>6, <1>7, <1>8, Zenon

-----------------------------------------------------------------------------
(* What a jar holds, and what storing a cookie makes of it. *)

\* The names whose cookies all have the path "/": the gateway's, and n8n's when
\* it asks for no other.
Tracked == ProxyCookieNames \cup {name \in Names : Paths \subseteq {"/"}}

Own(c) == /\ Admitted(c) /\ c.secure = secure
          /\ c.name \in Tracked => c.path = "/"

JarOK(j) ==
    /\ j \in Seq(Baked)
    /\ \A i \in 1..Len(j) : j[i] = Older \/ Own(j[i])
    /\ \A i, k \in 1..Len(j) : SameCookie(j[i], j[k]) => i = k
    /\ \A i \in 1..Len(j) : j[i] = Older => i = 1

Taken(j, c) == Only(j, {d \in ToSet(j) : ~SameCookie(d, c)})
Put(j, c) ==
    LET same == {i \in DOMAIN j : SameCookie(j[i], c)}
    IN  IF same # {} THEN [i \in DOMAIN j |-> IF i \in same THEN c ELSE j[i]]
                     ELSE Append(j, c)

LEMMA StoreIs ==
  ASSUME NEW j, NEW set, NEW page
  PROVE  Store(j, set, page) =
           IF ~Admitted(Cookie(set, page)) THEN j
           ELSE IF Has(set.attrs, "gone") THEN Taken(j, Cookie(set, page))
           ELSE Put(j, Cookie(set, page))
BY DEF Store, Taken, Put

LEMMA TakenOK ==
  ASSUME NEW j, JarOK(j), NEW c
  PROVE  /\ JarOK(Taken(j, c))
         /\ \A x : x \in ToSet(Taken(j, c)) <=> x \in ToSet(j) /\ ~SameCookie(x, c)
<1> DEFINE S == {d \in ToSet(j) : ~SameCookie(d, c)}
<1>1. j \in Seq(Baked)
  BY DEF JarOK
<1>2. PICK t \in Seq(Baked) : t = Only(j, S) /\ \E f : Embedding(f, t, j, S)
  <2> HIDE DEF S
  <2> QED
    BY <1>1, OnlyEmbeds, Zenon DEF Embeds
<1>3. \A x : x \in ToSet(t) <=> x \in ToSet(j) /\ x \in S
  <2> HIDE DEF S
  <2>1. \A x : x \in ToSet(Only(j, S)) <=> x \in ToSet(j) /\ x \in S
    BY <1>1, OnlySet
  <2> QED
    BY <1>2, <2>1, Zenon
<1>4. PICK f : Embedding(f, t, j, S)
  BY <1>2
<1>5. PICK m \in Nat, n \in Nat : m = Len(t) /\ n = Len(j)
  BY <1>1
<1>6. /\ \A i \in 1..m : f[i] \in 1..n /\ t[i] = j[f[i]]
      /\ \A i, k \in 1..m : i < k => f[i] < f[k]
  BY <1>4, <1>5 DEF Embedding
<1>7. \A i \in 1..m : t[i] = Older \/ Own(t[i])
  BY <1>5, <1>6, Zenon DEF JarOK
<1>8. ASSUME NEW i \in 1..m, NEW k \in 1..m, SameCookie(t[i], t[k])
      PROVE  i = k
  <2>1. f[i] = f[k]
    BY <1>5, <1>6, <1>8, Zenon DEF JarOK
  <2>2. ~(i < k) /\ ~(k < i)
    BY <1>6, <2>1
  <2> QED
    BY <2>2
<1>9. ASSUME NEW i \in 1..m, t[i] = Older
      PROVE  i = 1
  <2>1. f[i] = 1
    BY <1>5, <1>6, <1>9, Zenon DEF JarOK
  <2>2. ~(1 < i)
    BY <1>6, <2>1
  <2> QED
    BY <2>2
<1>10. JarOK(t)
  BY <1>5, <1>7, <1>8, <1>9 DEF JarOK
<1>11. Taken(j, c) = t
  BY <1>2 DEF Taken
<1> QED
  BY <1>3, <1>10, <1>11

LEMMA PutOK ==
  ASSUME NEW j, JarOK(j), NEW c \in Baked, Own(c)
  PROVE  /\ JarOK(Put(j, c))
         /\ \A x : x \in ToSet(Put(j, c)) <=>
                     x = c \/ (x \in ToSet(j) /\ ~SameCookie(x, c))
<1> DEFINE same == {i \in DOMAIN j : SameCookie(j[i], c)}
<1>1. j \in Seq(Baked)
  BY DEF JarOK
<1>2. PICK n \in Nat : n = Len(j) /\ DOMAIN j = 1..n
  BY <1>1
<1>3. c # Older
  BY DEF Own, Admitted, Older
<1>4. \A x : x \in ToSet(j) <=> \E i \in 1..n : j[i] = x
  BY <1>1, <1>2, InSet
<1>5. CASE same # {}
  <2>1. PICK r \in Seq(Baked) :
           /\ r = Put(j, c) /\ Len(r) = n
           /\ \A i \in 1..n : r[i] = IF SameCookie(j[i], c) THEN c ELSE j[i]
    <3>1. Put(j, c) = [i \in 1..n |-> IF SameCookie(j[i], c) THEN c ELSE j[i]]
      BY <1>2, <1>5 DEF Put
    <3>2. \A i \in 1..n : j[i] \in Baked
      BY <1>1, <1>2
    <3> QED
      BY <3>1, <3>2
  <2>2. PICK i0 \in 1..n : SameCookie(j[i0], c)
    BY <1>2, <1>5
  <2> HIDE DEF same
  <2>3. \A i \in 1..n : r[i] = Older \/ Own(r[i])
    BY <1>2, <2>1 DEF JarOK
  <2>4. ASSUME NEW i \in 1..n, NEW k \in 1..n, SameCookie(r[i], r[k])
        PROVE  i = k
    <3>1. SameCookie(j[i], j[k])
      BY <2>1, <2>4 DEF SameCookie
    <3> QED
      BY <1>2, <3>1 DEF JarOK
  <2>5. \A i \in 1..n : r[i] = Older => i = 1
    BY <1>2, <1>3, <2>1 DEF JarOK
  <2>6. JarOK(r)
    BY <2>1, <2>3, <2>4, <2>5 DEF JarOK
  <2>7. \A x : x \in ToSet(r) <=> \E i \in 1..n : r[i] = x
    BY <2>1, InSet
  <2>8. r[i0] = c
    BY <2>1, <2>2
  <2>9. \A i \in 1..n : ~SameCookie(j[i], c) => r[i] = j[i]
    BY <2>1
  <2>10. \A x : x \in ToSet(r) <=> x = c \/ (x \in ToSet(j) /\ ~SameCookie(x, c))
    <3>1. ASSUME NEW x, NEW i \in 1..n, r[i] = x, x # c
          PROVE  j[i] = x /\ ~SameCookie(x, c)
      BY <2>1, <3>1
    <3>2. ASSUME NEW x, NEW i \in 1..n, j[i] = x, ~SameCookie(x, c)
          PROVE  r[i] = x
      BY <2>9, <3>2
    <3>3. ASSUME NEW x, x \in ToSet(r)
          PROVE  x = c \/ (x \in ToSet(j) /\ ~SameCookie(x, c))
      BY <1>4, <2>7, <3>1, <3>3, Zenon
    <3>4. ASSUME NEW x, x \in ToSet(j), ~SameCookie(x, c)
          PROVE  x \in ToSet(r)
      BY <1>4, <2>7, <3>2, <3>4, Zenon
    <3>5. c \in ToSet(r)
      BY <2>7, <2>8, Zenon
    <3> QED
      BY <3>3, <3>4, <3>5, Zenon
  <2> QED
    BY <2>1, <2>6, <2>10
<1>6. CASE ~(same # {})
  <2>1. PICK r \in Seq(Baked) :
           /\ r = Put(j, c) /\ Len(r) = n + 1 /\ r[n + 1] = c
           /\ \A i \in 1..n : r[i] = j[i]
    <3>1. Put(j, c) = Append(j, c)
      BY <1>6 DEF Put
    <3>2. /\ Append(j, c) \in Seq(Baked) /\ Len(Append(j, c)) = n + 1
          /\ Append(j, c)[n + 1] = c /\ \A i \in 1..n : Append(j, c)[i] = j[i]
      BY <1>1, <1>2
    <3> QED
      BY <3>1, <3>2, Zenon
  <2>2. \A i \in 1..n : ~SameCookie(j[i], c)
    BY <1>2, <1>6
  <2> HIDE DEF same
  <2>3. \A i \in 1..(n + 1) : i \in 1..n \/ i = n + 1
    OBVIOUS
  <2>4. \A i \in 1..(n + 1) : r[i] = Older \/ Own(r[i])
    BY <1>2, <2>1, <2>3, Zenon DEF JarOK
  <2>5. ASSUME NEW i \in 1..(n + 1), NEW k \in 1..(n + 1), SameCookie(r[i], r[k])
        PROVE  i = k
    <3>1. \A d : SameCookie(c, d) => SameCookie(d, c)
      BY DEF SameCookie
    <3> QED
      BY <1>2, <2>1, <2>2, <2>3, <2>5, <3>1, Zenon DEF JarOK
  <2>6. \A i \in 1..(n + 1) : r[i] = Older => i = 1
    BY <1>2, <1>3, <2>1, <2>3, Zenon DEF JarOK
  <2>7. JarOK(r)
    BY <2>1, <2>4, <2>5, <2>6 DEF JarOK
  <2>8. \A x : x \in ToSet(r) <=> \E i \in 1..(n + 1) : r[i] = x
    <3>1. \A x : x \in ToSet(r) <=> \E i \in 1..Len(r) : r[i] = x
      BY InSet
    <3> QED
      BY <2>1, <3>1, Zenon
  <2>9. \A x : (\E i \in 1..(n + 1) : r[i] = x) <=> x = c \/ \E i \in 1..n : j[i] = x
    <3>1. \A i \in 1..n : i \in 1..(n + 1)
      OBVIOUS
    <3>2. n + 1 \in 1..(n + 1)
      OBVIOUS
    <3>3. ASSUME NEW x, NEW i \in 1..(n + 1), r[i] = x
          PROVE  x = c \/ \E k \in 1..n : j[k] = x
      BY <2>1, <2>3, <3>3, Zenon
    <3>4. ASSUME NEW x, NEW i \in 1..n, j[i] = x
          PROVE  \E k \in 1..(n + 1) : r[k] = x
      BY <2>1, <3>1, <3>4, Zenon
    <3>5. \E i \in 1..(n + 1) : r[i] = c
      BY <2>1, <3>2, Zenon
    <3> QED
      BY <3>3, <3>4, <3>5, Zenon
  <2>10. \A x : x \in ToSet(r) <=> x = c \/ (x \in ToSet(j) /\ ~SameCookie(x, c))
    <3>1. \A x : x \in ToSet(j) => ~SameCookie(x, c)
      BY <1>4, <2>2, Zenon
    <3>2. \A x : x \in ToSet(r) <=> x = c \/ x \in ToSet(j)
      BY <1>4, <2>8, <2>9, Zenon
    <3> QED
      BY <3>1, <3>2, Zenon
  <2> QED
    BY <2>1, <2>7, <2>10
<1> QED
  BY <1>5, <1>6

\* Of what the gateway or n8n set under a name, a jar holds the value v.
Tells(j, name, v) ==
    /\ \A d \in ToSet(j) : d.host = "own" /\ d.name = name => d.val = v /\ v # None
    /\ v # None => \E d \in ToSet(j) : d.host = "own" /\ d.name = name

LEMMA OwnPath ==
  ASSUME NEW j, JarOK(j), NEW d \in ToSet(j), d.host = "own"
  PROVE  Own(d)
<1>1. PICK i \in 1..Len(j) : j[i] = d
  BY InSet DEF JarOK
<1>2. d # Older
  BY DEF Older
<1> QED
  BY <1>1, <1>2 DEF JarOK

LEMMA TakenTells ==
  ASSUME NEW j, JarOK(j), NEW c, c.host = "own", c.name \in Tracked => c.path = "/",
         NEW name \in Tracked, NEW v, Tells(j, name, v)
  PROVE  Tells(Taken(j, c), name, IF c.name = name THEN None ELSE v)
<1>1. \A x : x \in ToSet(Taken(j, c)) <=> x \in ToSet(j) /\ ~SameCookie(x, c)
  BY TakenOK
<1>2. \A d \in ToSet(j) : d.host = "own" => Own(d)
  BY OwnPath
<1>3. CASE c.name = name
  <2>1. ASSUME NEW d \in ToSet(Taken(j, c)), d.host = "own", d.name = name
        PROVE  FALSE
    <3>1. d.path = "/" /\ ~SameCookie(d, c)
      BY <1>1, <1>2, <2>1 DEF Own
    <3> QED
      BY <1>3, <2>1, <3>1 DEF SameCookie
  <2> QED
    BY <1>3, <2>1 DEF Tells
<1>4. CASE c.name # name
  <2>1. \A x : x.name = name => ~SameCookie(x, c)
    BY <1>4 DEF SameCookie
  <2> QED
    BY <1>1, <1>4, <2>1, Zenon DEF Tells
<1> QED
  BY <1>3, <1>4

LEMMA PutTells ==
  ASSUME NEW j, JarOK(j), NEW c \in Baked, Own(c), c.val # None,
         NEW name \in Tracked, NEW v, Tells(j, name, v)
  PROVE  Tells(Put(j, c), name, IF c.name = name THEN c.val ELSE v)
<1>1. \A x : x \in ToSet(Put(j, c)) <=> x = c \/ (x \in ToSet(j) /\ ~SameCookie(x, c))
  BY PutOK
<1>2. \A d \in ToSet(j) : d.host = "own" => Own(d)
  BY OwnPath
<1>3. c.host = "own"
  BY DEF Own, Admitted
<1>4. CASE c.name = name
  <2>1. ASSUME NEW d \in ToSet(Put(j, c)), d.host = "own", d.name = name
        PROVE  d = c
    <3>1. CASE d \in ToSet(j) /\ ~SameCookie(d, c)
      <4>1. d.path = "/" /\ c.path = "/"
        BY <1>2, <1>4, <2>1, <3>1 DEF Own
      <4> QED
        BY <1>3, <1>4, <2>1, <3>1, <4>1 DEF SameCookie
    <3> QED
      BY <1>1, <2>1, <3>1
  <2>2. c \in ToSet(Put(j, c))
    BY <1>1, Zenon
  <2> QED
    BY <1>3, <1>4, <2>1, <2>2, Zenon DEF Tells
<1>5. CASE c.name # name
  <2>1. \A x : x.name = name => ~SameCookie(x, c)
    BY <1>5 DEF SameCookie
  <2> QED
    BY <1>1, <1>5, <2>1, Zenon DEF Tells
<1> QED
  BY <1>4, <1>5

\* A cookie of the own host that a browser takes, at the path where those of
\* its name are.
Fits(c) == /\ c \in Baked /\ Admitted(c)
           /\ c.name \in Tracked => c.path = "/"

LEMMA StoredOK ==
  ASSUME NEW j, JarOK(j), NEW set, NEW page, NEW c, c = Cookie(set, page), Fits(c),
         ~Has(set.attrs, "gone") => c.secure = secure /\ c.val # None
  PROVE  /\ JarOK(Store(j, set, page))
         /\ \A name \in Tracked : \A v : Tells(j, name, v) =>
               Tells(Store(j, set, page), name,
                     IF c.name # name THEN v
                     ELSE IF Has(set.attrs, "gone") THEN None ELSE c.val)
<1>1. CASE Has(set.attrs, "gone")
  <2>1. Store(j, set, page) = Taken(j, c)
    BY <1>1, StoreIs DEF Fits
  <2>2. c.host = "own"
    BY DEF Fits, Admitted
  <2>3. JarOK(Taken(j, c))
    BY TakenOK
  <2>4. ASSUME NEW name \in Tracked, NEW v, Tells(j, name, v)
        PROVE  Tells(Taken(j, c), name, IF c.name = name THEN None ELSE v)
    BY <2>2, <2>4, TakenTells DEF Fits
  <2> QED
    BY <1>1, <2>1, <2>3, <2>4
<1>2. CASE ~Has(set.attrs, "gone")
  <2>1. Store(j, set, page) = Put(j, c)
    BY <1>2, StoreIs DEF Fits
  <2>2. Own(c) /\ c \in Baked /\ c.val # None
    BY <1>2 DEF Fits, Own
  <2>3. JarOK(Put(j, c))
    BY <2>2, PutOK
  <2>4. ASSUME NEW name \in Tracked, NEW v, Tells(j, name, v)
        PROVE  Tells(Put(j, c), name, IF c.name = name THEN c.val ELSE v)
    BY <2>2, <2>4, PutTells
  <2> QED
    BY <1>2, <2>1, <2>3, <2>4
<1> QED
  BY <1>1, <1>2

-----------------------------------------------------------------------------
(* The attributes of the cookies that the gateway lets through and of its own. *)

AnyAttr == Attributes \cup {Attr("path", "/"), Attr("samesite", "lax")}

LEMMA AttrIs ==
  /\ \A key, val : Attr(key, val).key = key /\ Attr(key, val).val = val
  /\ \A key : Flag(key).key = key
<1>1. \A key, val : Attr(key, val).key = key /\ Attr(key, val).val = val
  BY DEF Attr
<1>2. \A key : \E val : Flag(key) = Attr(key, val)
  BY Zenon DEF Flag
<1>3. ASSUME NEW key
      PROVE  Flag(key).key = key
  <2>1. PICK val : Flag(key) = Attr(key, val)
    BY <1>2
  <2> QED
    BY <1>1, <2>1
<1> QED
  BY <1>1, <1>3

LEMMA HasInSet ==
  ASSUME NEW X, NEW attrs \in Seq(X), NEW key
  PROVE  Has(attrs, key) <=> \E a \in ToSet(attrs) : a.key = key
BY DEF Has, ToSet

LEMMA Tuples ==
  /\ ToSet(<<>>) = {}
  /\ \A a : ToSet(<<a>>) = {a}
  /\ \A a, b : ToSet(<<a, b>>) = {a, b}
BY DEF ToSet

LEMMA UnlessIs ==
  ASSUME NEW present, NEW attr \in AnyAttr
  PROVE  /\ Unless(present, attr) \in Seq(AnyAttr)
         /\ \A a : a \in ToSet(Unless(present, attr)) <=> ~present /\ a = attr
<1>1. CASE present
  <2>1. Unless(present, attr) = <<>>
    BY <1>1 DEF Unless
  <2>2. <<>> \in Seq(AnyAttr)
    OBVIOUS
  <2> QED
    BY <1>1, <2>1, <2>2, Tuples
<1>2. CASE ~present
  <2>1. Unless(present, attr) = <<attr>>
    BY <1>2 DEF Unless
  <2>2. <<attr>> \in Seq(AnyAttr)
    OBVIOUS
  <2> QED
    BY <1>2, <2>1, <2>2, Tuples
<1> QED
  BY <1>1, <1>2

LEMMA TamedIs ==
  ASSUME NEW a \in Attributes, NEW forceSecure
  PROVE  /\ Tamed(a, forceSecure) \in AnyAttr
         /\ Tamed(a, forceSecure).key = a.key
         /\ a.key # "samesite" => Tamed(a, forceSecure) = a
         /\ a.key = "samesite" => /\ Tamed(a, forceSecure).val \in {"lax", "none", "strict"}
                                  /\ Tamed(a, forceSecure).val = "none" => forceSecure
<1>1. a.key = "samesite" => a \in {Attr("samesite", "none"), Attr("samesite", "strict")}
  BY AttrIs DEF Attributes
<1> QED
  BY <1>1, AttrIs DEF Tamed, AnyAttr

LEMMA KeptSet ==
  ASSUME NEW raw \in Seq(Attributes), NEW forceSecure
  PROVE  /\ Kept(raw, forceSecure) \in Seq(AnyAttr)
         /\ \A x : x \in ToSet(Kept(raw, forceSecure)) <=>
               \E a \in ToSet(raw) : ~Dropped(a, forceSecure) /\ x = Tamed(a, forceSecure)
<1> DEFINE S == {a \in ToSet(raw) : ~Dropped(a, forceSecure)}
<1>1. PICK k \in Seq(Attributes) :
         k = Only(raw, S) /\ \A a : a \in ToSet(k) <=> a \in ToSet(raw) /\ a \in S
  <2> HIDE DEF S
  <2>1. Only(raw, S) \in Seq(Attributes)
    BY OnlySet
  <2>2. \A a : a \in ToSet(Only(raw, S)) <=> a \in ToSet(raw) /\ a \in S
    BY OnlySet
  <2> QED
    BY <2>1, <2>2, Zenon
<1>2. PICK n \in Nat : n = Len(k) /\ DOMAIN k = 1..n /\ \A i \in 1..n : k[i] \in Attributes
  OBVIOUS
<1>3. Kept(raw, forceSecure) = [i \in 1..n |-> Tamed(k[i], forceSecure)]
  BY <1>1, <1>2, Zenon DEF Kept
<1>4. \A i \in 1..n : Tamed(k[i], forceSecure) \in AnyAttr
  BY <1>2, TamedIs
<1>5. PICK t \in Seq(AnyAttr) : /\ t = Kept(raw, forceSecure) /\ DOMAIN t = 1..n
                                /\ \A i \in 1..n : t[i] = Tamed(k[i], forceSecure)
  BY <1>3, <1>4
<1>6. \A x : x \in ToSet(t) <=> \E i \in 1..n : x = Tamed(k[i], forceSecure)
  BY <1>5 DEF ToSet
<1>7. \A a : a \in ToSet(k) <=> \E i \in 1..n : a = k[i]
  BY <1>2 DEF ToSet
<1>8. \A a : a \in ToSet(k) <=> a \in ToSet(raw) /\ ~Dropped(a, forceSecure)
  BY <1>1
<1>9. \A x : (\E i \in 1..n : x = Tamed(k[i], forceSecure)) <=>
             \E a \in ToSet(k) : x = Tamed(a, forceSecure)
  BY <1>7, Zenon
<1>10. \A x : (\E a \in ToSet(k) : x = Tamed(a, forceSecure)) <=>
              \E a \in ToSet(raw) : ~Dropped(a, forceSecure) /\ x = Tamed(a, forceSecure)
  BY <1>8, Zenon
<1> QED
  BY <1>5, <1>6, <1>9, <1>10, Zenon

\* Attributes that make a cookie for the own host, at one of the given paths,
\* Secure as told, and SameSite=None only if so.
Suits(attrs, paths, secureAttr) ==
    /\ attrs \in Seq(AnyAttr)
    /\ \A a \in ToSet(attrs) : a.key # "domain"
    /\ \A a \in ToSet(attrs) : a.key = "path" => a.val \in paths
    /\ \A a \in ToSet(attrs) : a.key = "samesite" =>
          a.val \in {"lax", "none", "strict"} /\ (a.val = "none" => secureAttr)
    /\ \E a \in ToSet(attrs) : a.key = "path"
    /\ (\E a \in ToSet(attrs) : a.key = "secure") <=> secureAttr

LEMMA RewriteSet ==
  ASSUME NEW raw \in Seq(Attributes), NEW forceSecure \in BOOLEAN
  PROVE  /\ RewriteSetCookie(raw, forceSecure) \in Seq(AnyAttr)
         /\ \A x : x \in ToSet(RewriteSetCookie(raw, forceSecure)) <=>
               \/ \E a \in ToSet(raw) : ~Dropped(a, forceSecure) /\ x = Tamed(a, forceSecure)
               \/ ~Has(raw, "path") /\ x = Attr("path", "/")
               \/ forceSecure /\ ~Has(raw, "secure") /\ x = Flag("secure")
               \/ ~Has(raw, "samesite") /\ x = Attr("samesite", "lax")
<1>1. Attr("path", "/") \in AnyAttr /\ Flag("secure") \in AnyAttr /\ Attr("samesite", "lax") \in AnyAttr
  BY DEF AnyAttr, Attributes
<1>2. PICK k \in Seq(AnyAttr) :
         /\ k = Kept(raw, forceSecure)
         /\ \A x : x \in ToSet(k) <=>
               \E a \in ToSet(raw) : ~Dropped(a, forceSecure) /\ x = Tamed(a, forceSecure)
  BY KeptSet, Zenon
<1>3. PICK p \in Seq(AnyAttr) :
         /\ p = Unless(Has(raw, "path"), Attr("path", "/"))
         /\ \A a : a \in ToSet(p) <=> ~Has(raw, "path") /\ a = Attr("path", "/")
  <2> DEFINE added == Unless(Has(raw, "path"), Attr("path", "/"))
  <2>1. /\ added \in Seq(AnyAttr)
        /\ \A a : a \in ToSet(added) <=> ~Has(raw, "path") /\ a = Attr("path", "/")
    BY <1>1, UnlessIs
  <2> QED
    BY <2>1, Zenon
<1>4. PICK s \in Seq(AnyAttr) :
         /\ s = Unless(~forceSecure \/ Has(raw, "secure"), Flag("secure"))
         /\ \A a : a \in ToSet(s) <=>
               ~(~forceSecure \/ Has(raw, "secure")) /\ a = Flag("secure")
  <2> DEFINE added == Unless(~forceSecure \/ Has(raw, "secure"), Flag("secure"))
  <2>1. /\ added \in Seq(AnyAttr)
        /\ \A a : a \in ToSet(added) <=> ~(~forceSecure \/ Has(raw, "secure")) /\ a = Flag("secure")
    BY <1>1, UnlessIs
  <2> QED
    BY <2>1, Zenon
<1>5. PICK l \in Seq(AnyAttr) :
         /\ l = Unless(Has(raw, "samesite"), Attr("samesite", "lax"))
         /\ \A a : a \in ToSet(l) <=> ~Has(raw, "samesite") /\ a = Attr("samesite", "lax")
  <2> DEFINE added == Unless(Has(raw, "samesite"), Attr("samesite", "lax"))
  <2>1. /\ added \in Seq(AnyAttr)
        /\ \A a : a \in ToSet(added) <=> ~Has(raw, "samesite") /\ a = Attr("samesite", "lax")
    BY <1>1, UnlessIs
  <2> QED
    BY <2>1, Zenon
<1>6. RewriteSetCookie(raw, forceSecure) = ((k \o p) \o s) \o l
  BY <1>2, <1>3, <1>4, <1>5, Zenon DEF RewriteSetCookie
<1>7. k \o p \in Seq(AnyAttr) /\ \A x : x \in ToSet(k \o p) <=> x \in ToSet(k) \/ x \in ToSet(p)
  BY ConcatSet
<1>8. PICK kp \in Seq(AnyAttr) : /\ kp = k \o p
                                 /\ \A x : x \in ToSet(kp) <=> x \in ToSet(k) \/ x \in ToSet(p)
  BY <1>7, Zenon
<1>9. kp \o s \in Seq(AnyAttr) /\ \A x : x \in ToSet(kp \o s) <=> x \in ToSet(kp) \/ x \in ToSet(s)
  BY ConcatSet
<1>10. PICK ks \in Seq(AnyAttr) : /\ ks = kp \o s
                                  /\ \A x : x \in ToSet(ks) <=> x \in ToSet(kp) \/ x \in ToSet(s)
  BY <1>9, Zenon
<1>11. ks \o l \in Seq(AnyAttr) /\ \A x : x \in ToSet(ks \o l) <=> x \in ToSet(ks) \/ x \in ToSet(l)
  BY ConcatSet
<1>12. RewriteSetCookie(raw, forceSecure) = ks \o l
  BY <1>6, <1>8, <1>10, Zenon
<1>13. \A x : x \in ToSet(ks \o l) <=>
               \/ \E a \in ToSet(raw) : ~Dropped(a, forceSecure) /\ x = Tamed(a, forceSecure)
               \/ ~Has(raw, "path") /\ x = Attr("path", "/")
               \/ forceSecure /\ ~Has(raw, "secure") /\ x = Flag("secure")
               \/ ~Has(raw, "samesite") /\ x = Attr("samesite", "lax")
  BY <1>2, <1>3, <1>4, <1>5, <1>8, <1>10, <1>11, Zenon
<1> QED
  BY <1>11, <1>12, <1>13, Zenon

LEMMA AttributeIs ==
  ASSUME NEW a \in Attributes
  PROVE  a.key = "path" => a.val \in Paths
BY AttrIs DEF Attributes

LEMMA RewriteSuits ==
  ASSUME NEW raw \in Seq(Attributes), NEW forceSecure \in BOOLEAN
  PROVE  /\ Suits(RewriteSetCookie(raw, forceSecure), Paths \cup {"/"}, forceSecure)
         /\ Has(RewriteSetCookie(raw, forceSecure), "gone") <=> Has(raw, "gone")
<1>1. PICK R \in Seq(AnyAttr) :
         /\ R = RewriteSetCookie(raw, forceSecure)
         /\ \A x : x \in ToSet(R) <=>
               \/ \E a \in ToSet(raw) : ~Dropped(a, forceSecure) /\ x = Tamed(a, forceSecure)
               \/ ~Has(raw, "path") /\ x = Attr("path", "/")
               \/ forceSecure /\ ~Has(raw, "secure") /\ x = Flag("secure")
               \/ ~Has(raw, "samesite") /\ x = Attr("samesite", "lax")
  BY RewriteSet, Zenon
<1>2. \A a \in ToSet(raw) : a \in Attributes
  BY SetType
<1>3. \A key : Has(raw, key) <=> \E a \in ToSet(raw) : a.key = key
  BY HasInSet
<1>4. \A key : Has(R, key) <=> \E a \in ToSet(R) : a.key = key
  BY HasInSet
<1>5. ASSUME NEW x \in ToSet(R)
      PROVE  \/ \E a \in ToSet(raw) : /\ ~Dropped(a, forceSecure) /\ x = Tamed(a, forceSecure)
                                      /\ a \in Attributes /\ x.key = a.key
             \/ x.key = "path" /\ x.val = "/"
             \/ x.key = "secure" /\ forceSecure
             \/ x.key = "samesite" /\ x.val = "lax"
  <2>1. \A a \in ToSet(raw) : Tamed(a, forceSecure).key = a.key
    BY <1>2, TamedIs
  <2> QED
    BY <1>1, <1>2, <1>5, <2>1, AttrIs
<1>6. ASSUME NEW a \in ToSet(raw), ~Dropped(a, forceSecure)
      PROVE  Tamed(a, forceSecure) \in ToSet(R) /\ Tamed(a, forceSecure).key = a.key
  BY <1>1, <1>2, <1>6, TamedIs
<1>7. /\ ~Has(raw, "path") => Attr("path", "/") \in ToSet(R)
      /\ forceSecure /\ ~Has(raw, "secure") => Flag("secure") \in ToSet(R)
  BY <1>1
<1>8. ASSUME NEW x \in ToSet(R)
      PROVE  /\ x.key # "domain"
             /\ x.key = "path" => x.val \in Paths \cup {"/"}
             /\ x.key = "samesite" =>
                   x.val \in {"lax", "none", "strict"} /\ (x.val = "none" => forceSecure)
             /\ x.key = "secure" => forceSecure
             /\ x.key = "gone" => Has(raw, "gone")
  <2>1. ASSUME NEW a \in ToSet(raw), ~Dropped(a, forceSecure), x = Tamed(a, forceSecure),
               a \in Attributes, x.key = a.key
        PROVE  /\ x.key # "domain"
               /\ x.key = "path" => x.val \in Paths
               /\ x.key = "samesite" =>
                     x.val \in {"lax", "none", "strict"} /\ (x.val = "none" => forceSecure)
               /\ x.key = "secure" => forceSecure
               /\ x.key = "gone" => Has(raw, "gone")
    BY <1>3, <2>1, TamedIs, AttributeIs DEF Dropped
  <2> QED
    BY <1>5, <2>1
<1>9. \E x \in ToSet(R) : x.key = "path"
  <2>1. CASE Has(raw, "path")
    <3>1. PICK a \in ToSet(raw) : a.key = "path"
      BY <1>3, <2>1
    <3> QED
      BY <1>6, <3>1 DEF Dropped
  <2>2. CASE ~Has(raw, "path")
    BY <1>7, <2>2, AttrIs
  <2> QED
    BY <2>1, <2>2
<1>10. ASSUME forceSecure
       PROVE  \E x \in ToSet(R) : x.key = "secure"
  <2>1. CASE Has(raw, "secure")
    <3>1. PICK a \in ToSet(raw) : a.key = "secure"
      BY <1>3, <2>1
    <3> QED
      BY <1>6, <1>10, <3>1 DEF Dropped
  <2>2. CASE ~Has(raw, "secure")
    BY <1>7, <1>10, <2>2, AttrIs
  <2> QED
    BY <2>1, <2>2
<1>11. ASSUME Has(raw, "gone")
       PROVE  \E x \in ToSet(R) : x.key = "gone"
  <2>1. PICK a \in ToSet(raw) : a.key = "gone"
    BY <1>3, <1>11
  <2> QED
    BY <1>6, <2>1 DEF Dropped
<1>12. Suits(R, Paths \cup {"/"}, forceSecure)
  <2>1. (\E x \in ToSet(R) : x.key = "secure") <=> forceSecure
    BY <1>8, <1>10
  <2> QED
    BY <1>8, <1>9, <2>1, Zenon DEF Suits
<1>13. Has(R, "gone") <=> Has(raw, "gone")
  BY <1>4, <1>8, <1>11
<1> QED
  BY <1>1, <1>12, <1>13, Zenon

LEMMA ProxyAttrsSuit ==
  ASSUME NEW secureAttr \in BOOLEAN
  PROVE  /\ Suits(ProxyAttrs(secureAttr), {"/"}, secureAttr)
         /\ Suits(Append(ProxyAttrs(secureAttr), Flag("gone")), {"/"}, secureAttr)
         /\ ~Has(ProxyAttrs(secureAttr), "gone")
         /\ Has(Append(ProxyAttrs(secureAttr), Flag("gone")), "gone")
<1>1. /\ Attr("path", "/") \in AnyAttr /\ Flag("secure") \in AnyAttr
      /\ Attr("samesite", "none") \in AnyAttr /\ Attr("samesite", "lax") \in AnyAttr
      /\ Flag("gone") \in AnyAttr
  BY DEF AnyAttr, Attributes
<1>2. PICK first \in Seq(AnyAttr) : /\ first = <<Attr("path", "/")>>
                                    /\ ToSet(first) = {Attr("path", "/")}
  <2>1. <<Attr("path", "/")>> \in Seq(AnyAttr)
    BY <1>1
  <2> QED
    BY <2>1, Tuples
<1>3. PICK rest \in Seq(AnyAttr) :
         /\ rest = IF secureAttr THEN <<Flag("secure"), Attr("samesite", "none")>>
                                 ELSE <<Attr("samesite", "lax")>>
         /\ ToSet(rest) = IF secureAttr THEN {Flag("secure"), Attr("samesite", "none")}
                                        ELSE {Attr("samesite", "lax")}
  <2>1. <<Flag("secure"), Attr("samesite", "none")>> \in Seq(AnyAttr)
    BY <1>1
  <2>2. <<Attr("samesite", "lax")>> \in Seq(AnyAttr)
    BY <1>1
  <2>3. ToSet(<<Flag("secure"), Attr("samesite", "none")>>) = {Flag("secure"), Attr("samesite", "none")}
    BY Tuples
  <2>4. ToSet(<<Attr("samesite", "lax")>>) = {Attr("samesite", "lax")}
    BY Tuples
  <2>5. CASE secureAttr
    BY <2>1, <2>3, <2>5, Zenon
  <2>6. CASE ~secureAttr
    BY <2>2, <2>4, <2>6, Zenon
  <2> QED
    BY <2>5, <2>6
<1>4. PICK A \in Seq(AnyAttr) :
         /\ A = ProxyAttrs(secureAttr)
         /\ \A x : x \in ToSet(A) <=>
               \/ x = Attr("path", "/")
               \/ secureAttr /\ (x = Flag("secure") \/ x = Attr("samesite", "none"))
               \/ ~secureAttr /\ x = Attr("samesite", "lax")
  <2>1. /\ first \o rest \in Seq(AnyAttr)
        /\ \A x : x \in ToSet(first \o rest) <=> x \in ToSet(first) \/ x \in ToSet(rest)
    BY ConcatSet
  <2>2. ProxyAttrs(secureAttr) = first \o rest
    BY <1>2, <1>3, Zenon DEF ProxyAttrs
  <2>3. \A x : x \in ToSet(first) \/ x \in ToSet(rest) <=>
               \/ x = Attr("path", "/")
               \/ secureAttr /\ (x = Flag("secure") \/ x = Attr("samesite", "none"))
               \/ ~secureAttr /\ x = Attr("samesite", "lax")
    BY <1>2, <1>3
  <2> QED
    BY <2>1, <2>2, <2>3, Zenon
<1>5. PICK B \in Seq(AnyAttr) :
         /\ B = Append(ProxyAttrs(secureAttr), Flag("gone"))
         /\ \A x : x \in ToSet(B) <=> x \in ToSet(A) \/ x = Flag("gone")
  <2>1. /\ Append(A, Flag("gone")) = A \o <<Flag("gone")>>
        /\ <<Flag("gone")>> \in Seq(AnyAttr)
    BY <1>1
  <2>2. PICK g \in Seq(AnyAttr) : g = <<Flag("gone")>> /\ ToSet(g) = {Flag("gone")}
    BY <2>1, Tuples
  <2>3. /\ A \o g \in Seq(AnyAttr)
        /\ \A x : x \in ToSet(A \o g) <=> x \in ToSet(A) \/ x \in ToSet(g)
    BY ConcatSet
  <2>4. Append(ProxyAttrs(secureAttr), Flag("gone")) = A \o g
    BY <1>4, <2>1, <2>2, Zenon
  <2>5. \A x : x \in ToSet(g) <=> x = Flag("gone")
    BY <2>2
  <2>6. \A x : x \in ToSet(A \o g) <=> x \in ToSet(A) \/ x = Flag("gone")
    BY <2>3, <2>5
  <2> QED
    BY <2>3, <2>4, <2>6, Zenon
<1>6. ASSUME NEW x \in ToSet(A)
      PROVE  /\ x.key \in {"path", "secure", "samesite"}
             /\ x.key = "path" => x.val = "/"
             /\ x.key = "samesite" => x.val \in {"lax", "none"} /\ (x.val = "none" => secureAttr)
             /\ x.key = "secure" => secureAttr
  <2>1. CASE x = Attr("path", "/")
    BY <2>1, AttrIs
  <2>2. CASE secureAttr /\ x = Flag("secure")
    BY <2>2, AttrIs
  <2>3. CASE secureAttr /\ x = Attr("samesite", "none")
    BY <2>3, AttrIs
  <2>4. CASE ~secureAttr /\ x = Attr("samesite", "lax")
    BY <2>4, AttrIs
  <2> QED
    BY <1>4, <1>6, <2>1, <2>2, <2>3, <2>4, Zenon
<1>7. \E x \in ToSet(A) : x.key = "path"
  BY <1>4, AttrIs, Zenon
<1>8. ASSUME secureAttr PROVE \E x \in ToSet(A) : x.key = "secure"
  BY <1>4, <1>8, AttrIs, Zenon
<1>9. /\ \A x \in ToSet(A) : x \in ToSet(B)
      /\ \A x \in ToSet(B) : x \in ToSet(A) \/ x.key = "gone"
  BY <1>5, AttrIs, Zenon
<1>10. Suits(A, {"/"}, secureAttr)
  <2>1. (\E x \in ToSet(A) : x.key = "secure") <=> secureAttr
    BY <1>6, <1>8
  <2> QED
    BY <1>6, <1>7, <2>1 DEF Suits
<1>11. Suits(B, {"/"}, secureAttr)
  <2>1. (\E x \in ToSet(B) : x.key = "secure") <=> secureAttr
    <3>1. (\E x \in ToSet(B) : x.key = "secure") => secureAttr
      BY <1>6, <1>9
    <3>2. secureAttr => \E x \in ToSet(B) : x.key = "secure"
      BY <1>8, <1>9
    <3> QED
      BY <3>1, <3>2
  <2>2. \E x \in ToSet(B) : x.key = "path"
    BY <1>7, <1>9
  <2>3. \A x \in ToSet(B) : /\ x.key # "domain"
                            /\ x.key = "path" => x.val \in {"/"}
                            /\ x.key = "samesite" =>
                                 x.val \in {"lax", "none", "strict"} /\ (x.val = "none" => secureAttr)
    BY <1>6, <1>9
  <2> QED
    BY <2>1, <2>2, <2>3, Zenon DEF Suits
<1>12. ~Has(A, "gone")
  <2>1. Has(A, "gone") <=> \E x \in ToSet(A) : x.key = "gone"
    BY HasInSet
  <2> QED
    BY <1>6, <2>1
<1>13. Has(B, "gone")
  <2>1. Has(B, "gone") <=> \E x \in ToSet(B) : x.key = "gone"
    BY HasInSet
  <2> QED
    BY <1>5, <2>1, AttrIs
<1> QED
  BY <1>4, <1>5, <1>10, <1>11, <1>12, <1>13, Zenon

LEMMA LastValueIs ==
  ASSUME NEW X, NEW attrs \in Seq(X), NEW key, NEW default
  PROVE  IF \E a \in ToSet(attrs) : a.key = key
         THEN \E a \in ToSet(attrs) : a.key = key /\ LastValue(attrs, key, default) = a.val
         ELSE LastValue(attrs, key, default) = default
<1> DEFINE at == {i \in DOMAIN attrs : attrs[i].key = key}
<1>1. PICK n \in Nat : n = Len(attrs) /\ DOMAIN attrs = 1..n
  OBVIOUS
<1>2. \A a : a \in ToSet(attrs) <=> \E i \in 1..n : attrs[i] = a
  BY <1>1 DEF ToSet
<1>3. CASE at = {}
  <2>1. LastValue(attrs, key, default) = default
    BY <1>3 DEF LastValue
  <2>2. ~\E a \in ToSet(attrs) : a.key = key
    BY <1>1, <1>2, <1>3
  <2> QED
    BY <2>1, <2>2
<1>4. CASE ~(at = {})
  <2>1. LastValue(attrs, key, default) = attrs[Max(at)].val
    BY <1>4 DEF LastValue
  <2>2. Max(at) \in at
    <3>1. Max(at) = O!Max(at)
      BY DEF Max, O!Max
    <3>2. at \in SUBSET (1..n)
      BY <1>1
    <3> HIDE DEF at
    <3>3. O!Max(at) \in at
      BY <1>4, <3>2, O!Greatest
    <3> QED
      BY <3>1, <3>3, Zenon
  <2>3. PICK i \in 1..n : i = Max(at) /\ attrs[i].key = key
    BY <1>1, <2>2
  <2>4. attrs[i] \in ToSet(attrs)
    BY <1>2
  <2> HIDE DEF at
  <2> QED
    BY <2>1, <2>3, <2>4
<1> QED
  BY <1>3, <1>4

LEMMA CookieFits ==
  ASSUME NEW attrs, NEW paths, NEW secureAttr \in BOOLEAN, Suits(attrs, paths, secureAttr),
         secureAttr => https, paths \subseteq Paths \cup {"/"},
         NEW name \in AllNames, NEW val \in Nat, NEW page,
         name \in Tracked => paths \subseteq {"/"},
         name = "__Host-n8np_session" => secureAttr /\ paths \subseteq {"/"},
         NEW c, c = Cookie(SetCookie(name, val, attrs), page)
  PROVE  Fits(c) /\ c.name = name /\ c.val = val /\ c.secure = secureAttr
<1>1. attrs \in Seq(AnyAttr)
  BY DEF Suits
<1>2. LastValue(attrs, "domain", "own") = "own"
  BY <1>1, LastValueIs DEF Suits
<1>3. LastValue(attrs, "path", page) \in paths
  BY <1>1, LastValueIs DEF Suits
<1>4. PICK sm : /\ sm = LastValue(attrs, "samesite", "lax")
                /\ sm \in {"lax", "none", "strict"} /\ (sm = "none" => secureAttr)
  BY <1>1, LastValueIs DEF Suits
<1>5. Has(attrs, "secure") <=> secureAttr
  BY <1>1, HasInSet DEF Suits
<1>6. /\ c.name = name /\ c.val = val /\ c.host = "own" /\ c.path \in paths
      /\ c.samesite = sm /\ c.secure = Has(attrs, "secure")
      /\ c = [name |-> name, val |-> val, host |-> "own", path |-> c.path,
              secure |-> Has(attrs, "secure"), samesite |-> sm]
  BY <1>2, <1>3, <1>4 DEF Cookie, SetCookie
<1>7. c.secure = secureAttr
  BY <1>5, <1>6, Zenon DEF Has
<1>8. c \in Baked
  <2>1. c = [name |-> name, val |-> val, host |-> "own", path |-> c.path,
             secure |-> secureAttr, samesite |-> sm]
    BY <1>6, <1>7
  <2>2. c.path \in Paths \cup {"/"}
    BY <1>6
  <2> QED
    BY <1>4, <2>1, <2>2 DEF Baked
<1>9. Admitted(c)
  BY <1>4, <1>6, <1>7 DEF Admitted
<1> QED
  BY <1>6, <1>7, <1>8, <1>9 DEF Fits


-----------------------------------------------------------------------------
(* What one Set-Cookie header, and a list of them, does to a jar. *)

\* From j to k one name got a new value.
Changes(j, k, changed, val) ==
    /\ JarOK(k)
    /\ \A name \in Tracked : \A v : Tells(j, name, v) =>
          Tells(k, name, IF changed # name THEN v ELSE val)

Schemes == https \in BOOLEAN /\ secure \in {https, FALSE}

LEMMA SchemesIs == Schemes => secure \in BOOLEAN /\ (secure => https)
<1> SUFFICES ASSUME Schemes
             PROVE  secure \in BOOLEAN /\ (secure => https)
  OBVIOUS
<1>1. secure = https \/ secure = FALSE
  BY Zenon DEF Schemes
<1>2. CASE secure = https
  BY <1>2, Zenon DEF Schemes
<1>3. CASE secure = FALSE
  BY <1>3, Zenon
<1> QED
  BY <1>1, <1>2, <1>3

LEMMA SetCookieIs == \A name, val, attrs : SetCookie(name, val, attrs).attrs = attrs
BY DEF SetCookie

LEMMA ProxySet ==
  ASSUME Schemes, NEW j, JarOK(j), NEW name \in ProxyCookieNames, NEW val \in Nat \ {None},
         name = "__Host-n8np_session" => secure, NEW page
  PROVE  Changes(j, Store(j, SetCookie(name, val, ProxyAttrs(secure)), page), name, val)
<1>1. secure \in BOOLEAN /\ (secure => https) /\ name \in AllNames
  BY SchemesIs, Zenon DEF AllNames
<1>2. PICK attrs : /\ attrs = ProxyAttrs(secure) /\ Suits(attrs, {"/"}, secure)
                   /\ ~Has(attrs, "gone")
  BY <1>1, ProxyAttrsSuit
<1>3. PICK set : set = SetCookie(name, val, attrs) /\ set.attrs = attrs
  BY SetCookieIs, Zenon
<1>4. PICK c : c = Cookie(set, page)
  OBVIOUS
<1>5. Fits(c) /\ c.name = name /\ c.val = val /\ c.secure = secure
  BY <1>1, <1>2, <1>3, <1>4, CookieFits
<1>6. Changes(j, Store(j, set, page), name, val)
  BY <1>2, <1>3, <1>4, <1>5, StoredOK DEF Changes
<1> QED
  BY <1>2, <1>3, <1>6

LEMMA ProxyClear ==
  ASSUME Schemes, NEW j, JarOK(j), NEW name \in ProxyCookieNames,
         NEW secureAttr \in {secure, FALSE},
         name = "__Host-n8np_session" => secureAttr, NEW page
  PROVE  Changes(j, Store(j, Clear(name, secureAttr), page), name, None)
<1>1. secureAttr \in BOOLEAN /\ (secureAttr => https) /\ name \in AllNames /\ None \in Nat
  <2>1. secureAttr = secure \/ secureAttr = FALSE
    BY Zenon
  <2>2. secureAttr \in BOOLEAN /\ (secureAttr => https)
    <3>1. secure \in BOOLEAN /\ (secure => https)
      BY SchemesIs
    <3>2. CASE secureAttr = secure
      BY <3>1, <3>2, Zenon
    <3>3. CASE secureAttr = FALSE
      BY <3>3, Zenon
    <3> QED
      BY <2>1, <3>2, <3>3
  <2>3. None \in Nat
    BY DEF None
  <2> QED
    BY <2>2, <2>3, Zenon DEF AllNames
<1>2. PICK attrs : /\ attrs = Append(ProxyAttrs(secureAttr), Flag("gone"))
                   /\ Suits(attrs, {"/"}, secureAttr) /\ Has(attrs, "gone")
  BY <1>1, ProxyAttrsSuit, Zenon
<1>3. PICK set : set = SetCookie(name, None, attrs) /\ set.attrs = attrs
  BY SetCookieIs, Zenon
<1>4. PICK c : c = Cookie(set, page)
  OBVIOUS
<1>5. Fits(c) /\ c.name = name
  BY <1>1, <1>2, <1>3, <1>4, CookieFits
<1>6. Changes(j, Store(j, set, page), name, None)
  <2>1. Has(set.attrs, "gone")
    BY <1>2, <1>3
  <2>2. /\ JarOK(Store(j, set, page))
        /\ \A n \in Tracked : \A v : Tells(j, n, v) =>
              Tells(Store(j, set, page), n,
                    IF c.name # n THEN v
                    ELSE IF Has(set.attrs, "gone") THEN None ELSE c.val)
    BY <1>4, <1>5, <2>1, StoredOK
  <2> QED
    BY <1>5, <2>1, <2>2 DEF Changes
<1>7. Clear(name, secureAttr) = set
  BY <1>2, <1>3, Zenon DEF Clear
<1> QED
  BY <1>6, <1>7, Zenon

LEMMA N8NSet ==
  ASSUME Schemes, NEW j, JarOK(j), NEW name \in Names, NEW val \in Nat \ {None},
         NEW raw \in Seq(Attributes), NEW page
  PROVE  Changes(j, Store(j, SetCookie(name, val, RewriteSetCookie(raw, secure)), page),
                 name, IF Has(raw, "gone") THEN None ELSE val)
<1>1. secure \in BOOLEAN /\ (secure => https) /\ name \in AllNames
  BY SchemesIs, Zenon DEF AllNames
<1>2. PICK attrs : /\ attrs = RewriteSetCookie(raw, secure)
                   /\ Suits(attrs, Paths \cup {"/"}, secure)
                   /\ Has(attrs, "gone") <=> Has(raw, "gone")
  BY <1>1, RewriteSuits, Zenon
<1>3. PICK set : set = SetCookie(name, val, attrs) /\ set.attrs = attrs
  BY SetCookieIs, Zenon
<1>4. PICK c : c = Cookie(set, page)
  OBVIOUS
<1>5. /\ name \in Tracked => Paths \cup {"/"} \subseteq {"/"}
      /\ name # "__Host-n8np_session"
  BY CookiesAssumption DEF Tracked, ProxyCookieNames
<1>6. Fits(c) /\ c.name = name /\ c.val = val /\ c.secure = secure
  BY <1>1, <1>2, <1>3, <1>4, <1>5, CookieFits
<1>7. Changes(j, Store(j, set, page), name, IF Has(raw, "gone") THEN None ELSE val)
  BY <1>2, <1>3, <1>4, <1>6, StoredOK DEF Changes
<1> QED
  BY <1>2, <1>3, <1>7

Storing(page, cookies, set) == Store(cookies, set, page)
ST == INSTANCE FoldTheory WITH op <- Storing

LEMMA StoreAllIsFold ==
  \A sets, page : StoreAll(sets, page) = ST!Fold(page, jar, sets)
BY DEF StoreAll, Storing, ST!Fold, ST!Max, Max, ST!FoldLeft, ST!MapThenFoldSet,
       FoldLeft, MapThenFoldSet

LEMMA OneMoreStored ==
  ASSUME NEW X, NEW s \in Seq(X), NEW e, NEW t \in Seq(X), ST!Extends(t, s, e), NEW page,
         NEW cookies
  PROVE  ST!Fold(page, cookies, t) = Store(ST!Fold(page, cookies, s), e, page)
<1>1. ST!Fold(page, cookies, t) = Storing(page, ST!Fold(page, cookies, s), e)
  BY ST!FoldAppend
<1> QED
  BY <1>1 DEF Storing

LEMMA OneStored ==
  ASSUME NEW a, NEW page
  PROVE  ST!Fold(page, jar, <<a>>) = Store(jar, a, page)
<1>1. PICK s \in Seq({a}), t \in Seq({a}) :
         s = <<>> /\ t = <<a>> /\ ST!Extends(t, s, a)
  <2>1. <<>> \in Seq({a}) /\ <<a>> \in Seq({a})
    OBVIOUS
  <2>2. ST!Extends(<<a>>, <<>>, a)
    BY DEF ST!Extends
  <2> QED
    BY <2>1, <2>2, Zenon
<1>2. ST!Fold(page, jar, t) = Store(ST!Fold(page, jar, s), a, page)
  <2>1. ST!Extends(t, s, a)
    BY <1>1, Zenon
  <2> QED
    BY <2>1, OneMoreStored
<1> QED
  BY <1>1, <1>2, ST!FoldEmpty

LEMMA TwoStored ==
  ASSUME NEW a, NEW b, NEW page
  PROVE  ST!Fold(page, jar, <<a, b>>) = Store(Store(jar, a, page), b, page)
<1>1. PICK s \in Seq({a, b}), t \in Seq({a, b}) :
         s = <<a>> /\ t = <<a, b>> /\ ST!Extends(t, s, b)
  <2>1. <<a>> \in Seq({a, b}) /\ <<a, b>> \in Seq({a, b})
    OBVIOUS
  <2>2. ST!Extends(<<a, b>>, <<a>>, b)
    BY DEF ST!Extends
  <2> QED
    BY <2>1, <2>2, Zenon
<1>2. ST!Fold(page, jar, t) = Store(ST!Fold(page, jar, s), b, page)
  <2>1. ST!Extends(t, s, b)
    BY <1>1, Zenon
  <2> QED
    BY <2>1, OneMoreStored
<1> QED
  BY <1>1, <1>2, OneStored

LEMMA ThreeStored ==
  ASSUME NEW a, NEW b, NEW c, NEW page
  PROVE  ST!Fold(page, jar, <<a, b, c>>) =
            Store(Store(Store(jar, a, page), b, page), c, page)
<1>1. PICK s \in Seq({a, b, c}), t \in Seq({a, b, c}) :
         s = <<a, b>> /\ t = <<a, b, c>> /\ ST!Extends(t, s, c)
  <2>1. <<a, b>> \in Seq({a, b, c}) /\ <<a, b, c>> \in Seq({a, b, c})
    OBVIOUS
  <2>2. ST!Extends(<<a, b, c>>, <<a, b>>, c)
    BY DEF ST!Extends
  <2> QED
    BY <2>1, <2>2, Zenon
<1>2. ST!Fold(page, jar, t) = Store(ST!Fold(page, jar, s), c, page)
  <2>1. ST!Extends(t, s, c)
    BY <1>1, Zenon
  <2> QED
    BY <2>1, OneMoreStored
<1> QED
  BY <1>1, <1>2, TwoStored

LEMMA FourStored ==
  ASSUME NEW a, NEW b, NEW c, NEW d, NEW page
  PROVE  ST!Fold(page, jar, <<a, b, c, d>>) =
            Store(Store(Store(Store(jar, a, page), b, page), c, page), d, page)
<1>1. PICK s \in Seq({a, b, c, d}), t \in Seq({a, b, c, d}) :
         s = <<a, b, c>> /\ t = <<a, b, c, d>> /\ ST!Extends(t, s, d)
  <2>1. <<a, b, c>> \in Seq({a, b, c, d}) /\ <<a, b, c, d>> \in Seq({a, b, c, d})
    OBVIOUS
  <2>2. ST!Extends(<<a, b, c, d>>, <<a, b, c>>, d)
    BY DEF ST!Extends
  <2> QED
    BY <2>1, <2>2, Zenon
<1>2. ST!Fold(page, jar, t) = Store(ST!Fold(page, jar, s), d, page)
  <2>1. ST!Extends(t, s, d)
    BY <1>1, Zenon
  <2> QED
    BY <2>1, OneMoreStored
<1> QED
  BY <1>1, <1>2, ThreeStored

-----------------------------------------------------------------------------
(* The invariant: the jar tells of each name what was last given under it. *)

Given(name) ==
    IF name \in Names THEN latest[name]
    ELSE IF name = "__Host-n8np_session" /\ ~secure THEN None
    ELSE IF name = "n8np_n8n_bridge" /\ session # None THEN 1
    ELSE session

CookiesInv ==
    /\ Schemes
    /\ JarOK(jar)
    /\ \A name \in Tracked : Tells(jar, name, Given(name))
    /\ latest \in [Names -> 0..MaxSets] /\ session \in 0..MaxSets
    /\ count \in 0..MaxSets

LEMMA SameScheme ==
  ASSUME UNCHANGED <<https, secure>>, NEW k, k = jar', JarOK(k), Schemes
  PROVE  JarOK(jar)' /\ Schemes'
BY DEF JarOK, Own, Admitted, Schemes

LEMMA ConcatTuples ==
  /\ \A b, c : <<>> \o <<b, c>> = <<b, c>>
  /\ \A a, b, c : <<a>> \o <<b, c>> = <<a, b, c>>
  /\ \A a, b, c, d : <<a, b>> \o <<c, d>> = <<a, b, c, d>>
<1>1. ASSUME NEW b, NEW c
      PROVE  <<>> \o <<b, c>> = <<b, c>>
  <2>1. /\ <<>> \o <<b, c>> \in Seq({b, c}) /\ <<b, c>> \in Seq({b, c})
        /\ Len(<<>> \o <<b, c>>) = 2 /\ Len(<<b, c>>) = 2
    OBVIOUS
  <2>2. \A i \in 1..2 : (<<>> \o <<b, c>>)[i] = <<b, c>>[i]
    OBVIOUS
  <2> QED
    BY <2>1, <2>2, SeqEqual
<1>2. ASSUME NEW a, NEW b, NEW c
      PROVE  <<a>> \o <<b, c>> = <<a, b, c>>
  <2>1. /\ <<a>> \o <<b, c>> \in Seq({a, b, c}) /\ <<a, b, c>> \in Seq({a, b, c})
        /\ Len(<<a>> \o <<b, c>>) = 3 /\ Len(<<a, b, c>>) = 3
    OBVIOUS
  <2>2. \A i \in 1..3 : (<<a>> \o <<b, c>>)[i] = <<a, b, c>>[i]
    OBVIOUS
  <2> QED
    BY <2>1, <2>2, SeqEqual
<1>3. ASSUME NEW a, NEW b, NEW c, NEW d
      PROVE  <<a, b>> \o <<c, d>> = <<a, b, c, d>>
  <2>1. /\ <<a, b>> \o <<c, d>> \in Seq({a, b, c, d}) /\ <<a, b, c, d>> \in Seq({a, b, c, d})
        /\ Len(<<a, b>> \o <<c, d>>) = 4 /\ Len(<<a, b, c, d>>) = 4
    OBVIOUS
  <2>2. \A i \in 1..4 : (<<a, b>> \o <<c, d>>)[i] = <<a, b, c, d>>[i]
    OBVIOUS
  <2> QED
    BY <2>1, <2>2, SeqEqual
<1> QED
  BY <1>1, <1>2, <1>3, Zenon

LEMMA ProxyNames ==
  /\ {"__Host-n8np_session", "n8np_session", "n8np_n8n_bridge"} = ProxyCookieNames
  /\ ProxyCookieNames \subseteq Tracked
  /\ \A name \in ProxyCookieNames : name \notin Names
  /\ \A name \in Tracked : name \in Names \/ name \in ProxyCookieNames
BY CookiesAssumption DEF ProxyCookieNames, Tracked

LEMMA CookiesInitOK == CookiesInit => CookiesInv
<1> SUFFICES ASSUME CookiesInit PROVE CookiesInv
  OBVIOUS
<1>1. jar = <<>> \/ jar = <<Older>>
  BY DEF CookiesInit
<1>2. Older \in Baked
  BY DEF Older, Baked, AllNames, None
<1>3. JarOK(jar)
  <2>1. CASE jar = <<>>
    BY <2>1 DEF JarOK
  <2>2. CASE jar = <<Older>>
    <3>1. Len(jar) = 1 /\ jar[1] = Older /\ jar \in Seq(Baked)
      BY <1>2, <2>2
    <3>2. \A i \in 1..1 : i = 1
      OBVIOUS
    <3> QED
      BY <3>1, <3>2, Zenon DEF JarOK
  <2> QED
    BY <1>1, <2>1, <2>2
<1>4. \A name : Tells(jar, name, None)
  <2>1. \A d \in ToSet(jar) : d = Older
    BY <1>1, Tuples
  <2>2. Older.host # "own"
    BY DEF Older
  <2> QED
    BY <2>1, <2>2 DEF Tells
<1>5. latest = [name \in Names |-> None] /\ session = None /\ count = 0 /\ Schemes
  BY DEF CookiesInit, Schemes
<1>6. \A name \in Tracked : Given(name) = None
  BY <1>5 DEF Given
<1>7. None \in 0..MaxSets /\ 0 \in 0..MaxSets
  BY CookiesAssumption DEF None
<1> QED
  BY <1>3, <1>4, <1>5, <1>6, <1>7 DEF CookiesInv

LEMMA CountOK ==
  ASSUME CookiesInv, count < MaxSets, count' = count + 1
  PROVE  count' \in 0..MaxSets /\ count' \in Nat \ {None}
BY CookiesAssumption DEF CookiesInv, None

LEMMA N8NSetsOK ==
  ASSUME CookiesInv, NEW name \in Names, NEW raw \in Seq(Attributes), NEW page,
         N8NSets(name, raw, page)
  PROVE  CookiesInv'
<1>1. /\ count < MaxSets /\ count' = count + 1 /\ UNCHANGED <<https, secure, session>>
      /\ jar' = Store(jar, SetCookie(name, count', RewriteSetCookie(raw, secure)), page)
      /\ latest' = [latest EXCEPT ![name] = IF Has(raw, "gone") THEN None ELSE count']
  BY DEF N8NSets
<1>2. PICK id \in Nat \ {None} : id = count' /\ id \in 0..MaxSets
  BY <1>1, CountOK
<1>3. Schemes /\ JarOK(jar) /\ latest \in [Names -> 0..MaxSets] /\ session \in 0..MaxSets
  BY DEF CookiesInv
<1>4. PICK k : k = Store(jar, SetCookie(name, id, RewriteSetCookie(raw, secure)), page)
  OBVIOUS
<1>5. Changes(jar, k, name, IF Has(raw, "gone") THEN None ELSE id)
  BY <1>3, <1>4, N8NSet
<1>6. k = jar'
  BY <1>1, <1>2, <1>4
<1>7. JarOK(jar)' /\ Schemes'
  BY <1>1, <1>3, <1>5, <1>6, SameScheme DEF Changes
<1>8. PICK val \in 0..MaxSets : /\ val = IF Has(raw, "gone") THEN None ELSE id
                                /\ latest' = [latest EXCEPT ![name] = val]
  <2>1. None \in 0..MaxSets
    BY CookiesAssumption DEF None
  <2> QED
    BY <1>1, <1>2, <2>1
<1>9. latest' \in [Names -> 0..MaxSets]
  BY <1>3, <1>8
<1>10. ASSUME NEW n \in Tracked
       PROVE  Tells(k, n, Given(n)')
  <2>1. Tells(jar, n, Given(n))
    BY DEF CookiesInv
  <2>2. Tells(k, n, IF name # n THEN Given(n) ELSE val)
    BY <1>5, <1>8, <2>1, Zenon DEF Changes
  <2>3. Given(n)' = IF name # n THEN Given(n) ELSE val
    BY <1>1, <1>3, <1>8 DEF Given
  <2> QED
    BY <2>2, <2>3, Zenon
<1>11. \A n \in Tracked : Tells(jar', n, Given(n)')
  BY <1>6, <1>10, Zenon
<1>12. session' \in 0..MaxSets /\ count' \in 0..MaxSets
  BY <1>1, <1>2, <1>3
<1> QED
  BY <1>7, <1>9, <1>11, <1>12 DEF CookiesInv, Tells

\* The names the gateway sets and clears in the present mode, and the order.
LEMMA ProxySetsAre ==
  ASSUME NEW id, NEW page
  PROVE  StoreAll(ProxySessionCookies(id), page) =
           LET S(j, name, val) == Store(j, SetCookie(name, val, ProxyAttrs(secure)), page)
               first == IF secure THEN S(jar, "__Host-n8np_session", id) ELSE jar
           IN  S(S(first, "n8np_session", id), "n8np_n8n_bridge", 1)
<1> DEFINE h == SetCookie("__Host-n8np_session", id, ProxyAttrs(secure))
           p == SetCookie("n8np_session", id, ProxyAttrs(secure))
           b == SetCookie("n8np_n8n_bridge", 1, ProxyAttrs(secure))
<1>1. CASE secure
  <2>1. ProxySessionCookies(id) =
          <<SetCookie("__Host-n8np_session", id, ProxyAttrs(TRUE))>> \o <<p, b>>
    BY <1>1, Zenon DEF ProxySessionCookies
  <2>2. ProxyAttrs(TRUE) = ProxyAttrs(secure)
    BY <1>1, Zenon DEF ProxyAttrs
  <2>3. ProxySessionCookies(id) = <<h, p, b>>
    BY <2>1, <2>2, ConcatTuples, Zenon
  <2> HIDE DEF h, p, b
  <2>4. ST!Fold(page, jar, <<h, p, b>>) =
            Store(Store(Store(jar, h, page), p, page), b, page)
    BY ThreeStored, Zenon
  <2> QED
    BY <1>1, <2>3, <2>4, StoreAllIsFold, Zenon DEF h, p, b
<1>2. CASE ~secure
  <2>1. ProxySessionCookies(id) = <<>> \o <<p, b>>
    BY <1>2, Zenon DEF ProxySessionCookies
  <2>2. ProxySessionCookies(id) = <<p, b>>
    BY <2>1, ConcatTuples, Zenon
  <2> HIDE DEF h, p, b
  <2>3. ST!Fold(page, jar, <<p, b>>) = Store(Store(jar, p, page), b, page)
    BY TwoStored, Zenon
  <2> QED
    BY <1>2, <2>2, <2>3, StoreAllIsFold, Zenon DEF h, p, b
<1> QED
  BY <1>1, <1>2

LEMMA ProxyClearsAre ==
  ASSUME NEW page
  PROVE  StoreAll(ClearProxySessionCookies, page) =
           LET S(j, name, sec) == Store(j, Clear(name, sec), page)
               first == IF secure THEN S(S(jar, "__Host-n8np_session", TRUE), "n8np_session", TRUE)
                                  ELSE S(jar, "n8np_session", FALSE)
           IN  S(S(first, "n8np_session", FALSE), "n8np_n8n_bridge", secure)
<1> DEFINE h == Clear("__Host-n8np_session", TRUE)
           p == Clear("n8np_session", TRUE)
           q == Clear("n8np_session", FALSE)
           b == Clear("n8np_n8n_bridge", secure)
<1>1. CASE secure
  <2>1. ClearProxySessionCookies = <<h, p>> \o <<q, b>>
    BY <1>1, Zenon DEF ClearProxySessionCookies
  <2> HIDE DEF h, p, q, b
  <2>2. ClearProxySessionCookies = <<h, p, q, b>>
    <3>1. <<h, p>> \o <<q, b>> = <<h, p, q, b>>
      BY ConcatTuples, SMT
    <3> QED
      BY <2>1, <3>1, Zenon
  <2>3. ST!Fold(page, jar, <<h, p, q, b>>) =
            Store(Store(Store(Store(jar, h, page), p, page), q, page), b, page)
    BY FourStored, Zenon
  <2> QED
    BY <1>1, <2>2, <2>3, StoreAllIsFold, Zenon DEF h, p, q, b
<1>2. CASE ~secure
  <2>1. ClearProxySessionCookies = <<q>> \o <<q, b>>
    BY <1>2, Zenon DEF ClearProxySessionCookies
  <2> HIDE DEF h, p, q, b
  <2>2. ClearProxySessionCookies = <<q, q, b>>
    <3>1. <<q>> \o <<q, b>> = <<q, q, b>>
      BY ConcatTuples, SMT
    <3> QED
      BY <2>1, <3>1, Zenon
  <2>3. ST!Fold(page, jar, <<q, q, b>>) =
            Store(Store(Store(jar, q, page), q, page), b, page)
    BY ThreeStored, Zenon
  <2> QED
    BY <1>2, <2>2, <2>3, StoreAllIsFold, Zenon DEF h, p, q, b
<1> QED
  BY <1>1, <1>2, Zenon

\* After both: every name of the gateway's that may be in the jar has its value.
Becomes(k, id, bridge) ==
    /\ JarOK(k)
    /\ \A name \in Tracked : Tells(k, name,
          IF name \in Names THEN latest[name]
          ELSE IF name = "__Host-n8np_session" /\ ~secure THEN None
          ELSE IF name = "n8np_n8n_bridge" THEN bridge
          ELSE id)

LEMMA ProxyNameCases ==
  ASSUME NEW name \in Tracked, name \notin Names
  PROVE  name \in {"__Host-n8np_session", "n8np_session", "n8np_n8n_bridge"}
BY ProxyNames

LEMMA SetsBecome ==
  ASSUME CookiesInv, NEW id \in Nat \ {None}, NEW page
  PROVE  Becomes(StoreAll(ProxySessionCookies(id), page), id, 1)
<1> DEFINE S(j, name, val) == Store(j, SetCookie(name, val, ProxyAttrs(secure)), page)
<1>1. Schemes /\ JarOK(jar) /\ \A n \in Tracked : Tells(jar, n, Given(n))
  BY DEF CookiesInv
<1>2. 1 \in Nat \ {None}
  BY DEF None
<1>3. PICK j : /\ j = IF secure THEN S(jar, "__Host-n8np_session", id) ELSE jar
               /\ JarOK(j)
               /\ \A n \in Tracked : Tells(j, n,
                     IF n = "__Host-n8np_session" /\ secure THEN id ELSE Given(n))
  <2>1. CASE secure
    <3>1. Changes(jar, S(jar, "__Host-n8np_session", id), "__Host-n8np_session", id)
      BY <1>1, <2>1, ProxySet, ProxyNames
    <3> HIDE DEF S
    <3>2. PICK j : j = S(jar, "__Host-n8np_session", id)
      OBVIOUS
    <3>3. JarOK(j)
      BY <3>1, <3>2 DEF Changes
    <3>4. ASSUME NEW n \in Tracked
          PROVE  Tells(j, n, IF n = "__Host-n8np_session" /\ secure THEN id ELSE Given(n))
      <4>1. Tells(j, n, IF "__Host-n8np_session" # n THEN Given(n) ELSE id)
        BY <1>1, <3>1, <3>2, Zenon DEF Changes
      <4> QED
        BY <2>1, <4>1
    <3> QED
      BY <2>1, <3>2, <3>3, <3>4, Zenon
  <2>2. CASE ~secure
    BY <1>1, <2>2, Zenon
  <2> QED
    BY <2>1, <2>2
<1>4. Changes(j, S(j, "n8np_session", id), "n8np_session", id)
  BY <1>1, <1>3, ProxySet, ProxyNames
<1>5. PICK k : k = S(j, "n8np_session", id) /\ Changes(j, k, "n8np_session", id)
  BY <1>4
<1>6. Changes(k, S(k, "n8np_n8n_bridge", 1), "n8np_n8n_bridge", 1)
  BY <1>1, <1>2, <1>5, ProxySet, ProxyNames DEF Changes
<1>7. PICK l : l = S(k, "n8np_n8n_bridge", 1) /\ Changes(k, l, "n8np_n8n_bridge", 1)
  BY <1>6
<1>8. StoreAll(ProxySessionCookies(id), page) = l
  BY <1>3, <1>5, <1>7, ProxySetsAre
<1> HIDE DEF S
<1>9. ASSUME NEW n \in Tracked
      PROVE  Tells(l, n, IF n \in Names THEN latest[n]
                         ELSE IF n = "__Host-n8np_session" /\ ~secure THEN None
                         ELSE IF n = "n8np_n8n_bridge" THEN 1 ELSE id)
  <2>1. PICK v : v = (IF n = "__Host-n8np_session" /\ secure THEN id ELSE Given(n)) /\ Tells(j, n, v)
    BY <1>3, Zenon
  <2>2. PICK w : w = (IF "n8np_session" # n THEN v ELSE id) /\ Tells(k, n, w)
    BY <1>5, <2>1, Zenon DEF Changes
  <2>3. PICK x : x = (IF "n8np_n8n_bridge" # n THEN w ELSE 1) /\ Tells(l, n, x)
    BY <1>7, <2>2, Zenon DEF Changes
  <2>4. x = IF n \in Names THEN latest[n]
            ELSE IF n = "__Host-n8np_session" /\ ~secure THEN None
            ELSE IF n = "n8np_n8n_bridge" THEN 1 ELSE id
    <3>1. CASE n \in Names
      <4>1. n \notin ProxyCookieNames
        BY <3>1, ProxyNames
      <4> QED
        BY <2>1, <2>2, <2>3, <3>1, <4>1, ProxyNames DEF Given
    <3>2. CASE n \notin Names
      BY <2>1, <2>2, <2>3, <3>2, ProxyNameCases DEF Given
    <3> QED
      BY <3>1, <3>2
  <2> QED
    BY <2>3, <2>4
<1> QED
  BY <1>7, <1>8, <1>9 DEF Becomes, Changes

LEMMA ClearsBecome ==
  ASSUME CookiesInv, NEW page
  PROVE  Becomes(StoreAll(ClearProxySessionCookies, page), None, None)
<1> DEFINE S(j, name, sec) == Store(j, Clear(name, sec), page)
<1>1. Schemes /\ JarOK(jar) /\ \A n \in Tracked : Tells(jar, n, Given(n))
  BY DEF CookiesInv
<1>2. /\ FALSE \in {secure, FALSE} /\ secure \in {secure, FALSE}
      /\ secure => TRUE \in {secure, FALSE}
  BY <1>1, SchemesIs, Zenon
<1>3. PICK j : /\ j = IF secure THEN S(S(jar, "__Host-n8np_session", TRUE), "n8np_session", TRUE)
                                ELSE S(jar, "n8np_session", FALSE)
               /\ JarOK(j)
               /\ \A n \in Tracked : Tells(j, n,
                     IF n = "n8np_session" \/ (n = "__Host-n8np_session" /\ secure)
                     THEN None ELSE Given(n))
  <2>1. CASE secure
    <3>1. Changes(jar, S(jar, "__Host-n8np_session", TRUE), "__Host-n8np_session", None)
      BY <1>1, <1>2, <2>1, ProxyClear, ProxyNames
    <3>2. PICK i : /\ i = S(jar, "__Host-n8np_session", TRUE)
                   /\ Changes(jar, i, "__Host-n8np_session", None)
      BY <3>1, Zenon
    <3>3. JarOK(i)
      BY <3>2, Zenon DEF Changes
    <3>4. Changes(i, S(i, "n8np_session", TRUE), "n8np_session", None)
      BY <1>1, <1>2, <2>1, <3>3, ProxyClear, ProxyNames
    <3> HIDE DEF S
    <3>5. PICK j : j = S(i, "n8np_session", TRUE)
      BY Zenon
    <3>6. JarOK(j)
      BY <3>4, <3>5, Zenon DEF Changes
    <3>7. ASSUME NEW n \in Tracked
          PROVE  Tells(j, n, IF n = "n8np_session" \/ (n = "__Host-n8np_session" /\ secure)
                             THEN None ELSE Given(n))
      <4>1. PICK v : v = (IF "__Host-n8np_session" # n THEN Given(n) ELSE None) /\ Tells(i, n, v)
        BY <1>1, <3>2, Zenon DEF Changes
      <4>2. Tells(j, n, IF "n8np_session" # n THEN v ELSE None)
        BY <3>4, <3>5, <4>1, Zenon DEF Changes
      <4> QED
        BY <2>1, <4>1, <4>2
    <3> QED
      BY <2>1, <3>2, <3>5, <3>6, <3>7, Zenon
  <2>2. CASE ~secure
    <3>1. Changes(jar, S(jar, "n8np_session", FALSE), "n8np_session", None)
      BY <1>1, <1>2, ProxyClear, ProxyNames
    <3> HIDE DEF S
    <3>2. PICK j : j = S(jar, "n8np_session", FALSE)
      BY Zenon
    <3>3. JarOK(j)
      BY <3>1, <3>2, Zenon DEF Changes
    <3>4. ASSUME NEW n \in Tracked
          PROVE  Tells(j, n, IF n = "n8np_session" \/ (n = "__Host-n8np_session" /\ secure)
                             THEN None ELSE Given(n))
      <4>1. Tells(j, n, IF "n8np_session" # n THEN Given(n) ELSE None)
        BY <1>1, <3>1, <3>2, Zenon DEF Changes
      <4> QED
        BY <2>2, <4>1
    <3> QED
      BY <2>2, <3>2, <3>3, <3>4, Zenon
  <2> QED
    BY <2>1, <2>2
<1>4. Changes(j, S(j, "n8np_session", FALSE), "n8np_session", None)
  BY <1>1, <1>2, <1>3, ProxyClear, ProxyNames
<1>5. PICK k : k = S(j, "n8np_session", FALSE) /\ Changes(j, k, "n8np_session", None)
  BY <1>4, Zenon
<1>6. JarOK(k)
  BY <1>5, Zenon DEF Changes
<1>7. Changes(k, S(k, "n8np_n8n_bridge", secure), "n8np_n8n_bridge", None)
  BY <1>1, <1>2, <1>6, ProxyClear, ProxyNames
<1>8. PICK l : l = S(k, "n8np_n8n_bridge", secure) /\ Changes(k, l, "n8np_n8n_bridge", None)
  BY <1>7
<1>9. StoreAll(ClearProxySessionCookies, page) = l
  BY <1>3, <1>5, <1>8, ProxyClearsAre
<1> HIDE DEF S
<1>10. ASSUME NEW n \in Tracked
       PROVE  Tells(l, n, IF n \in Names THEN latest[n]
                          ELSE IF n = "__Host-n8np_session" /\ ~secure THEN None
                          ELSE IF n = "n8np_n8n_bridge" THEN None ELSE None)
  <2>1. PICK v : /\ v = (IF n = "n8np_session" \/ (n = "__Host-n8np_session" /\ secure)
                         THEN None ELSE Given(n))
                 /\ Tells(j, n, v)
    BY <1>3, Zenon
  <2>2. PICK w : w = (IF "n8np_session" # n THEN v ELSE None) /\ Tells(k, n, w)
    BY <1>5, <2>1, Zenon DEF Changes
  <2>3. PICK x : x = (IF "n8np_n8n_bridge" # n THEN w ELSE None) /\ Tells(l, n, x)
    BY <1>8, <2>2, Zenon DEF Changes
  <2>4. x = IF n \in Names THEN latest[n] ELSE None
    <3>1. CASE n \in Names
      <4>1. n \notin ProxyCookieNames
        BY <3>1, ProxyNames
      <4> QED
        BY <2>1, <2>2, <2>3, <3>1, <4>1, ProxyNames DEF Given
    <3>2. CASE n \notin Names
      BY <2>1, <2>2, <2>3, <3>2, ProxyNameCases DEF Given
    <3> QED
      BY <3>1, <3>2
  <2> QED
    BY <2>3, <2>4
<1> QED
  BY <1>8, <1>9, <1>10 DEF Becomes, Changes

LEMMA BecomesOK ==
  ASSUME CookiesInv, UNCHANGED <<https, secure, latest>>, NEW k, k = jar',
         session' \in 0..MaxSets, count' \in 0..MaxSets,
         Becomes(k, session', IF session' = None THEN None ELSE 1)
  PROVE  CookiesInv'
<1>1. Schemes /\ latest \in [Names -> 0..MaxSets]
  BY DEF CookiesInv
<1>2. JarOK(k)
  BY DEF Becomes
<1>3. JarOK(jar)' /\ Schemes'
  BY <1>1, <1>2, SameScheme
<1>4. ASSUME NEW n \in Tracked
      PROVE  Tells(k, n, Given(n)')
  <2>1. PICK v : /\ v = IF n \in Names THEN latest[n]
                        ELSE IF n = "__Host-n8np_session" /\ ~secure THEN None
                        ELSE IF n = "n8np_n8n_bridge" THEN IF session' = None THEN None ELSE 1
                        ELSE session'
                 /\ Tells(k, n, v)
    BY Zenon DEF Becomes
  <2>2. v = Given(n)'
    BY <2>1 DEF Given
  <2> QED
    BY <2>1, <2>2
<1>5. \A n \in Tracked : Tells(jar', n, Given(n)')
  BY <1>4, Zenon
<1>6. latest' \in [Names -> 0..MaxSets]
  BY <1>1
<1> QED
  BY <1>3, <1>5, <1>6 DEF CookiesInv, Tells

LEMMA ProxySetsOK ==
  ASSUME CookiesInv, NEW page, ProxySets(page)
  PROVE  CookiesInv'
<1>1. /\ count < MaxSets /\ count' = count + 1 /\ session' = count'
      /\ UNCHANGED <<https, secure, latest>>
      /\ jar' = StoreAll(ProxySessionCookies(count'), page)
  BY DEF ProxySets
<1>2. PICK id \in Nat \ {None} : id = count' /\ id \in 0..MaxSets
  BY <1>1, CountOK
<1>3. PICK k : k = StoreAll(ProxySessionCookies(id), page)
  OBVIOUS
<1>4. Becomes(k, id, 1)
  BY <1>3, SetsBecome
<1>5. k = jar' /\ session' = id
  BY <1>1, <1>2, <1>3, Zenon
<1>6. Becomes(k, session', IF session' = None THEN None ELSE 1)
  BY <1>4, <1>5
<1> QED
  BY <1>1, <1>2, <1>5, <1>6, BecomesOK

LEMMA ProxyClearsOK ==
  ASSUME CookiesInv, NEW page, ProxyClears(page)
  PROVE  CookiesInv'
<1>1. /\ session' = None /\ UNCHANGED <<https, secure, latest, count>>
      /\ jar' = StoreAll(ClearProxySessionCookies, page)
  BY DEF ProxyClears
<1>2. session' \in 0..MaxSets /\ count' \in 0..MaxSets
  BY <1>1, CookiesAssumption DEF CookiesInv, None
<1>3. PICK k : k = StoreAll(ClearProxySessionCookies, page)
  OBVIOUS
<1>4. Becomes(k, None, None)
  BY <1>3, ClearsBecome
<1>5. k = jar'
  BY <1>1, <1>3, Zenon
<1>6. Becomes(k, session', IF session' = None THEN None ELSE 1)
  BY <1>1, <1>4
<1> QED
  BY <1>1, <1>2, <1>5, <1>6, BecomesOK

LEMMA CookiesStep == CookiesInv /\ CookiesNext => CookiesInv'
<1> SUFFICES ASSUME CookiesInv, CookiesNext PROVE CookiesInv'
  OBVIOUS
<1>1. ASSUME NEW page, NEW name \in Names, NEW raw \in SeqOf(Attributes, MaxAttrs),
             N8NSets(name, raw, page)
      PROVE  CookiesInv'
  <2>1. raw \in Seq(Attributes)
    BY DEF SeqOf
  <2> QED
    BY <1>1, <2>1, N8NSetsOK
<1> QED
  BY <1>1, ProxySetsOK, ProxyClearsOK DEF CookiesNext

LEMMA CookiesStutter == CookiesInv /\ UNCHANGED cookieVars => CookiesInv'
<1> SUFFICES ASSUME CookiesInv, UNCHANGED cookieVars PROVE CookiesInv'
  OBVIOUS
<1>1. UNCHANGED <<https, secure>> /\ UNCHANGED jar
  BY DEF cookieVars
<1>2. UNCHANGED latest /\ UNCHANGED session /\ UNCHANGED count
  BY DEF cookieVars
<1>3. JarOK(jar)' /\ Schemes'
  BY <1>1, SameScheme DEF CookiesInv
<1>4. ASSUME NEW n \in Tracked
      PROVE  Tells(jar', n, Given(n)')
  <2>1. Given(n)' = Given(n)
    BY <1>1, <1>2 DEF Given
  <2>2. Tells(jar, n, Given(n))
    BY DEF CookiesInv
  <2> QED
    BY <1>1, <2>1, <2>2
<1>5. latest' \in [Names -> 0..MaxSets] /\ session' \in 0..MaxSets /\ count' \in 0..MaxSets
  BY <1>2 DEF CookiesInv
<1> QED
  BY <1>3, <1>4, <1>5 DEF CookiesInv, Tells

-----------------------------------------------------------------------------
(* What the invariant implies. *)

LEMMA CookiesTypes == CookiesInv => CookiesTypeOK
<1> SUFFICES ASSUME CookiesInv PROVE CookiesTypeOK
  OBVIOUS
<1>1. Schemes /\ JarOK(jar)
  BY DEF CookiesInv
<1>2. DOMAIN jar = 1..Len(jar)
  BY <1>1 DEF JarOK
<1>3. \A i \in DOMAIN jar : jar[i] = Older \/ (Admitted(jar[i]) /\ jar[i].secure = secure)
  BY <1>1, <1>2, Zenon DEF JarOK, Own
<1>4. \A i, j \in DOMAIN jar : SameCookie(jar[i], jar[j]) => i = j
  BY <1>1, <1>2, Zenon DEF JarOK
<1> QED
  BY <1>1, <1>3, <1>4, Zenon DEF CookiesInv, CookiesTypeOK, Schemes

LEMMA Inhabitants ==
  ASSUME CookiesInv, NEW x \in ToSet(jar)
  PROVE  x \in Baked /\ (x = Older \/ Own(x))
<1>1. jar \in Seq(Baked) /\ \A i \in 1..Len(jar) : jar[i] = Older \/ Own(jar[i])
  BY DEF CookiesInv, JarOK
<1>2. PICK i \in 1..Len(jar) : jar[i] = x
  BY <1>1, InSet
<1>3. jar[i] \in Baked
  BY <1>1
<1> QED
  BY <1>1, <1>2, <1>3

LEMMA StaysHere == CookiesInv => ProxyCookiesStayHere
<1> SUFFICES ASSUME CookiesInv, NEW page \in Pages
             PROVE  LET header == SanitizedUpstreamCookieHeader(Header(page))
                        own == ProxySessionCookies(1)
                    IN  ValuesIn(header, {own[i].name : i \in DOMAIN own}) = {}
  BY DEF ProxyCookiesStayHere
<1>1. jar \in Seq(Baked)
  BY DEF CookiesInv, JarOK
<1>2. Header(page) \in Seq(Baked)
  BY <1>1, HeaderSet
<1>3. PICK header \in Seq(Outside) : header = SanitizedUpstreamCookieHeader(Header(page))
  BY <1>2, SanitizedType
<1>4. \A x \in ToSet(header) : x.name \notin ProxyCookieNames
  <2>1. ToSet(header) \subseteq Outside
    BY SetType
  <2> QED
    BY <2>1 DEF Outside
<1>5. PICK own : own = ProxySessionCookies(1)
  OBVIOUS
<1>6. \A i \in DOMAIN own : own[i].name \in ProxyCookieNames
  <2>1. \A name, val, attrs : SetCookie(name, val, attrs).name = name
    BY DEF SetCookie
  <2> DEFINE p == SetCookie("n8np_session", 1, ProxyAttrs(secure))
             b == SetCookie("n8np_n8n_bridge", 1, ProxyAttrs(secure))
             h == SetCookie("__Host-n8np_session", 1, ProxyAttrs(TRUE))
  <2>2. own = <<p, b>> \/ own = <<h, p, b>>
    <3>1. own = (IF secure THEN <<h>> ELSE <<>>) \o <<p, b>>
      BY <1>5, Zenon DEF ProxySessionCookies
    <3> HIDE DEF p, b, h
    <3>2. CASE secure
      <4>1. own = <<h>> \o <<p, b>>
        BY <3>1, <3>2, Zenon
      <4> QED
        BY <4>1, ConcatTuples, Zenon
    <3>3. CASE ~secure
      <4>1. own = <<>> \o <<p, b>>
        BY <3>1, <3>3, Zenon
      <4> QED
        BY <4>1, ConcatTuples, Zenon
    <3> QED
      BY <3>2, <3>3
  <2>3. {p.name, b.name, h.name} \subseteq ProxyCookieNames
    BY <2>1 DEF ProxyCookieNames
  <2> HIDE DEF p, b, h
  <2>4. CASE own = <<p, b>>
    <3>1. \A i \in DOMAIN own : own[i] \in {p, b}
      BY <2>4
    <3> QED
      BY <2>3, <3>1
  <2>5. CASE own = <<h, p, b>>
    <3>1. \A i \in DOMAIN own : own[i] \in {h, p, b}
      BY <2>5
    <3> QED
      BY <2>3, <3>1
  <2> QED
    BY <2>2, <2>4, <2>5
<1>7. PICK names : names = {own[i].name : i \in DOMAIN own} /\ names \subseteq ProxyCookieNames
  BY <1>6
<1>8. \A v : v \notin ValuesIn(header, names)
  <2>1. \A v : v \in ValuesIn(header, names) <=>
            \E x \in ToSet(header) : x.name \in names /\ x.val = v
    BY ValuesBySet
  <2> QED
    BY <1>4, <1>7, <2>1
<1>9. ValuesIn(header, names) = {}
  BY <1>8
<1> QED
  BY <1>3, <1>5, <1>7, <1>9, Zenon

LEMMA SessionIs == CookiesInv => SessionFollowsBrowser
<1> DEFINE SN == {"__Host-n8np_session", "n8np_session"}
<1> SUFFICES ASSUME CookiesInv, NEW page \in Pages
             PROVE  ValuesIn(Header(page), SN) = IF session = None THEN {} ELSE {session}
  BY DEF SessionFollowsBrowser
<1>1. jar \in Seq(Baked) /\ JarOK(jar)
  BY DEF CookiesInv, JarOK
<1>2. /\ Header(page) \in Seq(Baked)
      /\ \A c : c \in ToSet(Header(page)) <=> c \in ToSet(jar) /\ c.path \in {"/", page}
  BY <1>1, HeaderSet
<1>3. \A v : v \in ValuesIn(Header(page), SN) <=>
          \E x \in ToSet(Header(page)) : x.name \in SN /\ x.val = v
  BY <1>2, ValuesBySet
<1>4. ASSUME NEW x \in ToSet(jar), x.name \in SN
      PROVE  x.path = "/" /\ x.val = session /\ session # None
  <2>1. x # Older
    BY <1>4 DEF Older
  <2>2. Own(x) /\ x.name \in Tracked /\ x.name \notin Names
    BY <1>4, <2>1, Inhabitants, ProxyNames
  <2>3. Tells(jar, x.name, Given(x.name))
    BY <2>2 DEF CookiesInv
  <2>4. x.host = "own" /\ x.path = "/"
    BY <2>2 DEF Own, Admitted
  <2>5. x.val = Given(x.name) /\ Given(x.name) # None
    BY <2>3, <2>4, Zenon DEF Tells
  <2>6. Given(x.name) \in {None, session}
    BY <1>4, <2>2 DEF Given
  <2> QED
    BY <2>4, <2>5, <2>6
<1>5. ASSUME session # None
      PROVE  \E x \in ToSet(jar) : x.name \in SN
  <2>1. "n8np_session" \in Tracked /\ "n8np_session" \notin Names
    BY ProxyNames
  <2>2. Given("n8np_session") = session
    BY <2>1 DEF Given
  <2>3. Tells(jar, "n8np_session", session)
    BY <2>1, <2>2 DEF CookiesInv
  <2> QED
    BY <1>5, <2>3 DEF Tells
<1> HIDE DEF SN
<1>6. CASE session = None
  <2>1. \A v : v \notin ValuesIn(Header(page), SN)
    BY <1>2, <1>3, <1>4, <1>6, Zenon
  <2> QED
    BY <1>6, <2>1
<1>7. CASE session # None
  <2>1. \A v : v \in ValuesIn(Header(page), SN) => v = session
    BY <1>2, <1>3, <1>4, Zenon
  <2>2. PICK x \in ToSet(jar) : x.name \in SN
    BY <1>5, <1>7
  <2>3. x.path = "/" /\ x.val = session
    BY <1>4, <2>2
  <2>4. x \in ToSet(Header(page))
    BY <1>2, <2>3
  <2>5. session \in ValuesIn(Header(page), SN)
    BY <1>3, <2>2, <2>3, <2>4, Zenon
  <2> QED
    BY <1>7, <2>1, <2>5
<1> QED
  BY <1>6, <1>7

LEMMA ReachesN8N ==
  ASSUME Paths \subseteq {"/"}, CookiesInv
  PROVE  CookieReachesN8N
<1>1. jar \in Seq(Baked) /\ JarOK(jar)
  BY DEF CookiesInv, JarOK
<1>2. PICK n \in Nat : n = Len(jar)
  BY <1>1
<1>3. \A i \in 1..n : jar[i].path = "/" /\ jar[i] \in ToSet(jar)
  <2>1. \A i \in 1..n : jar[i] \in Baked
    BY <1>1, <1>2
  <2>2. \A i \in 1..n : jar[i] \in ToSet(jar)
    BY <1>1, <1>2, InSet
  <2> QED
    BY <2>1, <2>2 DEF Baked
<1>4. ASSUME NEW page \in Pages
      PROVE  Header(page) = jar
  <2> DEFINE sent == {c \in ToSet(jar) : c.path \in {"/", page}}
             A == {c \in sent : c.path # "/"}
             B == {c \in sent : c.path = "/"}
  <2>1. Header(page) = Only(jar, A) \o Only(jar, B)
    BY DEF Header
  <2>2. \A i \in 1..n : jar[i] \notin A /\ jar[i] \in B
    BY <1>3
  <2> HIDE DEF A, B
  <2>3. Only(jar, A) = <<>>
    BY <1>1, <1>2, <2>2, OnlyNone
  <2>4. Only(jar, B) = jar
    BY <1>1, <1>2, <2>2, OnlyAll
  <2>5. <<>> \o jar = jar
    BY <1>1, ConcatEmptySeq
  <2> QED
    BY <2>1, <2>3, <2>4, <2>5, Zenon
<1>5. ASSUME NEW page \in Pages, NEW name \in Names
      PROVE  LET values == ValuesIn(SanitizedUpstreamCookieHeader(Header(page)), {name})
             IN  IF latest[name] = None THEN values \subseteq {None}
                 ELSE values = {latest[name]}
  <2>1. name \notin ProxyCookieNames /\ name \in Tracked
    BY CookiesAssumption DEF Tracked
  <2>2. GoesOn(jar, name)
    BY <1>1, <2>1, LastGoesOn
  <2>3. Tells(jar, name, latest[name])
    <3>1. Given(name) = latest[name]
      BY DEF Given
    <3> QED
      BY <2>1, <3>1 DEF CookiesInv
  <2>4. ASSUME NEW k \in 1..n, jar[k].name = name
        PROVE  \/ k = 1 /\ jar[k].val = None
               \/ jar[k].host = "own" /\ jar[k].val = latest[name] /\ latest[name] # None
    <3>1. CASE jar[k] = Older
      <4>1. k = 1
        BY <1>1, <1>2, <3>1 DEF JarOK
      <4>2. jar[k].val = None
        BY <3>1 DEF Older
      <4> QED
        BY <4>1, <4>2
    <3>2. CASE Own(jar[k])
      <4>1. jar[k].host = "own"
        BY <3>2 DEF Own, Admitted
      <4> QED
        BY <1>3, <2>3, <2>4, <4>1, Zenon DEF Tells
    <3> QED
      BY <1>1, <1>2, <3>1, <3>2 DEF JarOK
  <2>5. CASE latest[name] = None
    <3>1. \A k \in 1..n : jar[k].name = name => jar[k].val = None
      BY <2>4, <2>5
    <3>2. ValuesIn(SanitizedUpstreamCookieHeader(jar), {name}) \subseteq {None}
      BY <1>2, <2>2, <3>1, Zenon DEF GoesOn
    <3> QED
      BY <1>4, <2>5, <3>2, Zenon
  <2>6. CASE latest[name] # None
    <3>1. PICK d \in ToSet(jar) : d.host = "own" /\ d.name = name
      BY <2>3, <2>6 DEF Tells
    <3>2. PICK i \in 1..n : jar[i] = d
      BY <1>1, <1>2, InSet
    <3>3. jar[i].val = latest[name]
      BY <2>3, <3>1, <3>2, Zenon DEF Tells
    <3>4. ASSUME NEW k \in 1..n, jar[k].name = name
          PROVE  k <= i
      <4>1. CASE k = 1
        BY <4>1
      <4>2. CASE jar[k].host = "own"
        <5>1. SameCookie(jar[k], jar[i])
          BY <1>3, <3>1, <3>2, <3>4, <4>2 DEF SameCookie
        <5>2. k = i
          BY <1>1, <1>2, <5>1 DEF JarOK
        <5> QED
          BY <5>2
      <4> QED
        BY <2>4, <3>4, <4>1, <4>2
    <3>5. ValuesIn(SanitizedUpstreamCookieHeader(jar), {name}) = {jar[i].val}
      BY <1>2, <2>2, <3>1, <3>2, <3>4, Zenon DEF GoesOn
    <3> QED
      BY <1>4, <2>6, <3>3, <3>5, Zenon
  <2> QED
    BY <2>5, <2>6
<1> QED
  BY <1>5, Zenon DEF CookieReachesN8N

-----------------------------------------------------------------------------
(* The theorems about cookies. *)

LEMMA CookiesInvariant == Spec => []CookiesInv
<1>1. Init => CookiesInv
  BY CookiesInitOK DEF Init
<1>2. CookiesInv /\ [Next]_<<part, routesVars, cookieVars>> => CookiesInv'
  BY CookiesStep, CookiesStutter DEF Next
<1> QED
  BY <1>1, <1>2, PTL DEF Spec

\* Paths and cookies stay well formed: a jar holds a cookie once, and only what a
\* browser accepts, with the Secure attribute that the configuration asks for
\* (routes.go:38-54, cookie.go:19-147).
THEOREM TypeCorrect == Spec => []TypeOK
<1>1. Init => part \in {"paths", "cookies"}
  BY DEF Init
<1>2. part \in {"paths", "cookies"} /\ [Next]_<<part, routesVars, cookieVars>>
        => (part \in {"paths", "cookies"})'
  BY DEF Next
<1>3. Spec => [](part \in {"paths", "cookies"})
  BY <1>1, <1>2, PTL DEF Spec
<1>4. part \in {"paths", "cookies"} /\ RoutesTypeOK /\ CookiesInv => TypeOK
  BY CookiesTypes DEF TypeOK
<1> QED
  BY <1>3, <1>4, RoutesTypeCorrect, CookiesInvariant, PTL

\* Whatever a browser has stored, no cookie of the gateway's own goes on to n8n
\* with a proxied request; the gateway's own calls for a logout and for the
\* current user pass the Cookie header as it is (cookie.go:185-222,
\* server.go:295, 303, 456).
THEOREM ProxyCookiesStay == Spec => []ProxyCookiesStayHere
<1> QED
  BY CookiesInvariant, StaysHere, PTL

\* With https or without, under two names or one, the gateway gets the session
\* id back that it gave last, and none after it cleared them, whatever n8n does
\* with its own cookies (cookie.go:19-98).
THEOREM SessionFollows == Spec => []SessionFollowsBrowser
<1> QED
  BY CookiesInvariant, SessionIs, PTL

\* As long as n8n asks for no path but "/", it gets the last value of each of its
\* cookies back on every page, whatever attributes it sends, and not one from
\* before there was a gateway (cookie.go:107-159, 185-213).
THEOREM N8NCookieReaches ==
  ASSUME Paths \subseteq {"/"}
  PROVE  Spec => []CookieReachesN8N
<1>1. CookiesInv => CookieReachesN8N
  BY ReachesN8N
<1> QED
  BY <1>1, CookiesInvariant, PTL
=============================================================================
