---- MODULE ReplyStream_proof ----
(* What the caller hears of a reply is what was received, in its order and    *)
(* with its pauses, for replies of any length and any limits of the chunks    *)
(* and the queue.                                                             *)
EXTENDS ReplyStream, FiniteSetTheorems, SequenceTheorems, WellFoundedInduction, TLAPS

----------------------------------------------------------------------------
(* Numbers in order                                                           *)

\* There is a least number in every set of numbers: the induction of this module.
LEMMA NatLeast ==
    ASSUME NEW T, T \subseteq Nat, T # {}
    PROVE  \E x \in T : \A y \in T : x <= y
<1>1. PICK x \in T : \A y \in T : <<y, x>> \notin OpToRel(<, Nat)
  BY NatLessThanWellFounded, WFMin
<1>2. ASSUME NEW y \in T, y < x PROVE FALSE
  <2>1. <<y, x>> \in Nat \X Nat /\ <<y, x>>[1] < <<y, x>>[2]
    BY <1>2
  <2>2. <<y, x>> \in OpToRel(<, Nat)
    BY <2>1, Zenon DEF OpToRel
  <2> QED
    BY <1>1, <2>2
<1>3. ASSUME NEW y \in T PROVE x <= y
  <2>1. x \in Nat /\ y \in Nat /\ ~ (y < x)
    BY <1>2
  <2> QED
    BY <2>1
<1> QED
  BY <1>1, <1>3

\* A set of numbers that holds 0 and is closed under successor holds all of them.
LEMMA Inductively ==
    ASSUME NEW S, 0 \in S, \A n \in Nat : n \in S => n + 1 \in S
    PROVE  Nat \subseteq S
<1> SUFFICES ASSUME Nat \ S # {} PROVE FALSE
  OBVIOUS
<1>1. PICK x \in Nat \ S : \A y \in Nat \ S : x <= y
  BY NatLeast
<1>2. x - 1 \in Nat /\ x - 1 \in S
  BY <1>1
<1> QED
  BY <1>1, <1>2

LEMMA MinIs ==
    ASSUME NEW T, T \subseteq Nat, T # {}
    PROVE  Min(T) \in T /\ \A y \in T : Min(T) <= y
<1>1. \E x \in T : \A y \in T : x =< y
  BY NatLeast
<1> QED
  BY <1>1 DEF Min

LEMMA MaxIs ==
    ASSUME NEW n \in Nat, NEW T, T \subseteq 0 .. n, T # {}
    PROVE  Max(T) \in T /\ \A y \in T : y <= Max(T)
<1> DEFINE D == {d \in Nat : n - d \in T}
<1>1. D \subseteq Nat
  OBVIOUS
<1>2. D # {}
  <2>1. PICK x \in T : TRUE
    OBVIOUS
  <2>2. x \in Nat /\ n - x \in Nat /\ n - (n - x) = x
    BY <2>1
  <2>3. n - x \in D
    BY <2>1, <2>2
  <2> QED
    BY <2>3
<1>3. PICK d \in D : \A e \in D : d <= e
  BY <1>1, <1>2, NatLeast
<1>4. n - d \in T
  BY <1>3
<1>5. ASSUME NEW y \in T PROVE n - d >= y
  <2>1. y \in 0 .. n /\ n - y \in Nat /\ n - (n - y) = y
    OBVIOUS
  <2>2. n - y \in D
    BY <2>1
  <2>3. d <= n - y /\ d \in Nat
    BY <1>3, <2>2
  <2> QED
    BY <2>1, <2>3
<1>6. \E x \in T : \A y \in T : x >= y
  BY <1>4, <1>5
<1>7. Max(T) \in T /\ \A y \in T : Max(T) >= y
  BY <1>6 DEF Max
<1> QED
  BY <1>7

\* s lists the elements of S in their order.
Lists(s, S) ==
    /\ s \in [1 .. Cardinality(S) -> S]
    /\ \A j, k \in DOMAIN s : j < k => s[j] < s[k]

LEMMA FinitePositions ==
    ASSUME NEW n \in Nat, NEW S \in SUBSET (1 .. n)
    PROVE  IsFiniteSet(S) /\ Cardinality(S) \in Nat
<1>1. IsFiniteSet(1 .. n)
  BY FS_Interval
<1>2. IsFiniteSet(S)
  BY <1>1, FS_Subset
<1> QED
  BY <1>2, FS_CardinalityType

LEMMA ListExists ==
    ASSUME NEW n \in Nat, NEW S \in SUBSET (1 .. n)
    PROVE  \E s : Lists(s, S)
<1> DEFINE Good == {m \in Nat : \A X \in SUBSET (1 .. m) : \E s : Lists(s, X)}
<1>1. 0 \in Good
  <2>1. ASSUME NEW X \in SUBSET (1 .. 0) PROVE Lists(<<>>, X)
    <3>1. X = {}
      OBVIOUS
    <3>2. Cardinality(X) = 0
      BY <3>1, FS_EmptySet, Zenon
    <3> QED
      BY <3>1, <3>2 DEF Lists
  <2> QED
    BY <2>1
<1>2. ASSUME NEW m \in Nat, m \in Good PROVE m + 1 \in Good
  <2>1. ASSUME NEW X \in SUBSET (1 .. m + 1) PROVE \E s : Lists(s, X)
    <3>1. CASE m + 1 \notin X
      <4>1. X \in SUBSET (1 .. m)
        BY <3>1
      <4> QED
        BY <1>2, <4>1
    <3>2. CASE m + 1 \in X
      <4> DEFINE Y == X \ {m + 1}
      <4>1. Y \in SUBSET (1 .. m)
        OBVIOUS
      <4>2. PICK s : Lists(s, Y)
        BY <1>2, <4>1
      <4>3. m + 1 \in Nat /\ IsFiniteSet(X) /\ Cardinality(X) \in Nat
            /\ Cardinality(Y) = Cardinality(X) - 1 /\ Cardinality(Y) \in Nat
        <5>1. m + 1 \in Nat
          OBVIOUS
        <5>2. IsFiniteSet(X) /\ Cardinality(X) \in Nat
          BY <2>1, <5>1, FinitePositions
        <5>3. Cardinality(Y) = Cardinality(X) - 1
          BY <3>2, <5>2, FS_RemoveElement
        <5>4. Cardinality(Y) \in Nat
          BY <4>1, FinitePositions
        <5> QED
          BY <5>1, <5>2, <5>3, <5>4
      <4> HIDE DEF Y
      <4> DEFINE c == Cardinality(X)
                 t == [k \in 1 .. c |-> IF k = c THEN m + 1 ELSE s[k]]
      <4>4. \A k \in 1 .. c : k # c => s[k] \in Y /\ k \in DOMAIN s
        BY <4>2, <4>3 DEF Lists
      <4>5. Y \subseteq X /\ \A y \in Y : y \in Nat /\ y < m + 1
        BY <4>1 DEF Y
      <4>6. t \in [1 .. c -> X]
        BY <3>2, <4>4, <4>5
      <4>7. ASSUME NEW j \in 1 .. c, NEW k \in 1 .. c, j < k PROVE t[j] < t[k]
        <5>1. j # c
          BY <4>3, <4>7
        <5> QED
          BY <4>2, <4>4, <4>5, <4>7, <5>1 DEF Lists
      <4>8. Lists(t, X)
        BY <4>6, <4>7 DEF Lists
      <4> QED
        BY <4>8
    <3> QED
      BY <3>1, <3>2
  <2> QED
    BY <2>1
<1> HIDE DEF Good
<1>3. n \in Good
  BY <1>1, <1>2, Inductively
<1> QED
  BY <1>3 DEF Good

LEMMA InOrderIs ==
    ASSUME NEW n \in Nat, NEW S \in SUBSET (1 .. n)
    PROVE  /\ InOrder(S) \in Seq(S)
           /\ \A j, k \in 1 .. Len(InOrder(S)) : j < k => InOrder(S)[j] < InOrder(S)[k]
           /\ \A x \in S : \E k \in 1 .. Len(InOrder(S)) : InOrder(S)[k] = x
           /\ InOrder(S) = <<>> <=> S = {}
<1> DEFINE s == InOrder(S)
<1>1. \E t \in [1 .. Cardinality(S) -> S] : \A j, k \in DOMAIN t : j < k => t[j] < t[k]
  BY ListExists DEF Lists
<1>2. /\ s \in [1 .. Cardinality(S) -> S]
      /\ \A j, k \in DOMAIN s : j < k => s[j] < s[k]
  BY <1>1 DEF InOrder
<1>3. IsFiniteSet(S) /\ Cardinality(S) \in Nat
  BY FinitePositions
<1> HIDE DEF s
<1>4. s \in Seq(S) /\ Len(s) = Cardinality(S) /\ DOMAIN s = 1 .. Cardinality(S)
  BY <1>2, <1>3
<1>5. \A x \in S : \E k \in 1 .. Len(s) : s[k] = x
  <2>1. IsInjective(s)
    <3>1. ASSUME NEW j \in DOMAIN s, NEW k \in DOMAIN s, s[j] = s[k] PROVE j = k
      <4>0. DOMAIN s = 1 .. Cardinality(S)
        BY <1>2
      <4>1. j \in Nat /\ k \in Nat /\ s[j] \in Nat /\ s[k] \in Nat
        <5>1. j \in 1 .. Cardinality(S) /\ k \in 1 .. Cardinality(S)
          BY <3>1, <4>0
        <5>2. s[j] \in S /\ s[k] \in S
          BY <1>2, <5>1
        <5>3. \A x \in S : x \in Nat
          OBVIOUS
        <5>4. j \in Nat /\ k \in Nat
          BY <1>3, <5>1
        <5> QED
          BY <5>2, <5>3, <5>4
      <4>2. ~ (j < k) /\ ~ (k < j)
        BY <1>2, <3>1, <4>1
      <4> QED
        BY <4>1, <4>2
    <3> QED
      BY <3>1 DEF IsInjective
  <2>2. s \in Injection(1 .. Cardinality(S), S)
    BY <1>2, <2>1 DEF Injection
  <2>3. Cardinality(1 .. Cardinality(S)) = Cardinality(S)
    BY <1>3, FS_Interval
  <2>4. s \in Surjection(1 .. Cardinality(S), S)
    BY <1>3, <2>2, <2>3, FS_Injection
  <2> QED
    BY <1>4, <2>4 DEF Surjection
<1>6. s = <<>> <=> S = {}
  <2>1. Cardinality(S) = 0 <=> S = {}
    BY <1>3, FS_EmptySet, Zenon
  <2>2. s = <<>> <=> Len(s) = 0
    BY <1>4
  <2> QED
    BY <1>4, <2>1, <2>2
<1> QED
  BY <1>2, <1>4, <1>5, <1>6 DEF s

----------------------------------------------------------------------------
(* What sentence_chunks cuts                                                  *)

\* What the agent has to cut: characters in their order, no newline among them.
IsBuffer(B) ==
    B \in Text /\ Ascending(B) /\ \A i \in 1 .. Len(B) : Kind(B[i]) \in {"letter", "stop", "space"}

\* A chunk that was cut at the limit, within a word.
Long(piece) ==
    Len(piece) = ChunkLimit /\ \A i \in MinSplit + 1 .. ChunkLimit : Kind(piece[i]) # "space"

\* Piece k is what stands in B from a[k] to b[k], between characters that are no
\* spaces. The pieces are in order, and where nothing is between two of them the
\* first was cut at the limit. Up to m no character but spaces is outside of them.
CutAt(B, pieces, a, b, m) ==
    /\ a \in [1 .. Len(pieces) -> 1 .. m] /\ b \in [1 .. Len(pieces) -> 1 .. m]
    /\ \A k \in 1 .. Len(pieces) :
          a[k] <= b[k] /\ Solid(B[a[k]]) /\ Solid(B[b[k]]) /\ pieces[k] = SubSeq(B, a[k], b[k])
    /\ \A j, k \in 1 .. Len(pieces) : j < k => b[j] < a[k]
    /\ \A k \in 1 .. Len(pieces) - 1 : b[k] + 1 = a[k + 1] => Long(pieces[k])
    /\ \A i \in 1 .. m : Solid(B[i]) => \E k \in 1 .. Len(pieces) : a[k] <= i /\ i <= b[k]

LEMMA StripIs ==
    ASSUME NEW B \in Text, NEW i \in Nat \ {0}, NEW j \in 0 .. Len(B)
    PROVE  \/ /\ \A k \in i .. j : ~ Solid(B[k])
              /\ Strip(B, i, j) = <<>>
           \/ \E a, b \in i .. j :
                 /\ a <= b /\ Solid(B[a]) /\ Solid(B[b])
                 /\ \A k \in i .. j : Solid(B[k]) => a <= k /\ k <= b
                 /\ Strip(B, i, j) = SubSeq(B, a, b)
<1> DEFINE S == {k \in i .. j : Solid(B[k])}
<1>1. CASE S = {}
  BY <1>1 DEF Strip
<1>2. CASE S # {}
  <2>1. S \subseteq Nat /\ j \in Nat /\ S \subseteq 0 .. j /\ S \subseteq i .. j
    OBVIOUS
  <2>2. Min(S) \in S /\ \A y \in S : Min(S) <= y
    BY <1>2, <2>1, MinIs
  <2>3. Max(S) \in S /\ \A y \in S : y <= Max(S)
    BY <1>2, <2>1, MaxIs
  <2>4. Strip(B, i, j) = SubSeq(B, Min(S), Max(S))
    BY <1>2 DEF Strip
  <2>5. Min(S) <= Max(S)
    BY <2>2, <2>3
  <2> QED
    BY <2>2, <2>3, <2>4, <2>5
<1> QED
  BY <1>1, <1>2

\* What is cut out of a buffer is a text.
LEMMA PieceIs ==
    ASSUME NEW B \in Text, NEW a \in 1 .. Len(B), NEW b \in 1 .. Len(B), a <= b
    PROVE  /\ SubSeq(B, a, b) \in Text
           /\ Len(SubSeq(B, a, b)) = b - a + 1
           /\ \A i \in 1 .. b - a + 1 : SubSeq(B, a, b)[i] = B[a + i - 1]
           /\ SubSeq(B, a, b) # <<>>
           /\ Head(SubSeq(B, a, b)) = B[a] /\ Last(SubSeq(B, a, b)) = B[b]
           /\ Range(SubSeq(B, a, b)) = {B[i] : i \in a .. b}
<1> DEFINE s == SubSeq(B, a, b)
<1>1. \A i \in a .. b : B[i] \in 0 .. MaxLength
  <2>1. B \in Seq(0 .. MaxLength) /\ Len(B) \in Nat /\ \A i \in a .. b : i \in 1 .. Len(B)
    BY LenProperties DEF Text
  <2> QED
    BY <2>1, ElementOfSeq
<1>2. /\ s \in Text /\ Len(s) = b - a + 1
      /\ \A i \in 1 .. b - a + 1 : s[i] = B[a + i - 1]
  BY <1>1, SubSeqProperties DEF Text
<1> HIDE DEF s
<1>3. DOMAIN s = 1 .. b - a + 1 /\ b - a + 1 \in Nat \ {0}
  BY <1>2 DEF Text
<1>4. s # <<>> /\ Head(s) = B[a] /\ Last(s) = B[b]
  BY <1>2, <1>3 DEF Last, Text
<1>5. Range(s) = {B[i] : i \in a .. b}
  <2>1. ASSUME NEW i \in a .. b PROVE B[i] \in Range(s)
    <3>1. i - a + 1 \in 1 .. b - a + 1 /\ a + (i - a + 1) - 1 = i
      OBVIOUS
    <3> QED
      BY <1>2, <1>3, <3>1 DEF Range
  <2>2. ASSUME NEW i \in 1 .. b - a + 1 PROVE s[i] \in {B[j] : j \in a .. b}
    BY <1>2
  <2> QED
    BY <1>3, <2>1, <2>2 DEF Range
<1> QED
  BY <1>2, <1>4, <1>5 DEF s

LEMMA PieceIsText ==
    ASSUME NEW B \in Text, NEW a \in 1 .. Len(B), NEW b \in 1 .. Len(B), a <= b
    PROVE  SubSeq(B, a, b) \in Text /\ SubSeq(B, a, b) # <<>>
  BY PieceIs

\* Nothing more has to be cut when only spaces follow.
LEMMA CutOn ==
    ASSUME NEW B \in Text, NEW m \in Nat, NEW n \in Nat, m <= n, n <= Len(B),
           NEW pieces, NEW a, NEW b, CutAt(B, pieces, a, b, m), Len(pieces) \in Nat,
           \A i \in m + 1 .. n : ~ Solid(B[i])
    PROVE  CutAt(B, pieces, a, b, n)
<1>1. a \in [1 .. Len(pieces) -> 1 .. n] /\ b \in [1 .. Len(pieces) -> 1 .. n]
  BY DEF CutAt
<1>2. \A i \in 1 .. n : Solid(B[i]) => i \in 1 .. m
  OBVIOUS
<1> QED
  BY <1>1, <1>2 DEF CutAt

\* One more piece is cut.
LEMMA CutMore ==
    ASSUME NEW B \in Text, NEW m \in Nat, NEW n \in Nat, n <= Len(B),
           NEW pieces \in Seq(Text), NEW a, NEW b, CutAt(B, pieces, a, b, m),
           NEW x \in m + 1 .. n, NEW y \in x .. n, Solid(B[x]), Solid(B[y]),
           \A i \in m + 1 .. n : Solid(B[i]) => x <= i /\ i <= y,
           Len(pieces) > 0 /\ b[Len(pieces)] + 1 = x => Long(pieces[Len(pieces)])
    PROVE  LET l == Len(pieces) + 1
           IN  CutAt(B, Append(pieces, SubSeq(B, x, y)),
                     [k \in 1 .. l |-> IF k = l THEN x ELSE a[k]],
                     [k \in 1 .. l |-> IF k = l THEN y ELSE b[k]], n)
<1> DEFINE l == Len(pieces) + 1
           ps == Append(pieces, SubSeq(B, x, y))
           c == [k \in 1 .. l |-> IF k = l THEN x ELSE a[k]]
           d == [k \in 1 .. l |-> IF k = l THEN y ELSE b[k]]
<1>1. Len(pieces) \in Nat /\ l \in Nat /\ m < x /\ x <= y /\ y <= n /\ y \in 1 .. n /\ x \in 1 .. n
  OBVIOUS
<1>2. SubSeq(B, x, y) \in Text
  BY <1>1, PieceIs
<1>3. /\ Len(ps) = l /\ ps[l] = SubSeq(B, x, y)
      /\ \A k \in 1 .. Len(pieces) : ps[k] = pieces[k]
  BY <1>2, AppendProperties
<1>4. \A k \in 1 .. Len(pieces) :
         a[k] \in 1 .. m /\ b[k] \in 1 .. m /\ c[k] = a[k] /\ d[k] = b[k]
  <2>1. a \in [1 .. Len(pieces) -> 1 .. m] /\ b \in [1 .. Len(pieces) -> 1 .. m]
    BY DEF CutAt
  <2>2. ASSUME NEW k \in 1 .. Len(pieces) PROVE c[k] = a[k] /\ d[k] = b[k]
    <3>1. k \in 1 .. l /\ k # l
      BY <1>1
    <3> QED
      BY <3>1
  <2> QED
    BY <2>1, <2>2
<1>5. c[l] = x /\ d[l] = y
  BY <1>1
<1>6. \A k \in 1 .. l : k = l \/ k \in 1 .. Len(pieces)
  BY <1>1
<1>7. c \in [1 .. l -> 1 .. n] /\ d \in [1 .. l -> 1 .. n]
  <2>1. \A k \in 1 .. l : c[k] \in 1 .. n /\ d[k] \in 1 .. n
    <3>1. \A k \in 1 .. Len(pieces) : a[k] \in 1 .. n /\ b[k] \in 1 .. n
      <4>1. \A v \in 1 .. m : v \in 1 .. n
        BY <1>1
      <4> HIDE DEF c, d
      <4> QED
        BY <1>4, <4>1
    <3> QED
      BY <1>1, <1>5, <1>6, <1>4, <3>1
  <2> QED
    BY <2>1
<1> HIDE DEF l, ps, c, d
<1>8. \A k \in 1 .. l :
         c[k] <= d[k] /\ Solid(B[c[k]]) /\ Solid(B[d[k]]) /\ ps[k] = SubSeq(B, c[k], d[k])
  BY <1>1, <1>3, <1>4, <1>5, <1>6 DEF CutAt
<1>9. \A j, k \in 1 .. l : j < k => d[j] < c[k]
  <2> SUFFICES ASSUME NEW j \in 1 .. l, NEW k \in 1 .. l, j < k PROVE d[j] < c[k]
    OBVIOUS
  <2>1. j \in 1 .. Len(pieces)
    BY <1>1, <1>6 DEF l
  <2>2. CASE k = l
    BY <1>1, <1>4, <1>5, <2>1, <2>2
  <2>3. CASE k \in 1 .. Len(pieces)
    BY <1>4, <2>1, <2>3 DEF CutAt
  <2> QED
    BY <1>6, <2>2, <2>3
<1>10. \A k \in 1 .. l - 1 : d[k] + 1 = c[k + 1] => Long(ps[k])
  <2> SUFFICES ASSUME NEW k \in 1 .. Len(pieces), d[k] + 1 = c[k + 1] PROVE Long(pieces[k])
    BY <1>1, <1>3 DEF l
  <2>1. CASE k = Len(pieces)
    BY <1>1, <1>4, <1>5, <2>1 DEF l
  <2>2. CASE k # Len(pieces)
    <3>1. k \in 1 .. Len(pieces) - 1 /\ k + 1 \in 1 .. Len(pieces)
      BY <1>1, <2>2
    <3> QED
      BY <1>4, <3>1 DEF CutAt
  <2> QED
    BY <2>1, <2>2
<1>11. \A i \in 1 .. n : Solid(B[i]) => \E k \in 1 .. l : c[k] <= i /\ i <= d[k]
  <2> SUFFICES ASSUME NEW i \in 1 .. n, Solid(B[i])
               PROVE  \E k \in 1 .. l : c[k] <= i /\ i <= d[k]
    OBVIOUS
  <2>1. CASE i <= m
    <3>1. PICK k \in 1 .. Len(pieces) : a[k] <= i /\ i <= b[k]
      BY <2>1 DEF CutAt
    <3> QED
      BY <1>1, <1>4, <3>1, SMTT(30) DEF l
  <2>2. CASE i > m
    <3>1. x <= i /\ i <= y /\ l \in 1 .. l
      BY <1>1, <2>2 DEF l
    <3> QED
      BY <1>5, <3>1
  <2> QED
    BY <2>1, <2>2
<1>12. CutAt(B, ps, c, d, n)
  BY <1>3, <1>7, <1>8, <1>9, <1>10, <1>11 DEF CutAt
<1> QED
  BY <1>12 DEF l, ps, c, d

LEMMA SentencesCut ==
    ASSUME NEW B, IsBuffer(B)
    PROVE  \E m \in 0 .. Len(B) : \E a, b :
              /\ Sentences(B) \in Seq(Text)
              /\ CutAt(B, Sentences(B), a, b, m)
              /\ \A k \in 1 .. Len(Sentences(B)) : b[k] \in SentenceEnds(B)
              /\ \A e \in SentenceEnds(B) : e <= m
              /\ SentenceEnds(B) = {} => m = 0
              /\ SentenceEnds(B) # {} => m \in SentenceEnds(B)
<1> DEFINE E == SentenceEnds(B)
           ends == InOrder(E)
           K == Len(ends)
           from(k) == IF k = 1 THEN 1 ELSE ends[k - 1] + 1
           ps == Sentences(B)
<1>1. /\ B \in Text /\ Len(B) \in Nat /\ DOMAIN B = 1 .. Len(B)
      /\ E \in SUBSET (1 .. Len(B))
      /\ \A e \in E : Kind(B[e]) = "stop" /\ (e < Len(B) => Kind(B[e + 1]) = "space")
  BY LenProperties DEF IsBuffer, Text, SentenceEnds
<1>2. /\ ends \in Seq(E)
      /\ \A j, k \in 1 .. K : j < k => ends[j] < ends[k]
      /\ \A e \in E : \E k \in 1 .. K : ends[k] = e
      /\ ends = <<>> <=> E = {}
  BY <1>1, InOrderIs
<1>3. ps = [k \in DOMAIN ends |-> Strip(B, from(k), ends[k])]
  BY DEF Sentences
<1> HIDE DEF E, ends, ps, K
<1>4. K \in Nat /\ DOMAIN ends = 1 .. K /\ \A k \in 1 .. K : ends[k] \in E
  BY <1>2, LenProperties, ElementOfSeq DEF K
<1>5. \A k \in 1 .. K : ends[k] \in 1 .. Len(B) /\ Solid(B[ends[k]])
  BY <1>1, <1>4 DEF Solid
<1>6. \A k \in 1 .. K : from(k) \in 1 .. ends[k]
  <2> SUFFICES ASSUME NEW k \in 1 .. K PROVE from(k) \in 1 .. ends[k]
    OBVIOUS
  <2>1. CASE k = 1
    BY <1>5, <2>1
  <2>2. CASE k # 1
    <3>1. k - 1 \in 1 .. K /\ k - 1 < k
      BY <1>4, <2>2
    <3>2. ends[k - 1] \in 1 .. Len(B) /\ ends[k] \in 1 .. Len(B) /\ ends[k - 1] < ends[k]
      BY <1>2, <1>5, <3>1
    <3> QED
      BY <2>2, <3>2
  <2> QED
    BY <2>1, <2>2
<1> HIDE DEF from
<1> DEFINE Begins(k, x) ==
             /\ Solid(B[x]) /\ ps[k] = SubSeq(B, x, ends[k])
             /\ \A i \in from(k) .. ends[k] : Solid(B[i]) => x <= i
<1>7. \A k \in 1 .. K : \E x \in from(k) .. ends[k] : Begins(k, x)
  <2> SUFFICES ASSUME NEW k \in 1 .. K PROVE \E x \in from(k) .. ends[k] : Begins(k, x)
    OBVIOUS
  <2>1. /\ from(k) \in Nat \ {0} /\ ends[k] \in 0 .. Len(B) /\ ends[k] \in from(k) .. ends[k]
        /\ Solid(B[ends[k]]) /\ ps[k] = Strip(B, from(k), ends[k])
    BY <1>3, <1>4, <1>5, <1>6
  <2>2. PICK x, y \in from(k) .. ends[k] :
           /\ x <= y /\ Solid(B[x]) /\ Solid(B[y])
           /\ \A i \in from(k) .. ends[k] : Solid(B[i]) => x <= i /\ i <= y
           /\ Strip(B, from(k), ends[k]) = SubSeq(B, x, y)
    BY <1>1, <2>1, StripIs
  <2>3. y = ends[k]
    BY <2>1, <2>2
  <2>4. Begins(k, x)
    BY <2>1, <2>2, <2>3
  <2> QED
    BY <2>4
<1> DEFINE a == [k \in 1 .. K |-> CHOOSE x \in from(k) .. ends[k] : Begins(k, x)]
           m == IF K = 0 THEN 0 ELSE ends[K]
<1>8. \A k \in 1 .. K : a[k] \in from(k) .. ends[k] /\ Begins(k, a[k])
  <2> HIDE DEF Begins
  <2> QED
    BY <1>7
<1> HIDE DEF a
<1>9. /\ m \in 0 .. Len(B) /\ \A e \in E : e <= m
      /\ E = {} => m = 0
      /\ E # {} => m \in E
      /\ \A k \in 1 .. K : ends[k] \in 1 .. m
  <2>1. CASE K = 0
    <3>1. E = {} /\ m = 0
      BY <1>2, <2>1
    <3> QED
      BY <1>1, <2>1, <3>1
  <2>2. CASE K # 0
    <3>1. K \in 1 .. K /\ m = ends[K] /\ m \in E /\ m \in 1 .. Len(B)
      <4>1. K \in 1 .. K /\ m = ends[K]
        BY <1>4, <2>2
      <4> QED
        BY <1>4, <1>5, <4>1
    <3>2. \A k \in 1 .. K : ends[k] <= m
      <4>1. ASSUME NEW k \in 1 .. K, k # K PROVE ends[k] <= m
        <5>1. k < K
          BY <1>4, <4>1
        <5>2. ends[k] < ends[K] /\ ends[k] \in Nat /\ ends[K] \in Nat
          BY <1>2, <1>5, <3>1, <5>1
        <5> QED
          BY <3>1, <5>2
      <4> QED
        BY <1>5, <3>1, <4>1
    <3>3. \A e \in E : e <= m
      BY <1>2, <3>2
    <3> QED
      BY <1>5, <3>1, <3>2, <3>3
  <2> QED
    BY <2>1, <2>2
<1>10. ps \in Seq(Text) /\ Len(ps) = K
  <2>1. \A k \in 1 .. K : ps[k] \in Text
    <3> SUFFICES ASSUME NEW k \in 1 .. K PROVE ps[k] \in Text
      OBVIOUS
    <3>1. a[k] \in 1 .. Len(B) /\ ends[k] \in 1 .. Len(B) /\ a[k] <= ends[k]
      BY <1>5, <1>6, <1>8
    <3>2. ps[k] = SubSeq(B, a[k], ends[k])
      BY <1>8
    <3> QED
      BY <1>1, <3>1, <3>2, PieceIs
  <2>2. ps \in [1 .. K -> Text]
    BY <1>3, <1>4, <2>1
  <2> QED
    BY <1>4, <2>2
<1> HIDE DEF m
<1>11. CutAt(B, ps, a, ends, m)
  <2>1. a \in [1 .. K -> 1 .. m] /\ ends \in [1 .. K -> 1 .. m]
    <3>1. \A k \in 1 .. K : a[k] \in 1 .. m
      BY <1>5, <1>6, <1>8, <1>9
    <3>2. DOMAIN a = 1 .. K /\ a = [k \in DOMAIN a |-> a[k]]
      <4> HIDE DEF Begins
      <4> QED
        BY DEF a
    <3>3. ends = [k \in 1 .. K |-> ends[k]]
      BY <1>2, <1>4, LenProperties DEF K
    <3> QED
      BY <1>9, <3>1, <3>2, <3>3
  <2>2. \A k \in 1 .. K :
           a[k] <= ends[k] /\ Solid(B[a[k]]) /\ Solid(B[ends[k]]) /\ ps[k] = SubSeq(B, a[k], ends[k])
    BY <1>5, <1>6, <1>8
  <2>3. \A j, k \in 1 .. K : j < k => ends[j] < a[k]
    <3> SUFFICES ASSUME NEW j \in 1 .. K, NEW k \in 1 .. K, j < k PROVE ends[j] < a[k]
      OBVIOUS
    <3>1. k - 1 \in 1 .. K /\ k # 1 /\ (j = k - 1 \/ j < k - 1)
      BY <1>4
    <3>2. ends[j] <= ends[k - 1] /\ ends[j] \in Nat /\ ends[k - 1] \in Nat
      <4>1. ends[j] \in Nat /\ ends[k - 1] \in Nat
        BY <1>5, <3>1
      <4>2. j < k - 1 => ends[j] < ends[k - 1]
        BY <1>2, <3>1
      <4> QED
        BY <3>1, <4>1, <4>2
    <3>3. from(k) = ends[k - 1] + 1 /\ a[k] >= from(k) /\ a[k] \in Nat
      BY <1>5, <1>6, <1>8, <3>1 DEF from
    <3> QED
      BY <3>2, <3>3
  <2>4. \A k \in 1 .. K - 1 : ends[k] + 1 = a[k + 1] => Long(ps[k])
    <3> SUFFICES ASSUME NEW k \in 1 .. K - 1, ends[k] + 1 = a[k + 1] PROVE FALSE
      OBVIOUS
    <3>1. k \in 1 .. K /\ k + 1 \in 1 .. K
      BY <1>4
    <3>2. Solid(B[a[k + 1]]) /\ a[k + 1] <= ends[k + 1] /\ ends[k + 1] <= Len(B)
      BY <1>5, <1>6, <1>8, <3>1
    <3>3. ends[k] < Len(B)
      BY <1>5, <3>1, <3>2
    <3>4. Kind(B[ends[k] + 1]) = "space"
      BY <1>1, <1>4, <3>1, <3>3
    <3> QED
      BY <3>2, <3>4 DEF Solid
  <2>5. ASSUME NEW i \in 1 .. m, Solid(B[i])
        PROVE  \E k \in 1 .. K : a[k] <= i /\ i <= ends[k]
    <3> DEFINE T == {k \in 1 .. K : i <= ends[k]}
    <3>1. T # {}
      <4>1. E # {}
        BY <1>9
      <4>2. m \in E
        BY <1>9, <4>1
      <4>3. PICK k \in 1 .. K : ends[k] = m
        BY <1>2, <4>2
      <4>4. k \in T
        BY <4>3
      <4> QED
        BY <4>4
    <3>2. PICK k \in T : \A j \in T : k <= j
      <4>1. T \subseteq Nat
        OBVIOUS
      <4> HIDE DEF T
      <4> QED
        BY <3>1, <4>1, NatLeast
    <3>3. from(k) <= i
      <4>1. CASE k = 1
        BY <4>1 DEF from
      <4>2. CASE k # 1
        <5>1. k - 1 \in 1 .. K /\ ~ (k <= k - 1)
          BY <1>4, <4>2
        <5>2. ~ (i <= ends[k - 1]) /\ ends[k - 1] \in Nat
          BY <1>5, <3>2, <5>1
        <5> QED
          BY <4>2, <5>2 DEF from
      <4> QED
        BY <4>1, <4>2
    <3>4. i \in from(k) .. ends[k]
      BY <1>5, <1>6, <3>2, <3>3
    <3> QED
      <4>1. k \in 1 .. K /\ i <= ends[k] /\ a[k] <= i
        BY <1>8, <2>5, <3>2, <3>4
      <4> QED
        BY <4>1
  <2> QED
    BY <1>10, <2>1, <2>2, <2>3, <2>4, <2>5 DEF CutAt
<1> QED
  BY <1>4, <1>9, <1>10, <1>11 DEF E, ps, K

\* The next piece need not begin behind a space.
Closed(piece) == Kind(Last(piece)) = "stop" \/ Long(piece)

\* The pieces a buffer is cut into: the chunks, and what is pending if anything is.
PiecesOf(chunks, pending) == IF pending = <<>> THEN chunks ELSE Append(chunks, pending)

IsCutUp(B, chunks, pending, force) ==
    /\ \E a, b : CutAt(B, PiecesOf(chunks, pending), a, b, Len(B))
    /\ force => pending = <<>>
    /\ pending = <<>> /\ ~ force /\ chunks # <<>> => Closed(Last(chunks))

LEMMA ChunksCut ==
    ASSUME NEW B, IsBuffer(B), NEW force \in BOOLEAN
    PROVE  \E chunks \in Seq(Text), pending \in Text :
              /\ SentenceChunks(B, force) = [chunks |-> chunks, pending |-> pending]
              /\ IsCutUp(B, chunks, pending, force)
<1> DEFINE n == Len(B)
           E == SentenceEnds(B)
           ps == Sentences(B)
           solid == {i \in DOMAIN B : Solid(B[i]) /\ \A e \in SentenceEnds(B) : e < i}
           first == Min(solid)
           r == SentenceChunks(B, force)
<1> SUFFICES \E chunks \in Seq(Text), pending \in Text :
                r = [chunks |-> chunks, pending |-> pending] /\ IsCutUp(B, chunks, pending, force)
  OBVIOUS
<1>1. /\ B \in Text /\ n \in Nat /\ DOMAIN B = 1 .. n
      /\ \A e \in E : e \in 1 .. n /\ Kind(B[e]) = "stop" /\ (e < n => Kind(B[e + 1]) = "space")
      /\ \A i \in 1 .. n : Kind(B[i]) \in {"letter", "stop", "space"}
  BY LenProperties DEF IsBuffer, Text, SentenceEnds
<1>2. PICK m \in 0 .. n : \E a, b :
         /\ ps \in Seq(Text)
         /\ CutAt(B, ps, a, b, m)
         /\ \A k \in 1 .. Len(ps) : b[k] \in E
         /\ \A e \in E : e <= m
         /\ E = {} => m = 0
         /\ E # {} => m \in E
  BY SentencesCut
<1>3. PICK a, b :
         /\ ps \in Seq(Text)
         /\ CutAt(B, ps, a, b, m)
         /\ \A k \in 1 .. Len(ps) : b[k] \in E
         /\ \A e \in E : e <= m
         /\ E = {} => m = 0
         /\ E # {} => m \in E
  BY <1>2
<1>4. Len(ps) \in Nat /\ (ps = <<>> <=> Len(ps) = 0)
  BY <1>3, LenProperties, EmptySeq
<1>5. r = CASE solid = {} -> [chunks |-> ps, pending |-> <<>>]
            [] solid # {} /\ force ->
                 [chunks |-> Append(ps, Strip(B, first, n)), pending |-> <<>>]
            [] solid # {} /\ ~ force /\ Max(solid) - first + 1 >= ChunkLimit ->
                 [chunks |-> Append(ps, Strip(B, first, Cut(B, first))),
                  pending |-> Strip(B, Cut(B, first) + 1, n)]
            [] OTHER -> [chunks |-> ps, pending |-> Strip(B, first, n)]
  BY DEF SentenceChunks
<1>6. \A i \in 1 .. n : i \in solid <=> Solid(B[i]) /\ i > m
  <2>1. \A e \in E : e \in Nat /\ e <= m
    BY <1>1, <1>3
  <2>2. E = {} \/ m \in E
    BY <1>3
  <2> QED
    BY <1>1, <1>3, <2>1, <2>2
<1>7. solid \subseteq 1 .. n
  BY <1>1
<1> HIDE DEF n, E, ps, solid, first, r
<1>8. ps # <<>> => Closed(Last(ps))
  <2> SUFFICES ASSUME ps # <<>> PROVE Closed(Last(ps))
    OBVIOUS
  <2>1. Len(ps) \in 1 .. Len(ps)
    BY <1>4
  <2> DEFINE k == Len(ps)
  <2>2. /\ b[k] \in E /\ a[k] \in 1 .. m /\ b[k] \in 1 .. m /\ a[k] <= b[k]
        /\ ps[k] = SubSeq(B, a[k], b[k])
    BY <1>3, <2>1 DEF CutAt
  <2>3. Last(ps[k]) = B[b[k]]
    BY <1>1, <1>3, <2>2, PieceIs DEF n
  <2>4. Kind(Last(ps[k])) = "stop"
    BY <1>1, <2>2, <2>3
  <2> QED
    BY <2>4 DEF Closed, Last
<1>9. ASSUME NEW x \in 1 .. n, Solid(B[x])
      PROVE  Len(ps) > 0 /\ b[Len(ps)] + 1 = x => Long(ps[Len(ps)])
  <2> SUFFICES ASSUME Len(ps) > 0, b[Len(ps)] + 1 = x PROVE FALSE
    OBVIOUS
  <2>1. b[Len(ps)] \in E
    BY <1>3, <1>4
  <2>2. Kind(B[x]) = "space"
    <3>1. b[Len(ps)] \in 1 .. n /\ b[Len(ps)] < n
      BY <1>1, <2>1
    <3> QED
      BY <1>1, <2>1, <3>1
  <2> QED
    BY <1>9, <2>2 DEF Solid
<1>10. CASE solid = {}
  <2>1. r = [chunks |-> ps, pending |-> <<>>]
    BY <1>5, <1>10
  <2>2. \A i \in m + 1 .. n : ~ Solid(B[i])
    BY <1>3, <1>6, <1>10
  <2>3. CutAt(B, ps, a, b, n)
    BY <1>1, <1>3, <1>4, <2>2, CutOn DEF n
  <2>4. <<>> \in Text
    BY EmptySeq DEF Text
  <2>5. IsCutUp(B, ps, <<>>, force)
    BY <1>8, <2>3 DEF IsCutUp, PiecesOf, n
  <2> QED
    BY <1>3, <2>1, <2>4, <2>5
<1>11. CASE solid # {}
  <2>1. /\ first \in solid /\ (\A y \in solid : first <= y)
        /\ Max(solid) \in solid /\ (\A y \in solid : y <= Max(solid))
    <3>1. solid \subseteq Nat /\ solid \subseteq 0 .. n
      BY <1>7
    <3>2. first \in solid /\ \A y \in solid : first <= y
      BY <1>11, <3>1, MinIs DEF first
    <3>3. Max(solid) \in solid /\ \A y \in solid : y <= Max(solid)
      BY <1>1, <1>11, <3>1, MaxIs
    <3> QED
      BY <3>2, <3>3
  <2> DEFINE last == Max(solid)
  <2>2. /\ first \in 1 .. n /\ first > m /\ Solid(B[first])
        /\ last \in 1 .. n /\ last > m /\ Solid(B[last]) /\ first <= last
    BY <1>6, <1>7, <2>1
  <2>3. \A i \in m + 1 .. n : Solid(B[i]) => first <= i /\ i <= last
    BY <1>3, <1>6, <2>1
  <2> HIDE DEF last
  <2>4. ASSUME NEW y \in first .. n, Solid(B[y])
        PROVE  \E c, d : /\ CutAt(B, Append(ps, SubSeq(B, first, y)), c, d, y)
                         /\ d[Len(ps) + 1] = y
    <3>1. \A i \in m + 1 .. y : Solid(B[i]) => first <= i /\ i <= y
      <4>1. \A i \in m + 1 .. y : i \in m + 1 .. n
        BY <1>1, <2>2
      <4> QED
        BY <2>3, <4>1
    <3>2. y \in Nat /\ y <= Len(B) /\ first \in m + 1 .. y /\ y \in first .. y /\ m \in Nat
      BY <1>1, <1>3, <2>2, <2>4 DEF n
    <3>3. Len(ps) > 0 /\ b[Len(ps)] + 1 = first => Long(ps[Len(ps)])
      BY <1>9, <2>2
    <3> DEFINE l == Len(ps) + 1
               c == [k \in 1 .. l |-> IF k = l THEN first ELSE a[k]]
               d == [k \in 1 .. l |-> IF k = l THEN y ELSE b[k]]
    <3>4. CutAt(B, Append(ps, SubSeq(B, first, y)), c, d, y)
      BY <1>1, <1>3, <2>2, <2>4, <3>1, <3>2, <3>3, CutMore
    <3>5. d[Len(ps) + 1] = y
      BY <1>4
    <3> QED
      BY <3>4, <3>5
  <2>5. SubSeq(B, first, last) \in Text /\ SubSeq(B, first, last) # <<>>
    <3>1. B \in Text /\ first \in 1 .. Len(B) /\ last \in 1 .. Len(B) /\ first <= last
      BY <1>1, <2>2 DEF n
    <3> QED
      BY ONLY <3>1, PieceIsText
  <2>6. \E c, d : CutAt(B, Append(ps, SubSeq(B, first, last)), c, d, n)
    <3>1. PICK c, d : CutAt(B, Append(ps, SubSeq(B, first, last)), c, d, last)
      BY <2>2, <2>4
    <3>2. \A i \in last + 1 .. n : ~ Solid(B[i])
      BY <1>3, <2>2, <2>3
    <3>3. Len(Append(ps, SubSeq(B, first, last))) \in Nat
      BY <1>3, <2>5, AppendProperties, LenProperties
    <3> QED
      BY <1>1, <2>2, <3>1, <3>2, <3>3, CutOn DEF n
  <2>7. Strip(B, first, n) = SubSeq(B, first, last)
    <3>1. PICK x, y \in first .. n :
             /\ x <= y /\ Solid(B[x]) /\ Solid(B[y])
             /\ \A k \in first .. n : Solid(B[k]) => x <= k /\ k <= y
             /\ Strip(B, first, n) = SubSeq(B, x, y)
      <4>1. first \in Nat \ {0} /\ n \in 0 .. Len(B) /\ first \in first .. n
        BY <1>1, <2>2 DEF n
      <4> QED
        BY <1>1, <2>2, <4>1, StripIs
    <3>2. x = first /\ y = last
      BY <1>3, <2>2, <2>3, <3>1
    <3> QED
      BY <3>1, <3>2
  <2>8. CASE force
    <3>1. r = [chunks |-> Append(ps, SubSeq(B, first, last)), pending |-> <<>>]
      BY <1>5, <1>11, <2>7, <2>8
    <3>2. Append(ps, SubSeq(B, first, last)) \in Seq(Text) /\ <<>> \in Text
      BY <1>3, <2>5, AppendProperties, EmptySeq DEF Text
    <3>3. IsCutUp(B, Append(ps, SubSeq(B, first, last)), <<>>, force)
      BY <2>6, <2>8 DEF IsCutUp, PiecesOf, n
    <3> QED
      BY <3>1, <3>2, <3>3
  <2>9. CASE ~ force /\ ~ (last - first + 1 >= ChunkLimit)
    <3>1. r = [chunks |-> ps, pending |-> SubSeq(B, first, last)]
      BY <1>5, <1>11, <2>7, <2>9 DEF last
    <3>2. IsCutUp(B, ps, SubSeq(B, first, last), force)
      BY <2>5, <2>6, <2>9 DEF IsCutUp, PiecesOf, n
    <3> QED
      BY <1>3, <2>5, <3>1, <3>2
  <2>10. CASE ~ force /\ last - first + 1 >= ChunkLimit
    <3> DEFINE c == Cut(B, first)
               spaces == {i \in first + MinSplit .. first + ChunkLimit - 1 : Kind(B[i]) = "space"}
    <3>0. /\ ChunkLimit \in Nat /\ MinSplit \in Nat /\ MinSplit < ChunkLimit
          /\ c = IF spaces = {} THEN first + ChunkLimit - 1 ELSE Max(spaces) - 1
      BY StreamAssumption DEF Cut
    <3>1. r = [chunks |-> Append(ps, Strip(B, first, c)), pending |-> Strip(B, c + 1, n)]
      BY <1>5, <1>11, <2>10 DEF last
    <3> HIDE DEF c
    <3>2. CASE spaces # {}
      <4>1. Max(spaces) \in spaces
        <5>1. spaces \subseteq 0 .. first + ChunkLimit - 1 /\ first + ChunkLimit - 1 \in Nat
          BY <2>2, <3>0
        <5> QED
          BY <3>2, <5>1, MaxIs
      <4>2. /\ c + 1 \in first .. last /\ Kind(B[c + 1]) = "space" /\ c \in Int
        BY <2>2, <2>10, <3>0, <3>2, <4>1
      <4>3. ~ Solid(B[c + 1])
        BY <4>2 DEF Solid
      <4>4. c \in first .. n /\ c + 1 # last
        <5>1. c + 1 # last
          BY <2>2, <4>3
        <5>2. c + 1 # first
          BY <2>2, <4>3
        <5> QED
          BY <1>1, <2>2, <4>2, <5>1, <5>2
      <4>5. PICK y \in first .. c : Solid(B[y]) /\ Strip(B, first, c) = SubSeq(B, first, y)
                                    /\ \A i \in y + 1 .. c : ~ Solid(B[i])
        <5>1. PICK x, y \in first .. c :
                 /\ x <= y /\ Solid(B[x]) /\ Solid(B[y])
                 /\ \A k \in first .. c : Solid(B[k]) => x <= k /\ k <= y
                 /\ Strip(B, first, c) = SubSeq(B, x, y)
          <6>1. first \in Nat \ {0} /\ c \in 0 .. Len(B) /\ first \in first .. c
            BY <1>1, <2>2, <4>4 DEF n
          <6> QED
            BY <1>1, <2>2, <6>1, StripIs
        <5>2. x = first
          BY <2>2, <4>4, <5>1
        <5>3. \A i \in y + 1 .. c : ~ Solid(B[i])
          BY <2>2, <4>4, <5>1
        <5> QED
          BY <5>1, <5>2, <5>3
      <4>6. PICK z, w \in c + 1 .. n :
               /\ z <= w /\ Solid(B[z]) /\ Solid(B[w])
               /\ \A k \in c + 1 .. n : Solid(B[k]) => z <= k /\ k <= w
               /\ Strip(B, c + 1, n) = SubSeq(B, z, w)
        <5>1. c + 1 \in Nat \ {0} /\ n \in 0 .. Len(B) /\ last \in c + 1 .. n
          BY <1>1, <2>2, <4>2 DEF n
        <5> QED
          BY <1>1, <2>2, <5>1, StripIs
      <4>7. z # c + 1
        BY <4>3, <4>6
      <4> DEFINE one == Append(ps, SubSeq(B, first, y))
      <4>8. y \in first .. n /\ y \in Nat /\ y <= c /\ y < z /\ y + 1 # z /\ z \in y + 1 .. n
            /\ w \in z .. n /\ y <= n /\ z \in 1 .. n /\ w \in 1 .. n
        BY <1>1, <2>2, <4>2, <4>4, <4>5, <4>6, <4>7
      <4>9. PICK d, e : CutAt(B, one, d, e, y) /\ e[Len(ps) + 1] = y
        BY <2>4, <4>5, <4>8
      <4>10. SubSeq(B, first, y) \in Text /\ SubSeq(B, z, w) \in Text /\ SubSeq(B, z, w) # <<>>
        <5>1. first \in 1 .. Len(B) /\ y \in 1 .. Len(B) /\ first <= y
              /\ z \in 1 .. Len(B) /\ w \in 1 .. Len(B) /\ z <= w
          BY <1>1, <2>2, <4>6, <4>8 DEF n
        <5> QED
          BY ONLY <1>1, <5>1, PieceIsText
      <4>11. one \in Seq(Text) /\ Len(one) = Len(ps) + 1
        BY <1>3, <4>10, AppendProperties
      <4>12. \A i \in y + 1 .. n : Solid(B[i]) => z <= i /\ i <= w
        BY <1>1, <4>2, <4>5, <4>6, <4>8
      <4> HIDE DEF one
      <4>13. \E f, g : CutAt(B, Append(one, SubSeq(B, z, w)), f, g, n)
        <5>1. ~ (e[Len(one)] + 1 = z)
          BY <4>8, <4>9, <4>11
        <5>2. y \in Nat /\ n \in Nat /\ n <= Len(B)
          BY <1>1, <4>8 DEF n
        <5>3. Len(one) > 0 /\ e[Len(one)] + 1 = z => Long(one[Len(one)])
          BY <5>1
        <5> QED
          BY <1>1, <4>6, <4>8, <4>9, <4>11, <4>12, <5>2, <5>3, CutMore
      <4>14. r = [chunks |-> one, pending |-> SubSeq(B, z, w)]
        BY <3>1, <4>5, <4>6 DEF one
      <4>15. IsCutUp(B, one, SubSeq(B, z, w), force)
        BY <2>10, <4>10, <4>13 DEF IsCutUp, PiecesOf, n
      <4> QED
        BY <4>10, <4>11, <4>14, <4>15
    <3>3. CASE spaces = {}
      <4>1. c = first + ChunkLimit - 1 /\ c \in first .. last /\ c \in first .. n
        <5>1. c = first + ChunkLimit - 1
          BY <3>0, <3>3
        <5>2. ChunkLimit \in Nat \ {0}
          BY <3>0
        <5> QED
          BY <1>1, <2>2, <2>10, <5>1, <5>2
      <4>2. \A i \in first + MinSplit .. c : Kind(B[i]) # "space"
        BY <3>3, <4>1
      <4>3. Solid(B[c])
        <5>1. c \in first + MinSplit .. c /\ c \in 1 .. n
          BY <2>2, <3>0, <4>1
        <5> QED
          BY <1>1, <4>2, <5>1 DEF Solid
      <4> DEFINE chunk == SubSeq(B, first, c)
      <4>4. Strip(B, first, c) = chunk
        <5>1. PICK x, y \in first .. c :
                 /\ x <= y /\ Solid(B[x]) /\ Solid(B[y])
                 /\ \A k \in first .. c : Solid(B[k]) => x <= k /\ k <= y
                 /\ Strip(B, first, c) = SubSeq(B, x, y)
          <6>1. first \in Nat \ {0} /\ c \in 0 .. Len(B) /\ first \in first .. c
            BY <1>1, <2>2, <4>1 DEF n
          <6> QED
            BY <1>1, <2>2, <6>1, StripIs
        <5>2. x = first /\ y = c
          BY <2>2, <4>1, <4>3, <5>1
        <5> QED
          BY <5>1, <5>2
      <4>5. /\ chunk \in Text /\ Len(chunk) = ChunkLimit
            /\ \A i \in 1 .. ChunkLimit : chunk[i] = B[first + i - 1]
        <5>1. c - first + 1 = ChunkLimit /\ c \in 1 .. n /\ first <= c
          BY <2>2, <3>0, <4>1
        <5> QED
          BY <1>1, <2>2, <5>1, PieceIs DEF n
      <4>6. Long(chunk)
        <5>1. ASSUME NEW i \in MinSplit + 1 .. ChunkLimit PROVE Kind(chunk[i]) # "space"
          <6>1. i \in 1 .. ChunkLimit /\ first + i - 1 \in first + MinSplit .. c
            BY <2>2, <3>0, <4>1
          <6> QED
            BY <4>2, <4>5, <6>1
        <5> QED
          BY <4>5, <5>1 DEF Long
      <4> DEFINE one == Append(ps, chunk)
      <4>7. PICK d, e : CutAt(B, one, d, e, c) /\ e[Len(ps) + 1] = c
        BY <2>4, <4>1, <4>3
      <4> HIDE DEF chunk
      <4>8. one \in Seq(Text) /\ Len(one) = Len(ps) + 1 /\ one[Len(ps) + 1] = chunk /\ one # <<>>
        BY <1>3, <1>4, <4>5, AppendProperties
      <4> HIDE DEF one
      <4>9. c + 1 \in Nat \ {0} /\ n \in 0 .. Len(B) /\ c \in Nat /\ n \in Nat /\ c <= n /\ n <= Len(B)
        BY <1>1, <2>2, <4>1 DEF n
      <4>10. CASE \A k \in c + 1 .. n : ~ Solid(B[k])
        <5>1. Strip(B, c + 1, n) = <<>>
          BY <1>1, <4>9, <4>10, StripIs
        <5>2. r = [chunks |-> one, pending |-> <<>>] /\ <<>> \in Text
          BY <3>1, <4>4, <5>1, EmptySeq DEF one, Text
        <5>4. CutAt(B, one, d, e, n)
          <6>1. Len(one) \in Nat
            BY <1>4, <4>8
          <6> QED
            BY <1>1, <4>7, <4>9, <4>10, <6>1, CutOn
        <5>5. Closed(Last(one))
          BY <4>6, <4>8 DEF Closed, Last
        <5> QED
          <6>1. IsCutUp(B, one, <<>>, force)
            BY <2>10, <5>4, <5>5 DEF IsCutUp, PiecesOf, n
          <6> QED
            BY <4>8, <5>2, <6>1
      <4>11. CASE ~ \A k \in c + 1 .. n : ~ Solid(B[k])
        <5>1. PICK z, w \in c + 1 .. n :
                 /\ z <= w /\ Solid(B[z]) /\ Solid(B[w])
                 /\ \A k \in c + 1 .. n : Solid(B[k]) => z <= k /\ k <= w
                 /\ Strip(B, c + 1, n) = SubSeq(B, z, w)
          BY <1>1, <4>9, <4>11, StripIs
        <5>2. w \in z .. n /\ z \in 1 .. n /\ w \in 1 .. n
          BY <4>9, <5>1
        <5>3. SubSeq(B, z, w) \in Text /\ SubSeq(B, z, w) # <<>>
          <6>1. z \in 1 .. Len(B) /\ w \in 1 .. Len(B) /\ z <= w
            BY <5>1, <5>2 DEF n
          <6> QED
            BY ONLY <1>1, <6>1, PieceIsText
        <5>4. \E f, g : CutAt(B, Append(one, SubSeq(B, z, w)), f, g, n)
          <6>1. Long(one[Len(one)])
            BY <4>6, <4>8
          <6> QED
            BY <1>1, <4>7, <4>8, <4>9, <5>1, <5>2, <6>1, CutMore
        <5>5. r = [chunks |-> one, pending |-> SubSeq(B, z, w)]
          BY <3>1, <4>4, <5>1 DEF one
        <5>6. IsCutUp(B, one, SubSeq(B, z, w), force)
          BY <2>10, <5>3, <5>4 DEF IsCutUp, PiecesOf, n
        <5> QED
          BY <4>8, <5>3, <5>5, <5>6
      <4> QED
        BY <4>10, <4>11
    <3> QED
      BY <3>2, <3>3
  <2> QED
    BY <2>8, <2>9, <2>10
<1> QED
  BY <1>10, <1>11
----------------------------------------------------------------------------
(* The invariant                                                              *)

Before(text, next) == \A p \in Range(text), q \in Range(next) : p < q

\* Between characters that follow each other there was a space that a token ended
\* with, or a newline, if anything.
Follows(p, q) == q = p + 1 \/ q - 1 \in cuts \/ Kind(q - 1) = "newline"
Connected(text) == \A i \in 1 .. Len(text) - 1 : Follows(text[i], text[i + 1])

Joined(piece, next) ==
    Head(next) = Last(piece) + 1 =>
        \/ Kind(Last(piece)) = "stop" /\ Last(piece) \in cuts
        \/ Long(piece)

IsPiece(text) ==
    text # <<>> /\ IsBuffer(text) /\ Connected(text) /\ Solid(Head(text)) /\ Solid(Last(text))

\* Pieces one after the other.
InLine(pieces) ==
    /\ \A k \in 1 .. Len(pieces) : IsPiece(pieces[k])
    /\ \A j, k \in 1 .. Len(pieces) : j < k => Before(pieces[j], pieces[k])
    /\ \A k \in 1 .. Len(pieces) - 1 : Joined(pieces[k], pieces[k + 1])

\* They are all of the text but spaces, and nothing else.
Cover(pieces, text) ==
    /\ \A k \in 1 .. Len(pieces) : Range(pieces[k]) \subseteq Range(text)
    /\ \A p \in Range(text) : Solid(p) => \E k \in 1 .. Len(pieces) : p \in Range(pieces[k])

\* The chunks, and with what is pending the pieces that are not empty.
Chunks == said \o Queued \o rest.chunks
Line == PiecesOf(Chunks, rest.pending)

LineIsReply ==
    /\ InLine(Line)
    /\ IsBuffer(received) /\ Cover(Line, received)
    /\ agent = "reading" /\ rest.pending = <<>> /\ Chunks # <<>> => Closed(Last(Chunks))

\* A token of rag-service: it begins where the last one ended or behind a newline.
IsToken(text) ==
    /\ text # <<>> /\ IsBuffer(text) /\ Connected(text)
    /\ (Head(text) \in {0, 1} \/ Head(text) - 1 \in cuts \/ Kind(Head(text) - 1) = "newline")
    /\ (text = Sorry \/ Range(text) \subseteq 1 .. produced)

Tokens == {i \in 1 .. Len(wire) : wire[i].kind = "token"}

\* What the agent has still to read comes after what it has read; the sorry of
\* rag-service comes alone.
WireIsNext ==
    /\ produced = 0 \/ produced \in cuts
    /\ agent = "reading" =>
          /\ \A p \in Range(received) : p <= produced
          /\ \A i \in Tokens : IsToken(wire[i].text) /\ Before(received, wire[i].text)
          /\ \A i, j \in Tokens : i < j => Before(wire[i].text, wire[j].text)
          /\ service = "streaming" /\ ~ emitted => received = <<>> /\ Tokens = {}
          /\ \A i \in Tokens : wire[i].text = Sorry => service = "over" /\ Tokens = {i}
          /\ 0 \in Range(received) => service = "over" /\ Tokens = {}

\* How far agent and speaker are.
Stages ==
    /\ agent # "reading" => rest.pending = <<>>
    /\ agent \in {"joining", "fallback", "ended"} => rest.chunks = <<>>
    /\ agent \in {"fallback", "ended"} => speaker = "ended"
    /\ speaker = "ended" => queue = <<>> /\ agent \in {"joining", "fallback", "ended"}
    /\ \A i \in 1 .. Len(queue) : queue[i] = None => i = Len(queue) /\ agent = "joining"

\* TypeOK but for what the chunks begin and end with, which LineIsReply says.
Typed ==
    /\ reply \in Seq(Kinds) /\ Len(reply) <= MaxLength
    /\ produced \in 0 .. Len(reply) /\ cuts \subseteq 1 .. produced
    /\ service \in {"streaming", "over"} /\ emitted \in BOOLEAN
    /\ wire \in Seq([kind : {"token", "done", "error", "closed"}, text : Text])
    /\ agent \in {"reading", "flushing", "joining", "fallback", "ended"}
    /\ received \in Text
    /\ rest \in [chunks : Seq(Text), pending : Text]
    /\ queue \in Seq(Text) /\ Len(queue) <= QueueSize
    /\ speaker \in {"waiting", "speaking", "ended"}
    /\ said \in Seq(Text)

\* The inductive invariant.
IInv == Typed /\ Stages /\ WireIsNext /\ LineIsReply

----------------------------------------------------------------------------
(* Pieces in line                                                             *)

LEMMA CutInLine ==
    ASSUME NEW B, IsBuffer(B), Connected(B),
           NEW ps \in Seq(Text), NEW a, NEW b, CutAt(B, ps, a, b, Len(B))
    PROVE  /\ InLine(ps) /\ Cover(ps, B)
           /\ B # <<>> /\ Solid(Head(B)) => ps # <<>> /\ Head(ps[1]) = Head(B)
<1> DEFINE n == Len(B)
           l == Len(ps)
<1>1. /\ B \in Text /\ n \in Nat /\ DOMAIN B = 1 .. n /\ l \in Nat
      /\ \A i, j \in 1 .. n : i < j => B[i] < B[j]
      /\ \A i \in 1 .. n : B[i] \in Nat /\ Kind(B[i]) \in {"letter", "stop", "space"}
  <2>1. B \in Text /\ n \in Nat /\ DOMAIN B = 1 .. n /\ l \in Nat
    BY LenProperties DEF IsBuffer, Text
  <2>2. \A i \in 1 .. n : B[i] \in 0 .. MaxLength
    BY <2>1, ElementOfSeq DEF Text
  <2>3. MaxLength \in Nat
    BY StreamAssumption
  <2> QED
    BY <2>1, <2>2, <2>3 DEF IsBuffer, Ascending
<1>2. /\ \A k \in 1 .. l :
            /\ a[k] \in 1 .. n /\ b[k] \in 1 .. n /\ a[k] <= b[k]
            /\ Solid(B[a[k]]) /\ Solid(B[b[k]]) /\ ps[k] = SubSeq(B, a[k], b[k])
      /\ \A j, k \in 1 .. l : j < k => b[j] < a[k]
      /\ \A k \in 1 .. l - 1 : b[k] + 1 = a[k + 1] => Long(ps[k])
      /\ \A i \in 1 .. n : Solid(B[i]) => \E k \in 1 .. l : a[k] <= i /\ i <= b[k]
  BY DEF CutAt
<1>3. \A k \in 1 .. l :
         /\ ps[k] \in Text /\ Len(ps[k]) = b[k] - a[k] + 1
         /\ \A i \in 1 .. b[k] - a[k] + 1 : ps[k][i] = B[a[k] + i - 1]
         /\ ps[k] # <<>> /\ Head(ps[k]) = B[a[k]] /\ Last(ps[k]) = B[b[k]]
         /\ Range(ps[k]) = {B[i] : i \in a[k] .. b[k]}
  <2> SUFFICES ASSUME NEW k \in 1 .. l
               PROVE  /\ ps[k] \in Text /\ Len(ps[k]) = b[k] - a[k] + 1
                      /\ \A i \in 1 .. b[k] - a[k] + 1 : ps[k][i] = B[a[k] + i - 1]
                      /\ ps[k] # <<>> /\ Head(ps[k]) = B[a[k]] /\ Last(ps[k]) = B[b[k]]
                      /\ Range(ps[k]) = {B[i] : i \in a[k] .. b[k]}
    OBVIOUS
  <2>1. B \in Text /\ a[k] \in 1 .. Len(B) /\ b[k] \in 1 .. Len(B) /\ a[k] <= b[k]
    BY <1>1, <1>2
  <2>2. ps[k] = SubSeq(B, a[k], b[k])
    BY <1>2
  <2> DEFINE x == a[k]
             y == b[k]
  <2> HIDE DEF x, y
  <2>3. B \in Text /\ x \in 1 .. Len(B) /\ y \in 1 .. Len(B) /\ x <= y
    BY ONLY <2>1 DEF x, y
  <2>4. /\ SubSeq(B, x, y) \in Text /\ Len(SubSeq(B, x, y)) = y - x + 1
        /\ \A i \in 1 .. y - x + 1 : SubSeq(B, x, y)[i] = B[x + i - 1]
        /\ SubSeq(B, x, y) # <<>>
        /\ Head(SubSeq(B, x, y)) = B[x] /\ Last(SubSeq(B, x, y)) = B[y]
        /\ Range(SubSeq(B, x, y)) = {B[i] : i \in x .. y}
    BY ONLY <2>3, PieceIs
  <2> QED
    BY ONLY <2>2, <2>4 DEF x, y
<1> HIDE DEF n, l
<1>4. ASSUME NEW k \in 1 .. l PROVE IsPiece(ps[k])
  <2> DEFINE c == b[k] - a[k] + 1
  <2>1. /\ a[k] \in 1 .. n /\ b[k] \in 1 .. n /\ a[k] <= b[k] /\ n \in Nat
        /\ Len(ps[k]) = c /\ \A i \in 1 .. c : ps[k][i] = B[a[k] + i - 1]
    BY <1>1, <1>2, <1>3
  <2>2. \A i \in 1 .. c : a[k] + i - 1 \in 1 .. n
    BY <2>1
  <2>3. DOMAIN ps[k] = 1 .. c
    BY <1>3, <2>1, LenProperties DEF Text
  <2>4. Ascending(ps[k])
    <3>1. ASSUME NEW i \in 1 .. c, NEW j \in 1 .. c, i < j PROVE ps[k][i] < ps[k][j]
      <4>1. a[k] + i - 1 < a[k] + j - 1
        BY <2>1, <3>1
      <4> QED
        BY <1>1, <2>1, <2>2, <4>1
    <3> QED
      BY <2>3, <3>1 DEF Ascending
  <2>5. IsBuffer(ps[k])
    BY <1>1, <1>3, <2>1, <2>2, <2>4 DEF IsBuffer
  <2>6. Connected(ps[k])
    <3>1. ASSUME NEW i \in 1 .. c - 1 PROVE Follows(ps[k][i], ps[k][i + 1])
      <4>1. /\ i \in 1 .. c /\ i + 1 \in 1 .. c /\ a[k] + i - 1 \in 1 .. n - 1
            /\ a[k] + (i + 1) - 1 = (a[k] + i - 1) + 1
        BY <2>1
      <4>2. Follows(B[a[k] + i - 1], B[(a[k] + i - 1) + 1])
        BY <4>1 DEF Connected, n
      <4>3. ps[k][i] = B[a[k] + i - 1] /\ ps[k][i + 1] = B[(a[k] + i - 1) + 1]
        BY <2>1, <4>1
      <4> QED
        BY <4>2, <4>3
    <3> QED
      BY <2>1, <3>1 DEF Connected
  <2> QED
    BY <1>2, <1>3, <2>5, <2>6 DEF IsPiece
<1>5. ASSUME NEW j \in 1 .. l, NEW k \in 1 .. l, j < k PROVE Before(ps[j], ps[k])
  <2>1. ASSUME NEW x \in a[j] .. b[j], NEW y \in a[k] .. b[k] PROVE B[x] < B[y]
    <3>1. /\ a[j] \in 1 .. n /\ b[j] \in 1 .. n /\ a[k] \in 1 .. n /\ b[k] \in 1 .. n
          /\ b[j] < a[k]
      BY <1>2, <1>5
    <3>2. x \in 1 .. n /\ y \in 1 .. n /\ x < y
      BY <1>1, <3>1, SMTT(30)
    <3> QED
      BY <1>1, <3>2
  <2>2. Range(ps[j]) = {B[i] : i \in a[j] .. b[j]} /\ Range(ps[k]) = {B[i] : i \in a[k] .. b[k]}
    BY <1>3
  <2> QED
    BY <2>1, <2>2 DEF Before
<1>6. ASSUME NEW k \in 1 .. l - 1 PROVE Joined(ps[k], ps[k + 1])
  <2>1. k \in 1 .. l /\ k + 1 \in 1 .. l /\ k < k + 1
    BY <1>1
  <2>2. b[k] \in 1 .. n /\ a[k + 1] \in 1 .. n /\ b[k] < a[k + 1]
    BY <1>2, <2>1
  <2>3. Head(ps[k + 1]) = B[a[k + 1]] /\ Last(ps[k]) = B[b[k]]
    BY <1>3, <2>1
  <2>4. B[a[k + 1]] = B[b[k]] + 1 => b[k] + 1 = a[k + 1]
    <3> SUFFICES ASSUME B[a[k + 1]] = B[b[k]] + 1, b[k] + 1 < a[k + 1] PROVE FALSE
      BY <1>1, <2>2
    <3>1. b[k] + 1 \in 1 .. n /\ b[k] < b[k] + 1
      BY <1>1, <2>2
    <3>2. B[b[k]] < B[b[k] + 1] /\ B[b[k] + 1] < B[a[k + 1]]
      BY <1>1, <2>2, <3>1
    <3>3. B[b[k]] \in Nat /\ B[b[k] + 1] \in Nat /\ B[a[k + 1]] \in Nat
      BY <1>1, <2>2, <3>1
    <3> QED
      BY <3>2, <3>3
  <2> QED
    BY <1>2, <2>3, <2>4 DEF Joined
<1>7. Cover(ps, B)
  <2>1. ASSUME NEW k \in 1 .. l PROVE Range(ps[k]) \subseteq Range(B)
    <3>1. \A i \in a[k] .. b[k] : i \in 1 .. n
      BY <1>1, <1>2
    <3>2. \A i \in 1 .. n : B[i] \in Range(B)
      BY <1>1 DEF Range
    <3>3. Range(ps[k]) = {B[i] : i \in a[k] .. b[k]}
      BY <1>3
    <3> QED
      BY <3>1, <3>2, <3>3
  <2>2. ASSUME NEW p \in Range(B), Solid(p) PROVE \E k \in 1 .. l : p \in Range(ps[k])
    <3>1. PICK i \in 1 .. n : B[i] = p
      BY <1>1 DEF Range
    <3>2. PICK k \in 1 .. l : a[k] <= i /\ i <= b[k]
      BY <1>2, <2>2, <3>1
    <3>3. i \in a[k] .. b[k]
      BY <1>1, <1>2, <3>1, <3>2
    <3> QED
      BY <1>3, <3>1, <3>3
  <2> QED
    BY <2>1, <2>2 DEF Cover, l
<1>8. ASSUME B # <<>>, Solid(Head(B)) PROVE ps # <<>> /\ Head(ps[1]) = Head(B)
  <2>1. n \in Nat \ {0} /\ Head(B) = B[1]
    BY <1>1, <1>8, EmptySeq DEF n, Text
  <2>2. PICK k \in 1 .. l : a[k] <= 1 /\ 1 <= b[k]
    BY <1>2, <1>8, <2>1
  <2>3. a[k] = 1
    BY <1>2, <2>2
  <2>4. k = 1
    <3> SUFFICES ASSUME 1 < k PROVE FALSE
      BY <1>1, <2>2
    <3>1. 1 \in 1 .. l
      BY <1>1, <2>2
    <3> QED
      BY <1>2, <2>2, <2>3, <3>1
  <2>5. ps # <<>>
    BY <1>1, <2>2 DEF l
  <2> QED
    BY <1>3, <2>1, <2>3, <2>4, <2>5
<1>9. InLine(ps)
  BY <1>4, <1>5, <1>6 DEF InLine, l
<1> QED
  BY <1>7, <1>8, <1>9

LEMMA TextIs ==
    ASSUME NEW s \in Text
    PROVE  /\ s \in Seq(0 .. MaxLength) /\ Len(s) \in Nat /\ DOMAIN s = 1 .. Len(s)
           /\ \A i \in 1 .. Len(s) : s[i] \in 0 .. MaxLength /\ s[i] \in Nat /\ s[i] \in Range(s)
           /\ \A p \in Range(s) : p \in Nat /\ \E i \in 1 .. Len(s) : s[i] = p
           /\ s = <<>> <=> Len(s) = 0
           /\ s # <<>> => /\ Len(s) > 0 /\ Head(s) = s[1] /\ Last(s) = s[Len(s)]
                          /\ Head(s) \in Range(s) /\ Last(s) \in Range(s)
<1>1. s \in Seq(0 .. MaxLength) /\ Len(s) \in Nat /\ DOMAIN s = 1 .. Len(s) /\ MaxLength \in Nat
  BY LenProperties, StreamAssumption DEF Text
<1>2. \A i \in 1 .. Len(s) : s[i] \in 0 .. MaxLength /\ s[i] \in Range(s)
  BY <1>1, ElementOfSeq DEF Range
<1>3. \A i \in 1 .. Len(s) : s[i] \in Nat
  BY <1>1, <1>2
<1>4. \A p \in Range(s) : p \in Nat /\ \E i \in 1 .. Len(s) : s[i] = p
  BY <1>1, <1>3 DEF Range
<1>5. s = <<>> <=> Len(s) = 0
  BY <1>1, EmptySeq
<1>6. s # <<>> => /\ Len(s) > 0 /\ Head(s) = s[1] /\ Last(s) = s[Len(s)]
                  /\ 1 \in 1 .. Len(s) /\ Len(s) \in 1 .. Len(s)
  BY <1>1, <1>5 DEF Last
<1> QED
  BY <1>1, <1>2, <1>3, <1>4, <1>5, <1>6

\* Two texts, one after the other.
LEMMA Together ==
    ASSUME NEW s \in Text, NEW t \in Text
    PROVE  /\ s \o t \in Text /\ Len(s \o t) = Len(s) + Len(t)
           /\ \A i \in 1 .. Len(s) : (s \o t)[i] = s[i]
           /\ \A i \in 1 .. Len(t) : (s \o t)[Len(s) + i] = t[i]
           /\ Range(s \o t) = Range(s) \cup Range(t)
<1>1. /\ s \o t \in Text /\ Len(s \o t) = Len(s) + Len(t)
      /\ \A i \in 1 .. Len(s) + Len(t) : (s \o t)[i] = IF i <= Len(s) THEN s[i] ELSE t[i - Len(s)]
  BY ConcatProperties DEF Text
<1>2. Len(s) \in Nat /\ Len(t) \in Nat /\ DOMAIN s = 1 .. Len(s) /\ DOMAIN t = 1 .. Len(t)
      /\ DOMAIN (s \o t) = 1 .. Len(s) + Len(t)
  BY <1>1, TextIs
<1> DEFINE u == s \o t
<1> HIDE DEF u
<1>3. \A i \in 1 .. Len(s) : u[i] = s[i] /\ i \in 1 .. Len(s) + Len(t)
  BY <1>1, <1>2 DEF u
<1>4. \A i \in 1 .. Len(t) : u[Len(s) + i] = t[i] /\ Len(s) + i \in 1 .. Len(s) + Len(t)
  <2> SUFFICES ASSUME NEW i \in 1 .. Len(t)
               PROVE  u[Len(s) + i] = t[i] /\ Len(s) + i \in 1 .. Len(s) + Len(t)
    OBVIOUS
  <2>1. Len(s) + i \in 1 .. Len(s) + Len(t) /\ ~ (Len(s) + i <= Len(s)) /\ (Len(s) + i) - Len(s) = i
    BY <1>2
  <2> QED
    BY <1>1, <2>1 DEF u
<1>5. Range(u) = Range(s) \cup Range(t)
  <2>1. ASSUME NEW i \in 1 .. Len(s) + Len(t) PROVE u[i] \in Range(s) \cup Range(t)
    <3>1. CASE i <= Len(s)
      <4>1. i \in 1 .. Len(s)
        BY <1>2, <3>1
      <4> QED
        BY <1>2, <1>3, <4>1 DEF Range
    <3>2. CASE ~ (i <= Len(s))
      <4>1. i - Len(s) \in 1 .. Len(t) /\ Len(s) + (i - Len(s)) = i
        BY <1>2, <3>2
      <4>2. u[i] = t[i - Len(s)]
        BY <1>4, <4>1
      <4> QED
        BY <1>2, <4>1, <4>2 DEF Range
    <3> QED
      BY <3>1, <3>2
  <2>2. DOMAIN u = 1 .. Len(s) + Len(t)
    BY <1>2 DEF u
  <2>3. Range(u) \subseteq Range(s) \cup Range(t)
    BY <2>1, <2>2 DEF Range
  <2>4. Range(s) \subseteq Range(u)
    BY <1>2, <1>3, <2>2 DEF Range
  <2>5. Range(t) \subseteq Range(u)
    BY <1>2, <1>4, <2>2 DEF Range
  <2> QED
    BY <2>3, <2>4, <2>5
<1> QED
  BY <1>1, <1>3, <1>4, <1>5 DEF u

LEMMA BuffersTogether ==
    ASSUME NEW s, IsBuffer(s), NEW t, IsBuffer(t), Before(s, t)
    PROVE  /\ IsBuffer(s \o t)
           /\ /\ Connected(s) /\ Connected(t)
              /\ s # <<>> /\ t # <<>> => Follows(Last(s), Head(t))
              => Connected(s \o t)
<1> DEFINE u == s \o t
           c == Len(s)
           d == Len(t)
<1>1. s \in Text /\ t \in Text /\ c \in Nat /\ d \in Nat /\ DOMAIN s = 1 .. c /\ DOMAIN t = 1 .. d
  BY TextIs DEF IsBuffer
<1>2. /\ \A i \in 1 .. c : s[i] \in Nat /\ s[i] \in Range(s)
      /\ \A i \in 1 .. d : t[i] \in Nat /\ t[i] \in Range(t)
      /\ s # <<>> => Last(s) = s[c]
      /\ t # <<>> => Head(t) = t[1]
  BY <1>1, TextIs
<1>3. /\ u \in Text /\ Len(u) = c + d
      /\ \A i \in 1 .. c : u[i] = s[i]
      /\ \A i \in 1 .. d : u[c + i] = t[i]
  BY <1>1, Together
<1> HIDE DEF u, c, d
<1>4. \A i \in 1 .. c + d : i \in 1 .. c \/ (i - c \in 1 .. d /\ c + (i - c) = i)
  BY <1>1
<1>5. \A i \in 1 .. c + d : i \notin 1 .. c => i - c \in 1 .. d /\ u[i] = t[i - c]
  BY <1>3, <1>4
<1>6. Ascending(u)
  <2> SUFFICES ASSUME NEW i \in 1 .. c + d, NEW j \in 1 .. c + d, i < j PROVE u[i] < u[j]
    BY <1>3, TextIs DEF Ascending
  <2>1. CASE j \in 1 .. c
    <3>1. i \in 1 .. c
      BY <1>1, <2>1
    <3> QED
      BY <1>1, <1>3, <2>1, <3>1 DEF IsBuffer, Ascending
  <2>2. CASE j \notin 1 .. c /\ i \in 1 .. c
    BY <1>2, <1>3, <1>5, <2>2 DEF Before
  <2>3. CASE j \notin 1 .. c /\ i \notin 1 .. c
    <3>1. i - c \in 1 .. d /\ j - c \in 1 .. d /\ i - c < j - c
      BY <1>1, <1>5, <2>3
    <3> QED
      BY <1>1, <1>5, <2>3, <3>1 DEF IsBuffer, Ascending
  <2> QED
    BY <2>1, <2>2, <2>3
<1>7. \A i \in 1 .. c + d : Kind(u[i]) \in {"letter", "stop", "space"}
  <2> SUFFICES ASSUME NEW i \in 1 .. c + d PROVE Kind(u[i]) \in {"letter", "stop", "space"}
    OBVIOUS
  <2>1. CASE i \in 1 .. c
    BY <1>3, <2>1 DEF IsBuffer, c
  <2>2. CASE i \notin 1 .. c
    BY <1>5, <2>2 DEF IsBuffer, d
  <2> QED
    BY <2>1, <2>2
<1>8. IsBuffer(u)
  BY <1>3, <1>6, <1>7 DEF IsBuffer
<1>9. ASSUME Connected(s), Connected(t), s # <<>> /\ t # <<>> => Follows(Last(s), Head(t))
      PROVE  Connected(u)
  <2> SUFFICES ASSUME NEW i \in 1 .. Len(u) - 1 PROVE Follows(u[i], u[i + 1])
    BY DEF Connected
  <2>0. i \in 1 .. c + d - 1
    BY <1>1, <1>3
  <2>1. CASE i < c
    <3>1. i \in 1 .. c - 1 /\ i \in 1 .. c /\ i + 1 \in 1 .. c
      BY <1>1, <2>0, <2>1
    <3> QED
      BY <1>3, <1>9, <3>1 DEF Connected, c
  <2>2. CASE i = c
    <3>1. c \in 1 .. c /\ 1 \in 1 .. d /\ c > 0 /\ d > 0
      BY <1>1, <2>0, <2>2
    <3>2. s # <<>> /\ t # <<>>
      BY <1>1, <3>1, EmptySeq, TextIs DEF c, d
    <3>3. u[c] = Last(s) /\ u[c + 1] = Head(t)
      BY <1>2, <1>3, <3>1, <3>2
    <3> QED
      BY <1>9, <2>2, <3>2, <3>3
  <2>3. CASE i > c
    <3>1. i - c \in 1 .. d - 1 /\ i + 1 \in 1 .. c + d /\ i \in 1 .. c + d /\ i \notin 1 .. c
          /\ i + 1 \notin 1 .. c /\ i + 1 - c = (i - c) + 1
      BY <1>1, <2>0, <2>3
    <3>2. Follows(t[i - c], t[(i - c) + 1])
      BY <1>9, <3>1 DEF Connected, d
    <3>3. u[i] = t[i - c] /\ u[i + 1] = t[(i + 1) - c]
      BY <1>5, <3>1
    <3> QED
      BY <1>1, <2>0, <3>2, <3>3
  <2> QED
    BY <1>1, <2>0, <2>1, <2>2, <2>3
<1> QED
  BY <1>8, <1>9 DEF u

LEMMA JoinLines ==
    ASSUME NEW Z \in Seq(Text), NEW N \in Seq(Text), InLine(Z), InLine(N),
           \A j \in 1 .. Len(Z), k \in 1 .. Len(N) : Before(Z[j], N[k]),
           Len(Z) > 0 /\ Len(N) > 0 => Joined(Z[Len(Z)], N[1])
    PROVE  InLine(Z \o N)
<1> DEFINE u == Z \o N
           c == Len(Z)
           d == Len(N)
<1>1. /\ c \in Nat /\ d \in Nat /\ Len(u) = c + d
      /\ \A i \in 1 .. c + d : u[i] = IF i <= c THEN Z[i] ELSE N[i - c]
  BY LenProperties, ConcatProperties
<1> HIDE DEF u
<1>2. \A i \in 1 .. c + d :
         \/ i \in 1 .. c /\ u[i] = Z[i]
         \/ i \notin 1 .. c /\ i - c \in 1 .. d /\ u[i] = N[i - c]
  BY <1>1
<1>3. \A i \in 1 .. c + d : IsPiece(u[i])
  BY <1>1, <1>2 DEF InLine
<1>4. ASSUME NEW i \in 1 .. c + d, NEW j \in 1 .. c + d, i < j PROVE Before(u[i], u[j])
  <2>1. CASE j \in 1 .. c
    <3>1. i \in 1 .. c
      BY <1>1, <1>4, <2>1
    <3> QED
      BY <1>2, <1>4, <2>1, <3>1 DEF InLine
  <2>2. CASE j \notin 1 .. c /\ i \in 1 .. c
    BY <1>2, <2>2
  <2>3. CASE j \notin 1 .. c /\ i \notin 1 .. c
    <3>1. i - c \in 1 .. d /\ j - c \in 1 .. d /\ i - c < j - c
      BY <1>1, <1>2, <1>4, <2>3
    <3> QED
      BY <1>2, <2>3, <3>1 DEF InLine
  <2> QED
    BY <2>1, <2>2, <2>3
<1>5. ASSUME NEW i \in 1 .. c + d - 1 PROVE Joined(u[i], u[i + 1])
  <2>0. i \in 1 .. c + d /\ i + 1 \in 1 .. c + d
    BY <1>1
  <2>1. CASE i < c
    <3>1. i \in 1 .. c - 1 /\ i \in 1 .. c /\ i + 1 \in 1 .. c
      BY <1>1, <2>1
    <3> QED
      BY <1>2, <2>0, <3>1 DEF InLine
  <2>2. CASE i = c
    <3>1. c > 0 /\ d > 0 /\ c \in 1 .. c /\ c + 1 \notin 1 .. c /\ (c + 1) - c = 1
      BY <1>1, <2>2
    <3>2. u[i] = Z[c] /\ u[i + 1] = N[1]
      BY <1>2, <2>0, <2>2, <3>1
    <3> QED
      BY <3>1, <3>2
  <2>3. CASE i > c
    <3>1. i - c \in 1 .. d - 1 /\ i \notin 1 .. c /\ i + 1 \notin 1 .. c /\ i + 1 - c = (i - c) + 1
      BY <1>1, <2>3
    <3>2. u[i] = N[i - c] /\ u[i + 1] = N[(i - c) + 1]
      BY <1>2, <2>0, <3>1
    <3> QED
      BY <3>1, <3>2 DEF InLine
  <2> QED
    BY <1>1, <2>1, <2>2, <2>3
<1> QED
  BY <1>1, <1>3, <1>4, <1>5, SMTT(30) DEF InLine, u

LEMMA PiecesAre ==
    ASSUME NEW Z \in Seq(Text), NEW pending \in Text
    PROVE  LET L == PiecesOf(Z, pending)
           IN  /\ L \in Seq(Text) /\ Len(Z) \in Nat
               /\ \A k \in 1 .. Len(Z) : L[k] = Z[k]
               /\ pending = <<>> => L = Z
               /\ pending # <<>> => Len(L) = Len(Z) + 1 /\ L[Len(Z) + 1] = pending
  BY AppendProperties, LenProperties DEF PiecesOf

LEMMA AppendIs ==
    ASSUME NEW S, NEW s \in Seq(S), NEW t \in Seq(S), NEW e \in S
    PROVE  /\ <<e>> \in Seq(S) /\ Append(s, e) = s \o <<e>>
           /\ Append(s \o t, e) = s \o Append(t, e)
<1>1. \A q \in Seq(S) : Append(q, e) = q \o <<e>>
  <2> SUFFICES ASSUME NEW q \in Seq(S) PROVE Append(q, e) = q \o <<e>>
    OBVIOUS
  <2>1. <<e>> \in Seq(S) /\ Len(<<e>>) = 1 /\ <<e>>[1] = e
    OBVIOUS
  <2>2. /\ q \o <<e>> \in Seq(S) /\ Len(q \o <<e>>) = Len(q) + 1 /\ Len(q) \in Nat
        /\ \A i \in 1 .. Len(q) + 1 : (q \o <<e>>)[i] = IF i <= Len(q) THEN q[i] ELSE <<e>>[i - Len(q)]
    BY <2>1, ConcatProperties, LenProperties
  <2>3. /\ Append(q, e) \in Seq(S) /\ Len(Append(q, e)) = Len(q) + 1
        /\ \A i \in 1 .. Len(q) : Append(q, e)[i] = q[i]
        /\ Append(q, e)[Len(q) + 1] = e
    BY AppendProperties
  <2>4. \A i \in 1 .. Len(q) + 1 : (q \o <<e>>)[i] = Append(q, e)[i]
    <3> SUFFICES ASSUME NEW i \in 1 .. Len(q) + 1 PROVE (q \o <<e>>)[i] = Append(q, e)[i]
      OBVIOUS
    <3>1. CASE i <= Len(q)
      BY <2>2, <2>3, <3>1
    <3>2. CASE i = Len(q) + 1
      <4>1. ~ (i <= Len(q)) /\ i - Len(q) = 1
        BY <2>2, <3>2
      <4>2. (q \o <<e>>)[i] = <<e>>[1]
        BY <2>2, <4>1
      <4> QED
        BY <2>1, <2>3, <3>2, <4>2
    <3> QED
      BY <2>2, <3>1, <3>2
  <2> QED
    BY <2>2, <2>3, <2>4, SeqEqual
<1>2. <<e>> \in Seq(S) /\ s \o t \in Seq(S)
  BY ConcatProperties
<1>3. (s \o t) \o <<e>> = s \o (t \o <<e>>)
  BY <1>2, ConcatAssociative
<1> QED
  BY <1>1, <1>2, <1>3

\* The text the agent has still to cut, once it has received R: the next token, if any.
IsNext(R, t) == t # <<>> => IsToken(t) /\ Before(R, t) /\ 0 \notin Range(R)

\* What is cut from what was pending and a text that is the next to come, behind
\* the chunks there were.
LEMMA Recut ==
    ASSUME NEW Z \in Seq(Text), NEW pending \in Text, NEW R, NEW t \in Text, NEW force \in BOOLEAN,
           InLine(PiecesOf(Z, pending)), IsBuffer(R), Cover(PiecesOf(Z, pending), R),
           pending = <<>> /\ Z # <<>> => Closed(Last(Z)),
           IsNext(R, t)
    PROVE  \E chunks \in Seq(Text), p \in Text :
              /\ SentenceChunks(pending \o t, force) = [chunks |-> chunks, pending |-> p]
              /\ InLine(PiecesOf(Z \o chunks, p))
              /\ IsBuffer(R \o t) /\ Cover(PiecesOf(Z \o chunks, p), R \o t)
              /\ force => p = <<>>
              /\ ~ force /\ p = <<>> /\ Z \o chunks # <<>> => Closed(Last(Z \o chunks))
<1> DEFINE B == pending \o t
           L == PiecesOf(Z, pending)
           z == Len(Z)
<1> USE DEF IsNext
<1>1. /\ L \in Seq(Text) /\ z \in Nat /\ Len(L) \in Nat
      /\ \A k \in 1 .. z : L[k] = Z[k] /\ k \in 1 .. Len(L)
      /\ pending = <<>> => L = Z
      /\ pending # <<>> => Len(L) = z + 1 /\ z + 1 \in 1 .. Len(L) /\ L[z + 1] = pending
  <2>1. /\ L \in Seq(Text) /\ z \in Nat
        /\ \A k \in 1 .. z : L[k] = Z[k]
        /\ pending = <<>> => L = Z
        /\ pending # <<>> => Len(L) = z + 1 /\ L[z + 1] = pending
    BY PiecesAre
  <2>2. Len(L) \in Nat
    BY <2>1, LenProperties
  <2> HIDE DEF L, z
  <2>3. Len(L) = z \/ Len(L) = z + 1
    BY <2>1 DEF z
  <2>4. \A k \in 1 .. z : k \in 1 .. Len(L)
    BY <2>1, <2>2, <2>3
  <2>5. pending # <<>> => z + 1 \in 1 .. Len(L)
    BY <2>1, <2>2
  <2> QED
    BY <2>1, <2>2, <2>4, <2>5
<1> HIDE DEF L, z
<1>2. /\ \A k \in 1 .. Len(L) : IsPiece(L[k])
      /\ \A j, k \in 1 .. Len(L) : j < k => Before(L[j], L[k])
      /\ \A k \in 1 .. Len(L) - 1 : Joined(L[k], L[k + 1])
      /\ \A k \in 1 .. Len(L) : Range(L[k]) \subseteq Range(R)
      /\ \A p \in Range(R) : Solid(p) => \E k \in 1 .. Len(L) : p \in Range(L[k])
  BY DEF InLine, Cover, L
<1>3. InLine(Z)
  <2>1. \A k \in 1 .. z : IsPiece(Z[k])
    BY <1>1, <1>2
  <2>2. \A j, k \in 1 .. z : j < k => Before(Z[j], Z[k])
    BY <1>1, <1>2
  <2>3. ASSUME NEW k \in 1 .. z - 1 PROVE Joined(Z[k], Z[k + 1])
    <3>1. k \in 1 .. z /\ k + 1 \in 1 .. z
      BY <1>1
    <3>2. k \in 1 .. Len(L) - 1
      BY <1>1, <3>1
    <3> QED
      BY <1>1, <1>2, <3>1, <3>2
  <2> QED
    BY <2>1, <2>2, <2>3 DEF InLine, z
<1>4. /\ IsBuffer(pending) /\ Connected(pending) /\ IsBuffer(t) /\ Connected(t)
      /\ Range(pending) \subseteq Range(R) /\ Before(R, t) /\ Before(pending, t)
  <2>0. /\ IsBuffer(<<>>) /\ Connected(<<>>) /\ Range(<<>>) = {}
    BY TextIs, EmptySeq DEF IsBuffer, Ascending, Connected, Text, Range
  <2>1. IsBuffer(pending) /\ Connected(pending) /\ Range(pending) \subseteq Range(R)
    BY <1>1, <1>2, <2>0 DEF IsPiece
  <2>2. IsBuffer(t) /\ Connected(t) /\ Before(R, t)
    BY <2>0 DEF IsToken, Before
  <2> QED
    BY <2>1, <2>2 DEF Before
<1>5. ASSUME t # <<>>, NEW p \in Range(R), Head(t) = p + 1, Kind(p) # "newline"
      PROVE  p \in cuts
  <2>1. p \in Nat
    BY TextIs DEF IsBuffer
  <2>2. Head(t) \in {0, 1} \/ Head(t) - 1 \in cuts \/ Kind(Head(t) - 1) = "newline"
    BY <1>5 DEF IsToken
  <2>3. p # 0
    BY <1>5
  <2>4. Head(t) - 1 = p /\ Head(t) \notin {0, 1}
    BY <1>5, <2>1, <2>3
  <2> QED
    BY <1>5, <2>2, <2>4
<1>6. pending # <<>> /\ t # <<>> => Follows(Last(pending), Head(t))
  <2> SUFFICES ASSUME pending # <<>>, t # <<>>, Head(t) # Last(pending) + 1
               PROVE  Head(t) - 1 \in cuts \/ Kind(Head(t) - 1) = "newline"
    BY DEF Follows
  <2>1. Last(pending) \in Range(R) /\ Last(pending) \in Nat /\ Head(t) \in Nat /\ Last(pending) < Head(t)
    <3>1. Last(pending) \in Range(pending) /\ Head(t) \in Range(t)
      BY TextIs
    <3> QED
      BY <1>4, <3>1, TextIs DEF Before
  <2>2. Last(pending) # 0 /\ IsToken(t)
    BY <2>1
  <2>3. Head(t) \notin {0, 1}
    BY <2>1, <2>2
  <2> QED
    BY <2>2, <2>3 DEF IsToken
<1>7. IsBuffer(B) /\ Connected(B) /\ B \in Text /\ Range(B) = Range(pending) \cup Range(t)
  BY <1>4, <1>6, BuffersTogether, Together
<1>8. IsBuffer(R \o t) /\ Range(R \o t) = Range(R) \cup Range(t)
  BY <1>4, BuffersTogether, Together DEF IsBuffer
<1>9. PICK chunks \in Seq(Text), p \in Text :
         /\ SentenceChunks(B, force) = [chunks |-> chunks, pending |-> p]
         /\ IsCutUp(B, chunks, p, force)
  BY <1>7, ChunksCut
<1> DEFINE N == PiecesOf(chunks, p)
           d == Len(N)
<1>10. N \in Seq(Text) /\ d \in Nat
  BY PiecesAre, LenProperties
<1>11. /\ InLine(N) /\ Cover(N, B)
       /\ B # <<>> /\ Solid(Head(B)) => N # <<>> /\ Head(N[1]) = Head(B)
  <2>1. PICK a, b : CutAt(B, N, a, b, Len(B))
    BY <1>9 DEF IsCutUp
  <2> HIDE DEF N, B
  <2> QED
    BY <1>7, <1>10, <2>1, CutInLine
<1> HIDE DEF B
<1>12. PiecesOf(Z \o chunks, p) = Z \o N
  <2>1. Append(Z \o chunks, p) = Z \o Append(chunks, p)
    BY AppendIs
  <2> QED
    BY <2>1 DEF PiecesOf
<1> HIDE DEF N, d
<1>13. pending # <<>> => N # <<>> /\ Head(N[1]) = Head(pending) /\ IsPiece(pending)
  <2> SUFFICES ASSUME pending # <<>> PROVE N # <<>> /\ Head(N[1]) = Head(pending) /\ IsPiece(pending)
    OBVIOUS
  <2>1. IsPiece(pending)
    BY <1>1, <1>2
  <2>2. Len(pending) > 0 /\ Head(pending) = pending[1] /\ 1 \in 1 .. Len(pending)
    BY TextIs
  <2>3. Len(B) > 0 /\ B[1] = pending[1]
    BY <2>2, Together, TextIs DEF B
  <2>4. B # <<>> /\ Head(B) = Head(pending)
    BY <1>7, <2>2, <2>3, TextIs
  <2> QED
    BY <1>11, <2>1, <2>4 DEF IsPiece
<1>14. \A j \in 1 .. z, k \in 1 .. d : Before(Z[j], N[k])
  <2> SUFFICES ASSUME NEW j \in 1 .. z, NEW k \in 1 .. d PROVE Before(Z[j], N[k])
    OBVIOUS
  <2>1. Range(N[k]) \subseteq Range(pending) \cup Range(t)
    BY <1>7, <1>11 DEF Cover, d
  <2>2. Before(Z[j], t)
    BY <1>1, <1>2, <1>4 DEF Before
  <2>3. Before(Z[j], pending)
    <3>1. CASE pending = <<>>
      <4>1. Range(pending) = {}
        BY <3>1 DEF Range
      <4> QED
        BY <4>1 DEF Before
    <3>2. CASE pending # <<>>
      <4>1. j \in 1 .. Len(L) /\ z + 1 \in 1 .. Len(L) /\ j < z + 1
        BY <1>1, <3>2
      <4> QED
        BY <1>1, <1>2, <3>2, <4>1
    <3> QED
      BY <3>1, <3>2
  <2> QED
    BY <2>1, <2>2, <2>3 DEF Before
<1>15. z > 0 /\ d > 0 => Joined(Z[z], N[1])
  <2> SUFFICES ASSUME z > 0, d > 0 PROVE Joined(Z[z], N[1])
    OBVIOUS
  <2>0. z \in 1 .. z /\ 1 \in 1 .. d
    BY <1>1, <1>10
  <2>1. CASE pending # <<>>
    <3>1. z \in 1 .. Len(L) - 1
      BY <1>1, <2>0, <2>1
    <3>2. Joined(Z[z], pending)
      BY <1>1, <1>2, <2>0, <2>1, <3>1
    <3> QED
      BY <1>13, <2>1, <3>2 DEF Joined
  <2>2. CASE pending = <<>>
    <3>1. Closed(Z[z])
      <4>1. Z # <<>> /\ Last(Z) = Z[z]
        BY <2>0, EmptySeq DEF Last, z
      <4> QED
        BY <2>2, <4>1
    <3> SUFFICES ASSUME Head(N[1]) = Last(Z[z]) + 1, Kind(Last(Z[z])) = "stop"
                 PROVE  Last(Z[z]) \in cuts
      BY <3>1 DEF Joined, Closed
    <3>2. Z[z] \in Text /\ Z[z] # <<>> /\ N[1] \in Text /\ N[1] # <<>>
      BY <1>3, <1>10, <1>11, <2>0, ElementOfSeq DEF InLine, IsPiece, z, d
    <3>3. Last(Z[z]) \in Range(R)
      <4>1. Last(Z[z]) \in Range(Z[z])
        BY <3>2, TextIs
      <4> QED
        BY <1>1, <1>2, <2>0, <4>1
    <3>4. Head(N[1]) \in Range(t)
      <4>1. Head(N[1]) \in Range(N[1])
        BY <3>2, TextIs
      <4>2. Range(pending) = {}
        BY <2>2 DEF Range
      <4> QED
        BY <1>7, <1>11, <2>0, <4>1, <4>2 DEF Cover, d
    <3>5. t # <<>> /\ Head(t) \in Range(t) /\ Head(t) \in Nat
      <4>1. t # <<>>
        BY <3>4 DEF Range
      <4> QED
        BY <4>1, TextIs
    <3>6. Head(t) <= Head(N[1])
      <4>1. PICK i \in 1 .. Len(t) : t[i] = Head(N[1])
        BY <3>4, TextIs
      <4>2. Head(t) = t[1] /\ 1 \in 1 .. Len(t) /\ DOMAIN t = 1 .. Len(t) /\ t[1] \in Nat /\ t[i] \in Nat
        <5>1. Head(t) = t[1] /\ Len(t) \in Nat /\ Len(t) > 0 /\ DOMAIN t = 1 .. Len(t)
          BY <3>5, TextIs
        <5>2. 1 \in 1 .. Len(t)
          BY <5>1
        <5>3. t[1] \in Nat /\ t[i] \in Nat
          BY <5>2, TextIs
        <5> QED
          BY <5>1, <5>2, <5>3
      <4>3. i = 1 \/ 1 < i
        BY <4>1
      <4>4. 1 < i => t[1] < t[i]
        BY <1>4, <4>2 DEF IsBuffer, Ascending
      <4> QED
        BY <4>1, <4>2, <4>3, <4>4
    <3>7. Last(Z[z]) < Head(t) /\ Last(Z[z]) \in Nat
      BY <1>4, <3>3, <3>5, TextIs DEF Before, IsBuffer
    <3>8. Head(t) = Last(Z[z]) + 1
      BY <3>5, <3>6, <3>7
    <3> QED
      BY <1>5, <3>3, <3>5, <3>8
  <2> QED
    BY <2>1, <2>2
<1>16. InLine(Z \o N)
  BY <1>3, <1>10, <1>11, <1>14, <1>15, JoinLines DEF z, d
<1>17. Cover(Z \o N, R \o t)
  <2>1. /\ Len(Z \o N) = z + d
        /\ \A k \in 1 .. z : (Z \o N)[k] = Z[k] /\ k \in 1 .. z + d
        /\ \A k \in 1 .. d : (Z \o N)[z + k] = N[k] /\ z + k \in 1 .. z + d
        /\ \A k \in 1 .. z + d : k \in 1 .. z \/ (k - z \in 1 .. d /\ z + (k - z) = k)
    <3>1. /\ Len(Z \o N) = z + d
          /\ \A k \in 1 .. z + d : (Z \o N)[k] = IF k <= z THEN Z[k] ELSE N[k - z]
      BY <1>10, ConcatProperties DEF z, d
    <3> HIDE DEF z, d
    <3>2. \A k \in 1 .. z : k <= z /\ k \in 1 .. z + d
      BY <1>1, <1>10
    <3>3. \A k \in 1 .. d : ~ (z + k <= z) /\ (z + k) - z = k /\ z + k \in 1 .. z + d
      BY <1>1, <1>10
    <3>4. \A k \in 1 .. z + d : k \in 1 .. z \/ (k - z \in 1 .. d /\ z + (k - z) = k)
      BY <1>1, <1>10
    <3>5. \A k \in 1 .. z : (Z \o N)[k] = Z[k]
      BY <3>1, <3>2
    <3>6. \A k \in 1 .. d : (Z \o N)[z + k] = N[k]
      <4> SUFFICES ASSUME NEW k \in 1 .. d PROVE (Z \o N)[z + k] = N[k]
        OBVIOUS
      <4>1. (Z \o N)[z + k] = N[(z + k) - z]
        BY <3>1, <3>3
      <4> QED
        BY <3>3, <4>1
    <3> QED
      BY <3>1, <3>2, <3>3, <3>4, <3>5, <3>6
  <2>2. \A k \in 1 .. z : Range(Z[k]) \subseteq Range(R)
    BY <1>1, <1>2
  <2>3. \A k \in 1 .. d : Range(N[k]) \subseteq Range(R) \cup Range(t)
    BY <1>4, <1>7, <1>11 DEF Cover, d
  <2>4. ASSUME NEW k \in 1 .. z + d PROVE Range((Z \o N)[k]) \subseteq Range(R \o t)
    <3>1. CASE k \in 1 .. z
      BY <1>8, <2>1, <2>2, <3>1
    <3>2. CASE k \notin 1 .. z
      <4>1. k - z \in 1 .. d /\ (Z \o N)[k] = N[k - z]
        BY <2>1, <3>2
      <4> QED
        BY <1>8, <2>3, <4>1
    <3> QED
      BY <3>1, <3>2
  <2>5. ASSUME NEW q \in Range(R \o t), Solid(q)
        PROVE  \E k \in 1 .. z + d : q \in Range((Z \o N)[k])
    <3>1. CASE q \in Range(B)
      <4>1. PICK k \in 1 .. d : q \in Range(N[k])
        BY <1>11, <2>5, <3>1 DEF Cover, d
      <4> QED
        BY <2>1, <4>1
    <3>2. CASE q \notin Range(B)
      <4>1. q \in Range(R) /\ q \notin Range(pending)
        BY <1>7, <1>8, <3>2
      <4>2. PICK k \in 1 .. Len(L) : q \in Range(L[k])
        BY <1>2, <2>5, <4>1
      <4>3. k \in 1 .. z
        BY <1>1, <4>1, <4>2 DEF z
      <4> QED
        BY <1>1, <2>1, <4>2, <4>3
    <3> QED
      BY <3>1, <3>2
  <2> QED
    BY <2>1, <2>4, <2>5 DEF Cover
<1>18. ASSUME ~ force, p = <<>>, Z \o chunks # <<>> PROVE Closed(Last(Z \o chunks))
  <2>1. N = chunks
    BY <1>18 DEF N, PiecesOf
  <2>2. CASE chunks = <<>>
    <3>1. N = <<>>
      BY <2>1, <2>2
    <3>2. pending = <<>>
      BY <1>13, <3>1
    <3>3. Z \o chunks = Z
      BY <2>2, ConcatEmptySeq
    <3> QED
      BY <1>18, <3>2, <3>3
  <2>3. CASE chunks # <<>>
    <3>1. Closed(Last(chunks))
      BY <1>9, <1>18, <2>3 DEF IsCutUp
    <3>2. Last(Z \o chunks) = Last(chunks)
      <4>1. Len(chunks) \in Nat \ {0} /\ Len(Z \o chunks) = Len(Z) + Len(chunks) /\ Len(Z) \in Nat
        BY <2>3, EmptySeq, LenProperties, ConcatProperties
      <4>2. (Z \o chunks)[Len(Z) + Len(chunks)] = chunks[(Len(Z) + Len(chunks)) - Len(Z)]
        <5>1. Len(Z) + Len(chunks) \in 1 .. Len(Z) + Len(chunks) /\ ~ (Len(Z) + Len(chunks) <= Len(Z))
          BY <4>1
        <5> QED
          BY <5>1, ConcatProperties
      <4>3. (Len(Z) + Len(chunks)) - Len(Z) = Len(chunks)
        BY <4>1
      <4> QED
        BY <4>1, <4>2, <4>3 DEF Last
    <3> QED
      BY <3>1, <3>2
  <2> QED
    BY <2>2, <2>3
<1>19. force => p = <<>>
  BY <1>9 DEF IsCutUp
<1> QED
  BY <1>8, <1>9, <1>12, <1>16, <1>17, <1>18, <1>19 DEF B

----------------------------------------------------------------------------
(* The pieces of the reply in every step                                      *)

\* What is in line stays so while the reply goes on.
LEMMA Later ==
    ASSUME reply' = reply, cuts \subseteq cuts',
           NEW ps, NEW R, NEW C, Line' = ps, received' = R, Chunks' = C,
           InLine(ps), IsBuffer(R), Cover(ps, R),
           agent' = "reading" /\ rest'.pending = <<>> /\ C # <<>> => Closed(Last(C))
    PROVE  LineIsReply'
<1>1. \A q : Kind(q)' = Kind(q)
  BY DEF Kind
<1>2. InLine(Line)'
  <2>1. \A k \in 1 .. Len(ps) : IsPiece(ps[k])'
    BY DEF InLine, IsPiece, IsBuffer, Ascending, Connected, Follows, Solid, Kind
  <2>2. \A j, k \in 1 .. Len(ps) : j < k => Before(ps[j], ps[k])
    BY DEF InLine
  <2>3. \A k \in 1 .. Len(ps) - 1 : Joined(ps[k], ps[k + 1])'
    BY DEF InLine, Joined, Long, Kind
  <2> QED
    BY <2>1, <2>2, <2>3 DEF InLine, IsPiece, IsBuffer, Ascending, Connected, Follows, Solid, Kind, Joined, Long, Before
<1>3. IsBuffer(received)'
  BY DEF IsBuffer, Ascending, Kind
<1>4. Cover(Line, received)'
  BY DEF Cover, Solid, Kind
<1>5. (agent = "reading" /\ rest.pending = <<>> /\ Chunks # <<>> => Closed(Last(Chunks)))'
  BY DEF Closed, Kind, Long, Last
<1> QED
  BY <1>2, <1>3, <1>4, <1>5 DEF LineIsReply

----------------------------------------------------------------------------
(* Chunks on their way                                                        *)

LEMMA HeadMoves ==
    ASSUME NEW S, NEW q \in Seq(S), NEW s \in Seq(S), s # <<>>
    PROVE  Append(q, Head(s)) \o Tail(s) = q \o s
<1>1. Head(s) \in S /\ Tail(s) \in Seq(S) /\ Len(Tail(s)) = Len(s) - 1 /\ Head(s) = s[1]
      /\ \A i \in 1 .. Len(s) - 1 : Tail(s)[i] = s[i + 1]
  BY HeadTailProperties
<1>2. Len(q) \in Nat /\ Len(s) \in Nat \ {0}
  BY EmptySeq, LenProperties
<1>3. /\ Append(q, Head(s)) \in Seq(S) /\ Len(Append(q, Head(s))) = Len(q) + 1
      /\ \A i \in 1 .. Len(q) : Append(q, Head(s))[i] = q[i]
      /\ Append(q, Head(s))[Len(q) + 1] = s[1]
  BY <1>1, AppendProperties
<1> DEFINE u == Append(q, Head(s))
           v == Tail(s)
<1> HIDE DEF u, v
<1>4. /\ u \in Seq(S) /\ v \in Seq(S) /\ Len(u) = Len(q) + 1 /\ Len(v) = Len(s) - 1
      /\ \A i \in 1 .. Len(q) : u[i] = q[i]
      /\ u[Len(q) + 1] = s[1]
      /\ \A i \in 1 .. Len(s) - 1 : v[i] = s[i + 1]
  BY <1>1, <1>3 DEF u, v
<1>5. /\ u \o v \in Seq(S) /\ Len(u \o v) = Len(u) + Len(v)
      /\ \A i \in 1 .. Len(u) + Len(v) : (u \o v)[i] = IF i <= Len(u) THEN u[i] ELSE v[i - Len(u)]
  BY <1>4, ConcatProperties
<1>6. /\ q \o s \in Seq(S) /\ Len(q \o s) = Len(q) + Len(s)
      /\ \A i \in 1 .. Len(q) + Len(s) : (q \o s)[i] = IF i <= Len(q) THEN q[i] ELSE s[i - Len(q)]
  BY ConcatProperties
<1>7. Len(u) + Len(v) = Len(q) + Len(s)
  BY <1>2, <1>4
<1>8. ASSUME NEW i \in 1 .. Len(q) + Len(s) PROVE (u \o v)[i] = (q \o s)[i]
  <2>1. CASE i <= Len(q)
    <3>1. i \in 1 .. Len(q) /\ i <= Len(u)
      BY <1>2, <1>4, <2>1
    <3> QED
      BY <1>4, <1>5, <1>6, <1>7, <2>1, <3>1
  <2>2. CASE i = Len(q) + 1
    <3>1. i <= Len(u) /\ ~ (i <= Len(q)) /\ i - Len(q) = 1
      BY <1>2, <1>4, <2>2
    <3>2. (u \o v)[i] = s[1]
      BY <1>4, <1>5, <1>7, <2>2, <3>1
    <3>3. (q \o s)[i] = s[i - Len(q)]
      BY <1>6, <3>1
    <3> QED
      BY <3>1, <3>2, <3>3
  <2>3. CASE i > Len(q) + 1
    <3>1. /\ ~ (i <= Len(u)) /\ ~ (i <= Len(q))
          /\ i - Len(u) \in 1 .. Len(s) - 1 /\ (i - Len(u)) + 1 = i - Len(q)
      BY <1>2, <1>4, <2>3
    <3>2. (u \o v)[i] = v[i - Len(u)]
      BY <1>5, <1>7, <3>1
    <3>3. v[i - Len(u)] = s[i - Len(q)]
      BY <1>4, <3>1
    <3>4. (q \o s)[i] = s[i - Len(q)]
      BY <1>6, <3>1
    <3> QED
      BY <3>2, <3>3, <3>4
  <2>4. i <= Len(q) \/ i = Len(q) + 1 \/ i > Len(q) + 1
    BY <1>2
  <2> QED
    BY <2>1, <2>2, <2>3, <2>4
<1>9. u \o v = q \o s
  BY <1>5, <1>6, <1>7, <1>8, SeqEqual
<1> QED
  BY <1>9 DEF u, v

LEMMA FrontIs ==
    ASSUME NEW S, NEW s \in Seq(S), s # <<>>
    PROVE  /\ Front(s) \in Seq(S) /\ Len(Front(s)) = Len(s) - 1
           /\ \A i \in 1 .. Len(s) - 1 : Front(s)[i] = s[i]
<1>1. Len(s) \in Nat \ {0} /\ \A i \in 1 .. Len(s) : s[i] \in S
  BY EmptySeq, ElementOfSeq
<1>2. \A i \in 1 .. Len(s) - 1 : s[i] \in S
  BY <1>1
<1>3. 1 \in Int /\ Len(s) - 1 \in Int
  BY <1>1
<1>4. /\ Front(s) \in Seq(S)
      /\ Len(Front(s)) = IF 1 <= Len(s) - 1 THEN (Len(s) - 1) - 1 + 1 ELSE 0
      /\ \A i \in 1 .. (Len(s) - 1) - 1 + 1 : Front(s)[i] = s[1 + i - 1]
  BY <1>2, <1>3, SubSeqProperties DEF Front
<1>5. Len(Front(s)) = Len(s) - 1
  <2> DEFINE l == Len(s)
             m == Len(Front(s))
  <2>1. l \in Nat \ {0} /\ m = IF 1 <= l - 1 THEN (l - 1) - 1 + 1 ELSE 0
    BY <1>1, <1>4
  <2> HIDE DEF l, m
  <2>2. m = l - 1
    BY <2>1
  <2> QED
    BY <2>2 DEF l, m
<1>6. \A i \in 1 .. Len(s) - 1 : i \in 1 .. (Len(s) - 1) - 1 + 1 /\ 1 + i - 1 = i
  BY <1>1
<1>7. \A i \in 1 .. Len(s) - 1 : Front(s)[i] = s[i]
  BY <1>4, <1>6
<1> QED
  BY <1>4, <1>5, <1>7

LEMMA FrontOfAppend ==
    ASSUME NEW S, NEW s \in Seq(S), NEW e \in S
    PROVE  Front(Append(s, e)) = s /\ Last(Append(s, e)) = e
<1>1. /\ Append(s, e) \in Seq(S) /\ Append(s, e) # <<>> /\ Len(Append(s, e)) = Len(s) + 1
      /\ \A i \in 1 .. Len(s) : Append(s, e)[i] = s[i]
      /\ Append(s, e)[Len(s) + 1] = e /\ Len(s) \in Nat
  BY AppendProperties, LenProperties
<1> DEFINE u == Append(s, e)
<1> HIDE DEF u
<1>2. u \in Seq(S) /\ u # <<>> /\ Len(u) - 1 = Len(s)
  BY <1>1 DEF u
<1>3. Front(u) \in Seq(S) /\ Len(Front(u)) = Len(s) /\ \A i \in 1 .. Len(s) : Front(u)[i] = u[i]
  BY <1>2, FrontIs
<1>4. \A i \in 1 .. Len(s) : Front(u)[i] = s[i]
  BY <1>1, <1>3 DEF u
<1>5. Front(u) = s
  BY <1>3, <1>4, SeqEqual
<1> QED
  BY <1>1, <1>5 DEF u, Last

LEMMA TailOfFront ==
    ASSUME NEW S, NEW s \in Seq(S), Len(s) > 1
    PROVE  /\ Front(s) # <<>> /\ Head(Front(s)) = Head(s) /\ Tail(Front(s)) = Front(Tail(s))
           /\ Tail(s) # <<>> /\ Last(Tail(s)) = Last(s)
<1>1. Len(s) \in Nat /\ s # <<>>
  BY EmptySeq, LenProperties
<1>2. /\ Front(s) \in Seq(S) /\ Len(Front(s)) = Len(s) - 1
      /\ \A i \in 1 .. Len(s) - 1 : Front(s)[i] = s[i]
  BY <1>1, FrontIs
<1>3. /\ Tail(s) \in Seq(S) /\ Len(Tail(s)) = Len(s) - 1
      /\ \A i \in 1 .. Len(s) - 1 : Tail(s)[i] = s[i + 1]
  BY <1>1, HeadTailProperties
<1> DEFINE f == Front(s)
           t == Tail(s)
<1> HIDE DEF f, t
<1>4. f \in Seq(S) /\ f # <<>> /\ t \in Seq(S) /\ t # <<>> /\ Len(f) = Len(s) - 1 /\ Len(t) = Len(s) - 1
  <2>1. f \in Seq(S) /\ t \in Seq(S) /\ Len(f) = Len(s) - 1 /\ Len(t) = Len(s) - 1
    BY <1>2, <1>3 DEF f, t
  <2>2. Len(s) - 1 # 0
    <3> DEFINE l == Len(s)
    <3>1. l \in Nat /\ l > 1
      BY <1>1
    <3> HIDE DEF l
    <3>2. l - 1 # 0
      BY <3>1
    <3> QED
      BY <3>2 DEF l
  <2>3. Len(<<>>) = 0
    OBVIOUS
  <2> QED
    BY <2>1, <2>2, <2>3
<1>5. /\ Tail(f) \in Seq(S) /\ Len(Tail(f)) = Len(s) - 2
      /\ \A i \in 1 .. Len(s) - 2 : Tail(f)[i] = f[i + 1]
  BY <1>1, <1>4, HeadTailProperties
<1>6. /\ Front(t) \in Seq(S) /\ Len(Front(t)) = Len(s) - 2
      /\ \A i \in 1 .. Len(s) - 2 : Front(t)[i] = t[i]
  BY <1>1, <1>4, FrontIs
<1>7. ASSUME NEW i \in 1 .. Len(s) - 2 PROVE Tail(f)[i] = Front(t)[i]
  <2>1. i \in 1 .. Len(s) - 1 /\ i + 1 \in 1 .. Len(s) - 1
    BY <1>1
  <2>2. f[i + 1] = s[i + 1] /\ t[i] = s[i + 1]
    BY <1>2, <1>3, <2>1 DEF f, t
  <2> QED
    BY <1>5, <1>6, <2>2
<1>8. Tail(f) = Front(t)
  BY <1>5, <1>6, <1>7, SeqEqual
<1>9. Head(f) = f[1] /\ Head(s) = s[1] /\ f[1] = s[1]
  BY <1>1, <1>2, <1>4 DEF f
<1>10. Last(t) = Last(s)
  <2>1. Len(s) - 1 \in 1 .. Len(s) - 1 /\ (Len(s) - 1) + 1 = Len(s)
    BY <1>1
  <2>2. t[Len(s) - 1] = s[(Len(s) - 1) + 1]
    BY <1>3, <2>1 DEF t
  <2> QED
    BY <1>4, <2>1, <2>2 DEF Last
<1> QED
  BY <1>4, <1>8, <1>9, <1>10 DEF f, t

\* Where the chunks are: the None is at the end of the queue, once nothing follows.
LEMMA QueueIs ==
    ASSUME Typed, Stages, LineIsReply
    PROVE  /\ queue \in Seq(Text) /\ said \in Seq(Text) /\ rest.chunks \in Seq(Text)
           /\ rest.pending \in Text
           /\ Queued \in Seq(Text) /\ said \o Queued \in Seq(Text) /\ Chunks \in Seq(Text)
           /\ agent # "joining" => Queued = queue
           /\ \A k \in 1 .. Len(rest.chunks) : IsPiece(rest.chunks[k]) /\ rest.chunks[k] # <<>>
<1>1. /\ queue \in Seq(Text) /\ said \in Seq(Text) /\ rest.chunks \in Seq(Text)
      /\ rest.pending \in Text
  BY DEF Typed
<1>2. Queued \in Seq(Text)
  BY <1>1, FrontIs DEF Queued
<1>3. said \o Queued \in Seq(Text) /\ Chunks \in Seq(Text)
  BY <1>1, <1>2, ConcatProperties DEF Chunks
<1>4. agent # "joining" => Queued = queue
  <2> SUFFICES ASSUME agent # "joining", queue # <<>>, Last(queue) = None PROVE FALSE
    BY DEF Queued
  <2>1. Len(queue) \in 1 .. Len(queue) /\ queue[Len(queue)] = None
    BY <1>1, EmptySeq DEF Last
  <2> QED
    BY <2>1 DEF Stages
<1>5. ASSUME NEW k \in 1 .. Len(rest.chunks)
      PROVE  IsPiece(rest.chunks[k]) /\ rest.chunks[k] # <<>>
  <2> DEFINE w == said \o Queued
             c == rest.chunks
  <2>1. /\ w \in Seq(Text) /\ c \in Seq(Text) /\ Chunks = w \o c /\ Len(w) \in Nat /\ Len(c) \in Nat
        /\ k \in 1 .. Len(c)
    BY <1>1, <1>3, LenProperties DEF Chunks
  <2> HIDE DEF w, c
  <2>2. /\ Len(w \o c) = Len(w) + Len(c)
        /\ \A i \in 1 .. Len(w) + Len(c) : (w \o c)[i] = IF i <= Len(w) THEN w[i] ELSE c[i - Len(w)]
    BY <2>1, ConcatProperties
  <2>3. Len(w) + k \in 1 .. Len(w) + Len(c) /\ ~ (Len(w) + k <= Len(w)) /\ (Len(w) + k) - Len(w) = k
    BY <2>1
  <2>4. Chunks[Len(w) + k] = c[k] /\ Len(w) + k \in 1 .. Len(Chunks)
    BY <2>1, <2>2, <2>3
  <2>5. /\ Line[Len(w) + k] = Chunks[Len(w) + k] /\ Line \in Seq(Text)
        /\ Len(Line) = Len(Chunks) \/ Len(Line) = Len(Chunks) + 1
    BY <1>1, <1>3, <2>4, PiecesAre DEF Line
  <2>6. Len(w) + k \in 1 .. Len(Line)
    <3>1. Len(Chunks) \in Nat
      BY <1>3, LenProperties
    <3> QED
      BY <2>4, <2>5, <3>1
  <2>7. IsPiece(Line[Len(w) + k])
    BY <2>6 DEF LineIsReply, InLine
  <2> QED
    BY <2>4, <2>5, <2>7 DEF IsPiece, c
<1> QED
  BY <1>1, <1>2, <1>3, <1>4, <1>5

\* A step that does not read on, and leaves the chunks where they are in the line.
LEMMA Kept ==
    ASSUME LineIsReply, reply' = reply, cuts \subseteq cuts', received' = received,
           Chunks' = Chunks, rest'.pending = rest.pending, agent' = "reading" => agent = "reading"
    PROVE  LineIsReply'
<1>1. Line' = Line
  BY DEF Line, PiecesOf
<1>2. PICK ps : ps = Line
  OBVIOUS
<1>3. PICK R : R = received
  OBVIOUS
<1>4. PICK C : C = Chunks
  OBVIOUS
<1>5. InLine(ps) /\ IsBuffer(R) /\ Cover(ps, R)
  BY <1>2, <1>3 DEF LineIsReply
<1>6. agent' = "reading" /\ rest'.pending = <<>> /\ C # <<>> => Closed(Last(C))
  BY <1>4 DEF LineIsReply
<1>7. Line' = ps /\ received' = R /\ Chunks' = C
  BY <1>1, <1>2, <1>3, <1>4
<1> QED
  BY <1>5, <1>6, <1>7, Later

LEMMA PutChunkKeeps ==
    ASSUME Typed, Stages, LineIsReply, PutChunk
    PROVE  Chunks' = Chunks
<1> DEFINE c == Head(rest.chunks)
<1>1. /\ queue \in Seq(Text) /\ said \in Seq(Text) /\ rest.chunks \in Seq(Text) /\ rest.chunks # <<>>
      /\ agent # "joining" => Queued = queue
      /\ \A k \in 1 .. Len(rest.chunks) : rest.chunks[k] # <<>>
  BY QueueIs DEF PutChunk
<1>2. Queued = queue
  BY <1>1 DEF Stages
<1>3. c \in Text /\ c # <<>>
  <2>1. 1 \in 1 .. Len(rest.chunks) /\ c = rest.chunks[1]
    BY <1>1, EmptySeq
  <2> QED
    BY <1>1, <2>1, ElementOfSeq
<1>4. /\ queue' = Append(queue, c) /\ said' = said /\ rest'.chunks = Tail(rest.chunks)
  <2>1. rest \in [chunks : Seq(Text), pending : Text]
    BY DEF Typed
  <2> QED
    BY <2>1 DEF PutChunk
<1> HIDE DEF c
<1>5. Last(Append(queue, c)) = c
  BY <1>1, <1>3, FrontOfAppend
<1>6. Queued' = Append(queue, c)
  BY <1>3, <1>4, <1>5 DEF Queued, None, Last
<1>7. said \o Append(queue, c) = Append(said \o queue, c) /\ said \o queue \in Seq(Text)
  <2>1. said \o queue \in Seq(Text)
    BY <1>1, ConcatProperties
  <2>2. Append(said \o queue, c) = said \o Append(queue, c)
    BY <1>1, <1>3, AppendIs
  <2> QED
    BY <2>1, <2>2
<1>8. Append(said \o queue, c) \o Tail(rest.chunks) = (said \o queue) \o rest.chunks
  BY <1>1, <1>7, HeadMoves DEF c
<1> QED
  BY <1>2, <1>4, <1>6, <1>7, <1>8 DEF Chunks

LEMMA PutNoneKeeps ==
    ASSUME Typed, Stages, LineIsReply, PutNone
    PROVE  Chunks' = Chunks
<1>1. queue \in Seq(Text) /\ Queued = queue /\ None \in Text
  BY QueueIs, EmptySeq DEF PutNone, Text, None
<1>2. queue' = Append(queue, None) /\ said' = said /\ rest' = rest
  BY DEF PutNone
<1>3. Front(Append(queue, None)) = queue /\ Last(Append(queue, None)) = None
  BY <1>1, FrontOfAppend
<1>4. Append(queue, None) # <<>>
  BY <1>1, AppendProperties
<1>5. Queued' = queue
  BY <1>2, <1>3, <1>4 DEF Queued, None, Front, Last
<1> QED
  BY <1>1, <1>2, <1>5 DEF Chunks

LEMMA TakeChunkKeeps ==
    ASSUME Typed, Stages, LineIsReply, TakeChunk
    PROVE  Chunks' = Chunks
<1>1. /\ queue \in Seq(Text) /\ said \in Seq(Text) /\ rest.chunks \in Seq(Text) /\ queue # <<>>
      /\ Queued \in Seq(Text)
      /\ queue' = Tail(queue) /\ rest' = rest
  BY QueueIs DEF TakeChunk
<1>2. Len(queue) \in Nat \ {0} /\ Head(queue) = queue[1] /\ Last(queue) = queue[Len(queue)]
      /\ Len(Tail(queue)) = Len(queue) - 1 /\ Tail(queue) \in Seq(Text)
  BY <1>1, EmptySeq, HeadTailProperties DEF Last
<1>3. CASE Head(queue) = None
  <2>1. Len(queue) = 1
    <3>1. 1 \in 1 .. Len(queue)
      BY <1>2
    <3> QED
      BY <1>2, <1>3, <3>1 DEF Stages
  <2>2. Len(Front(queue)) = 0 /\ Front(queue) \in Seq(Text) /\ Len(Tail(queue)) = 0
    BY <1>1, <1>2, <2>1, FrontIs
  <2>3. Front(queue) = <<>> /\ Tail(queue) = <<>>
    BY <1>2, <2>2, EmptySeq
  <2>4. Last(queue) = None
    BY <1>2, <1>3, <2>1
  <2>5. Queued = <<>> /\ Queued' = <<>>
    BY <1>1, <2>3, <2>4 DEF Queued
  <2>6. said' = said
    BY <1>3 DEF TakeChunk
  <2> QED
    BY <1>1, <2>5, <2>6 DEF Chunks
<1>4. CASE Head(queue) # None
  <2>1. said' = Append(said, Head(queue))
    BY <1>4 DEF TakeChunk
  <2>2. Queued # <<>> /\ Head(Queued) = Head(queue) /\ Queued' = Tail(Queued)
    <3>1. CASE Last(queue) = None
      <4>1. Len(queue) > 1
        <5>1. Len(queue) # 1
          BY <1>2, <1>4, <3>1
        <5> DEFINE l == Len(queue)
        <5>2. l \in Nat \ {0} /\ l # 1
          BY <1>2, <5>1
        <5> HIDE DEF l
        <5>3. l > 1
          BY <5>2
        <5> QED
          BY <5>3 DEF l
      <4>2. /\ Front(queue) # <<>> /\ Head(Front(queue)) = Head(queue)
            /\ Tail(Front(queue)) = Front(Tail(queue))
            /\ Tail(queue) # <<>> /\ Last(Tail(queue)) = Last(queue)
        BY <1>1, <4>1, TailOfFront
      <4>3. Queued = Front(queue)
        BY <1>1, <3>1 DEF Queued
      <4>4. Queued' = Front(Tail(queue))
        BY <1>1, <3>1, <4>2 DEF Queued, None, Front, Last
      <4> QED
        BY <4>2, <4>3, <4>4
    <3>2. CASE Last(queue) # None
      <4>1. Queued = queue
        BY <3>2 DEF Queued
      <4>2. Tail(queue) = <<>> \/ Last(Tail(queue)) # None
        <5>1. CASE Len(queue) > 1
          BY <1>1, <3>2, <5>1, TailOfFront
        <5>2. CASE ~ (Len(queue) > 1)
          <6>1. Len(Tail(queue)) = 0
            BY <1>2, <5>2
          <6> QED
            BY <1>2, <6>1, EmptySeq
        <5> QED
          BY <5>1, <5>2
      <4>3. Queued' = Tail(queue)
        BY <1>1, <4>2 DEF Queued, None, Last
      <4> QED
        BY <1>1, <4>1, <4>3
    <3> QED
      BY <3>1, <3>2
  <2> DEFINE q == Queued
  <2>3. q \in Seq(Text) /\ q # <<>> /\ Head(q) \in Text /\ Tail(q) \in Seq(Text)
    BY <1>1, <2>2, HeadTailProperties
  <2>4. Chunks' = (Append(said, Head(q)) \o Tail(q)) \o rest.chunks
    BY <1>1, <2>1, <2>2 DEF Chunks
  <2> HIDE DEF q
  <2>5. Append(said, Head(q)) \o Tail(q) = said \o q
    BY <1>1, <2>3, HeadMoves
  <2> QED
    BY <2>4, <2>5 DEF Chunks, q
<1> QED
  BY <1>3, <1>4

----------------------------------------------------------------------------
(* A token is cut, and what is left when the stream ends                      *)

LEMMA ReadTokenCuts ==
    ASSUME Typed, Stages, WireIsNext, LineIsReply, ReadToken
    PROVE  /\ LineIsReply'
           /\ rest' \in [chunks : Seq(Text), pending : Text]
           /\ received' \in Text /\ Range(received') = Range(received) \cup Range(wire[1].text)
           /\ 1 \in Tokens /\ wire[1].text \in Text
<1>1. /\ said \o Queued \in Seq(Text) /\ rest.pending \in Text /\ rest.chunks = <<>>
      /\ agent = "reading" /\ Queued = queue /\ queue' = queue /\ said' = said
  BY QueueIs DEF ReadToken
<1>2. PICK Z : Z = said \o Queued
  OBVIOUS
<1>3. PICK R : R = received
  OBVIOUS
<1>4. PICK t : t = Head(wire).text
  OBVIOUS
<1>5. PICK q : q = rest.pending
  OBVIOUS
<1>6. /\ 1 \in Tokens /\ wire[1].text = t /\ t \in Text
  <2>1. wire \in Seq([kind : {"token", "done", "error", "closed"}, text : Text]) /\ wire # <<>>
        /\ Head(wire).kind = "token"
    BY DEF Typed, ReadToken
  <2>2. 1 \in 1 .. Len(wire) /\ Head(wire) = wire[1]
    BY <2>1, EmptySeq
  <2>3. wire[1] \in [kind : {"token", "done", "error", "closed"}, text : Text]
    BY <2>1, <2>2, ElementOfSeq
  <2> QED
    BY <1>4, <2>1, <2>2, <2>3 DEF Tokens
<1>7. IsNext(R, t)
  BY <1>1, <1>3, <1>6 DEF WireIsNext, IsNext
<1>8. Chunks = Z
  <2>1. Z \o <<>> = Z
    BY <1>1, <1>2, ConcatEmptySeq
  <2> QED
    BY <1>1, <1>2, <2>1 DEF Chunks
<1>9. /\ Z \in Seq(Text) /\ q \in Text
      /\ InLine(PiecesOf(Z, q)) /\ IsBuffer(R) /\ Cover(PiecesOf(Z, q), R)
      /\ q = <<>> /\ Z # <<>> => Closed(Last(Z))
  BY <1>1, <1>2, <1>3, <1>5, <1>8 DEF LineIsReply, Line
<1>10. PICK force \in BOOLEAN : force = FALSE
  OBVIOUS
<1>11. \E chunks \in Seq(Text), p \in Text :
           /\ SentenceChunks(q \o t, force) = [chunks |-> chunks, pending |-> p]
           /\ InLine(PiecesOf(Z \o chunks, p))
           /\ IsBuffer(R \o t) /\ Cover(PiecesOf(Z \o chunks, p), R \o t)
           /\ force => p = <<>>
           /\ ~ force /\ p = <<>> /\ Z \o chunks # <<>> => Closed(Last(Z \o chunks))
  BY <1>6, <1>7, <1>9, Recut
<1>12. PICK chunks \in Seq(Text), p \in Text :
          /\ SentenceChunks(q \o t, FALSE) = [chunks |-> chunks, pending |-> p]
          /\ InLine(PiecesOf(Z \o chunks, p))
          /\ IsBuffer(R \o t) /\ Cover(PiecesOf(Z \o chunks, p), R \o t)
          /\ p = <<>> /\ Z \o chunks # <<>> => Closed(Last(Z \o chunks))
  BY <1>10, <1>11
<1>13. rest' = [chunks |-> chunks, pending |-> p] /\ received' = R \o t
       /\ reply' = reply /\ cuts' = cuts
  BY <1>3, <1>4, <1>5, <1>12 DEF ReadToken, serviceVars
<1>14. Queued' = Queued
  BY <1>1 DEF Queued, Last, Front
<1>15. Chunks' = Z \o chunks /\ Line' = PiecesOf(Z \o chunks, p)
  <2>1. Chunks' = Z \o chunks
    BY <1>1, <1>2, <1>13, <1>14 DEF Chunks
  <2> QED
    BY <1>13, <2>1 DEF Line, PiecesOf
<1>16. PICK ps : ps = PiecesOf(Z \o chunks, p)
  OBVIOUS
<1>17. PICK C : C = Z \o chunks
  OBVIOUS
<1>18. PICK S : S = R \o t
  OBVIOUS
<1>19. /\ Line' = ps /\ received' = S /\ Chunks' = C
       /\ InLine(ps) /\ IsBuffer(S) /\ Cover(ps, S)
       /\ agent' = "reading" /\ rest'.pending = <<>> /\ C # <<>> => Closed(Last(C))
  BY <1>12, <1>13, <1>15, <1>16, <1>17, <1>18
<1>20. LineIsReply'
  BY <1>13, <1>19, Later
<1>21. R \in Text /\ R \o t \in Text /\ Range(R \o t) = Range(R) \cup Range(t)
  <2>1. R \in Text
    BY <1>9 DEF IsBuffer
  <2> QED
    BY <1>6, <2>1, Together
<1> QED
  BY <1>3, <1>6, <1>12, <1>13, <1>20, <1>21

LEMMA StreamEndsCuts ==
    ASSUME Typed, Stages, LineIsReply, StreamEnds
    PROVE  LineIsReply' /\ rest' \in [chunks : Seq(Text), pending : {<<>>}]
<1>1. /\ said \o Queued \in Seq(Text) /\ rest.pending \in Text /\ rest.chunks = <<>>
      /\ agent = "reading" /\ Queued = queue /\ queue' = queue /\ said' = said
      /\ <<>> \in Text
  BY QueueIs, EmptySeq DEF StreamEnds, Text
<1>2. PICK Z : Z = said \o Queued
  OBVIOUS
<1>3. PICK R : R = received
  OBVIOUS
<1>4. PICK q : q = rest.pending
  OBVIOUS
<1>5. Chunks = Z
  <2>1. Z \o <<>> = Z
    BY <1>1, <1>2, ConcatEmptySeq
  <2> QED
    BY <1>1, <1>2, <2>1 DEF Chunks
<1>6. /\ Z \in Seq(Text) /\ q \in Text /\ R \in Text
      /\ InLine(PiecesOf(Z, q)) /\ IsBuffer(R) /\ Cover(PiecesOf(Z, q), R)
      /\ q = <<>> /\ Z # <<>> => Closed(Last(Z))
  BY <1>1, <1>2, <1>3, <1>4, <1>5 DEF LineIsReply, Line, IsBuffer
<1>7. q \o <<>> = q /\ R \o <<>> = R
  BY <1>6, ConcatEmptySeq DEF Text
<1>8. PICK force \in BOOLEAN : force = TRUE
  OBVIOUS
<1>9. PICK t : t = <<>>
  OBVIOUS
<1>10. t \in Text
  BY <1>1, <1>9
<1>11. IsNext(R, t)
  BY <1>9 DEF IsNext
<1>12. \E chunks \in Seq(Text), p \in Text :
           /\ SentenceChunks(q \o t, force) = [chunks |-> chunks, pending |-> p]
           /\ InLine(PiecesOf(Z \o chunks, p))
           /\ IsBuffer(R \o t) /\ Cover(PiecesOf(Z \o chunks, p), R \o t)
           /\ force => p = <<>>
           /\ ~ force /\ p = <<>> /\ Z \o chunks # <<>> => Closed(Last(Z \o chunks))
  BY <1>6, <1>10, <1>11, Recut
<1>13. PICK chunks \in Seq(Text), p \in {<<>>} :
          /\ SentenceChunks(q, TRUE) = [chunks |-> chunks, pending |-> p]
          /\ InLine(PiecesOf(Z \o chunks, p))
          /\ Cover(PiecesOf(Z \o chunks, p), R)
  BY <1>7, <1>8, <1>9, <1>12
<1>14. /\ rest' = [chunks |-> chunks, pending |-> p] /\ received' = R
       /\ reply' = reply /\ cuts' = cuts /\ agent' = "flushing"
  BY <1>3, <1>4, <1>13 DEF StreamEnds, serviceVars
<1>15. Queued' = Queued
  BY <1>1 DEF Queued, Last, Front
<1>16. Chunks' = Z \o chunks /\ Line' = PiecesOf(Z \o chunks, p)
  <2>1. Chunks' = Z \o chunks
    BY <1>1, <1>2, <1>14, <1>15 DEF Chunks
  <2> QED
    BY <1>14, <2>1 DEF Line, PiecesOf
<1>17. PICK ps : ps = PiecesOf(Z \o chunks, p)
  OBVIOUS
<1>18. PICK C : C = Z \o chunks
  OBVIOUS
<1>19. /\ Line' = ps /\ received' = R /\ Chunks' = C
       /\ InLine(ps) /\ IsBuffer(R) /\ Cover(ps, R)
       /\ agent' # "reading"
  BY <1>6, <1>13, <1>14, <1>16, <1>17, <1>18
<1>20. LineIsReply'
  BY <1>14, <1>19, Later
<1> QED
  BY <1>13, <1>14, <1>20

\* The agent says sorry in place of a reply that is blank, and of nothing else.
LEMMA JoinKeeps ==
    ASSUME Typed, Stages, LineIsReply, Join
    PROVE  LineIsReply' /\ received' \in Text /\ said' \in Seq(Text)
<1>1. /\ agent = "joining" /\ speaker = "ended" /\ queue = <<>> /\ rest.chunks = <<>>
      /\ rest.pending = <<>> /\ reply' = reply /\ cuts' = cuts /\ queue' = queue /\ rest' = rest
      /\ agent' # "reading"
  BY DEF Join, Stages, serviceVars
<1>2. Queued = <<>> /\ Queued' = <<>> /\ said \in Seq(Text) /\ received \in Text
  BY <1>1 DEF Queued, Typed, Last, Front
<1>3. CASE Strip(received, 1, Len(received)) # <<>>
  <2>1. received' = received /\ said' = said
    BY <1>3 DEF Join
  <2>2. Chunks' = Chunks
    BY <1>1, <1>2, <2>1 DEF Chunks
  <2> QED
    BY <1>1, <1>2, <2>1, <2>2, Kept
<1>4. CASE Strip(received, 1, Len(received)) = <<>>
  <2>1. received' = Sorry /\ said' = Append(said, Sorry)
    BY <1>4 DEF Join
  <2>2. \A p \in Range(received) : ~ Solid(p)
    <3> DEFINE n == Len(received)
    <3>1. received \in Text /\ n \in Nat /\ 1 \in Nat \ {0} /\ n \in 0 .. n
      BY <1>2, TextIs
    <3>2. ASSUME NEW i \in 1 .. n PROVE ~ Solid(received[i])
      <4> SUFFICES ASSUME Solid(received[i]) PROVE FALSE
        OBVIOUS
      <4>1. PICK a, b \in 1 .. n : a <= b /\ Strip(received, 1, n) = SubSeq(received, a, b)
        BY <3>1, StripIs
      <4>2. SubSeq(received, a, b) # <<>>
        BY <3>1, <4>1, PieceIsText
      <4> QED
        BY <1>4, <4>1, <4>2
    <3> QED
      BY <3>1, <3>2, TextIs
  <2>3. said = <<>>
    <3> SUFFICES ASSUME said # <<>> PROVE FALSE
      OBVIOUS
    <3>1. Chunks = said
      BY <1>1, <1>2, ConcatEmptySeq DEF Chunks
    <3>2. Line = said
      BY <1>1, <3>1 DEF Line, PiecesOf
    <3>3. 1 \in 1 .. Len(said)
      BY <1>2, EmptySeq
    <3>4. IsPiece(said[1]) /\ Range(said[1]) \subseteq Range(received)
      BY <3>2, <3>3 DEF LineIsReply, InLine, Cover
    <3>5. Head(said[1]) \in Range(said[1]) /\ Solid(Head(said[1]))
      BY <3>4, TextIs DEF IsPiece, IsBuffer
    <3> QED
      BY <2>2, <3>4, <3>5
  <2>4. Sorry \in Text /\ <<Sorry>> \in Seq(Text) /\ Sorry = <<0>>
    BY StreamAssumption DEF Sorry, Text
  <2>5. said' = <<Sorry>>
    BY <2>1, <2>3, <2>4
  <2>6. Chunks' = <<Sorry>> /\ Line' = <<Sorry>>
    <3>1. <<Sorry>> \o <<>> = <<Sorry>>
      BY <2>4, ConcatEmptySeq
    <3> QED
      BY <1>1, <1>2, <2>5, <3>1 DEF Chunks, Line, PiecesOf
  <2>7. Len(Sorry) = 1 /\ Sorry[1] = 0 /\ Head(Sorry) = 0 /\ Last(Sorry) = 0 /\ Sorry # <<>>
        /\ DOMAIN Sorry = 1 .. 1
    BY <2>4 DEF Last
  <2>8. IsBuffer(Sorry) /\ IsPiece(Sorry)
    <3>1. IsBuffer(Sorry)
      BY <2>4, <2>7 DEF IsBuffer, Ascending, Kind
    <3>2. Connected(Sorry)
      BY <2>7 DEF Connected
    <3> QED
      BY <2>7, <3>1, <3>2 DEF IsPiece, Solid, Kind
  <2> DEFINE line == <<Sorry>>
  <2>9. Len(line) = 1 /\ line[1] = Sorry
    OBVIOUS
  <2> HIDE DEF line
  <2>10. InLine(line)
    BY <2>8, <2>9 DEF InLine
  <2>11. Cover(line, Sorry)
    BY <2>9 DEF Cover
  <2>12. PICK ps : ps = line
    OBVIOUS
  <2>13. PICK R : R = Sorry
    OBVIOUS
  <2>14. /\ Line' = ps /\ received' = R /\ Chunks' = ps
         /\ InLine(ps) /\ IsBuffer(R) /\ Cover(ps, R)
    BY <2>1, <2>6, <2>8, <2>10, <2>11, <2>12, <2>13 DEF line
  <2>15. LineIsReply'
    BY <1>1, <2>14, Later
  <2> QED
    BY <2>1, <2>4, <2>5, <2>15
<1> QED
  BY <1>3, <1>4

----------------------------------------------------------------------------
(* What rag-service writes                                                    *)

\* The lines of the stream.
Lines == [kind : {"token", "done", "error", "closed"}, text : Text]

LEMMA TokenLater ==
    ASSUME reply' = reply, cuts \subseteq cuts', produced \in Nat, produced' \in Nat, produced <= produced',
           NEW t, IsToken(t)
    PROVE  IsToken(t)'
<1>1. IsBuffer(t)' /\ Connected(t)'
  BY DEF IsToken, IsBuffer, Ascending, Connected, Follows, Kind
<1>2. t = Sorry \/ Range(t) \subseteq 1 .. produced'
  <2>1. \A p \in 1 .. produced : p \in 1 .. produced'
    OBVIOUS
  <2> QED
    BY <2>1 DEF IsToken
<1>3. Head(t) \in {0, 1} \/ Head(t) - 1 \in cuts' \/ (Kind(Head(t) - 1) = "newline")'
  BY DEF IsToken, Kind
<1> QED
  BY <1>1, <1>2, <1>3 DEF IsToken, IsBuffer, Ascending, Connected, Follows, Kind

\* A step that leaves the wire alone.
LEMMA WireStays ==
    ASSUME WireIsNext, reply' = reply, cuts \subseteq cuts', produced \in Nat, produced' \in Nat,
           produced <= produced', produced' = 0 \/ produced' \in cuts',
           service' = service, emitted' = emitted,
           agent' = "reading" =>
              agent = "reading" /\ wire' = wire /\ received' = received /\ received \in Text
    PROVE  WireIsNext'
<1> SUFFICES ASSUME agent' = "reading"
             PROVE  /\ (\A p \in Range(received) : p <= produced)'
                    /\ (\A i \in Tokens : IsToken(wire[i].text) /\ Before(received, wire[i].text))'
                    /\ (\A i, j \in Tokens : i < j => Before(wire[i].text, wire[j].text))'
                    /\ (service = "streaming" /\ ~ emitted => received = <<>> /\ Tokens = {})'
                    /\ (\A i \in Tokens : wire[i].text = Sorry => service = "over" /\ Tokens = {i})'
                    /\ (0 \in Range(received) => service = "over" /\ Tokens = {})'
  BY DEF WireIsNext
<1>1. /\ agent = "reading" /\ wire' = wire /\ received' = received /\ received \in Text
      /\ Tokens' = Tokens
  BY DEF Tokens
<1>2. (\A p \in Range(received) : p <= produced)'
  <2>1. \A p \in Range(received) : p <= produced /\ p \in Nat
    BY <1>1, TextIs DEF WireIsNext
  <2> QED
    BY <1>1, <2>1
<1>3. (\A i \in Tokens : IsToken(wire[i].text) /\ Before(received, wire[i].text))'
  <2> SUFFICES ASSUME NEW i \in Tokens
               PROVE  (IsToken(wire[i].text) /\ Before(received, wire[i].text))'
    BY <1>1
  <2>1. PICK u : u = wire[i].text
    OBVIOUS
  <2>2. IsToken(u) /\ Before(received, u)
    BY <1>1, <2>1 DEF WireIsNext
  <2>3. IsToken(u)'
    BY <2>2, TokenLater
  <2> QED
    BY <1>1, <2>1, <2>2, <2>3 DEF IsToken, IsBuffer, Ascending, Connected, Follows, Kind, Before
<1>4. (\A i, j \in Tokens : i < j => Before(wire[i].text, wire[j].text))'
  BY <1>1 DEF WireIsNext, Before
<1>5. /\ (service = "streaming" /\ ~ emitted => received = <<>> /\ Tokens = {})'
      /\ (\A i \in Tokens : wire[i].text = Sorry => service = "over" /\ Tokens = {i})'
      /\ (0 \in Range(received) => service = "over" /\ Tokens = {})'
  BY <1>1 DEF WireIsNext, Sorry
<1> QED
  BY <1>2, <1>3, <1>4, <1>5

\* The characters of a token.
LEMMA EmittedIs ==
    ASSUME Typed, NEW n \in produced + 1 .. Len(reply), NEW t,
           t = InOrder({p \in produced + 1 .. n : Kind(p) # "newline"}), t # <<>>
    PROVE  /\ IsBuffer(t)
           /\ \A p \in Range(t) : p \in 1 .. n /\ produced < p
           /\ Head(t) = produced + 1 \/ Kind(Head(t) - 1) = "newline"
           /\ \A i \in 1 .. Len(t) - 1 : t[i + 1] = t[i] + 1 \/ Kind(t[i + 1] - 1) = "newline"
<1> DEFINE S == {p \in produced + 1 .. n : Kind(p) # "newline"}
<1>1. /\ produced \in Nat /\ n \in Nat /\ Len(reply) \in Nat /\ Len(reply) <= MaxLength
      /\ MaxLength \in Nat /\ n <= Len(reply) /\ reply \in Seq(Kinds)
  <2>1. reply \in Seq(Kinds) /\ Len(reply) \in Nat
    BY LenProperties DEF Typed
  <2> QED
    BY <2>1, StreamAssumption DEF Typed
<1>2. S \in SUBSET (1 .. n)
  BY <1>1
<1>3. t = InOrder(S)
  OBVIOUS
<1>4. \A x : x \in S <=> x \in produced + 1 .. n /\ Kind(x) # "newline"
  OBVIOUS
<1> HIDE DEF S
<1>5. /\ t \in Seq(S)
      /\ \A j, k \in 1 .. Len(t) : j < k => t[j] < t[k]
      /\ \A x \in S : \E k \in 1 .. Len(t) : t[k] = x
  BY <1>1, <1>2, <1>3, InOrderIs
<1>6. /\ Len(t) \in Nat /\ DOMAIN t = 1 .. Len(t) /\ \A i \in 1 .. Len(t) : t[i] \in S
  BY <1>5, LenProperties, ElementOfSeq
<1>7. \A x \in S : x \in 1 .. n /\ produced < x /\ x \in 0 .. MaxLength /\ x \in Nat
  BY <1>1, <1>4
<1>8. t \in Text
  <2>1. S \subseteq 0 .. MaxLength
    BY <1>7
  <2> QED
    BY <1>5, <2>1, SeqMonotonic DEF Text
<1>9. \A x \in S : Kind(x) \in {"letter", "stop", "space"}
  <2> SUFFICES ASSUME NEW x \in S PROVE Kind(x) \in {"letter", "stop", "space"}
    OBVIOUS
  <2>1. x \in 1 .. Len(reply) /\ x # 0 /\ Kind(x) # "newline"
    BY <1>1, <1>4, <1>7
  <2>2. reply[x] \in Kinds
    BY <1>1, <2>1, ElementOfSeq
  <2> QED
    BY <2>1, <2>2 DEF Kind, Kinds
<1>10. IsBuffer(t)
  <2>1. Ascending(t)
    BY <1>5, <1>6 DEF Ascending
  <2> QED
    BY <1>6, <1>8, <1>9, <2>1 DEF IsBuffer
<1>11. \A p \in Range(t) : p \in 1 .. n /\ produced < p
  BY <1>6, <1>7 DEF Range
<1>12. Len(t) > 0 /\ Head(t) = t[1] /\ 1 \in 1 .. Len(t)
  BY <1>6, <1>8, TextIs
<1>13. Head(t) = produced + 1 \/ Kind(Head(t) - 1) = "newline"
  <2> SUFFICES ASSUME Head(t) # produced + 1, Kind(Head(t) - 1) # "newline" PROVE FALSE
    OBVIOUS
  <2>1. t[1] \in 1 .. n /\ produced < t[1] /\ t[1] # produced + 1
    BY <1>6, <1>7, <1>12
  <2>2. t[1] - 1 \in produced + 1 .. n
    BY <1>1, <2>1
  <2>3. t[1] - 1 \in S
    BY <1>4, <1>12, <2>2
  <2>4. PICK k \in 1 .. Len(t) : t[k] = t[1] - 1
    BY <1>5, <2>3
  <2>5. k = 1 \/ 1 < k
    BY <1>6
  <2>6. t[1] \in Nat /\ t[k] \in Nat
    BY <1>6, <1>7, <1>12
  <2>7. 1 < k => t[1] < t[k]
    BY <1>5, <1>12
  <2> QED
    BY <2>4, <2>5, <2>6, <2>7
<1>14. ASSUME NEW i \in 1 .. Len(t) - 1, t[i + 1] # t[i] + 1, Kind(t[i + 1] - 1) # "newline"
       PROVE  FALSE
  <2>1. i \in 1 .. Len(t) /\ i + 1 \in 1 .. Len(t) /\ i < i + 1 /\ i \in Nat
    BY <1>6
  <2>2. t[i] < t[i + 1] /\ t[i] \in S /\ t[i + 1] \in S
    BY <1>5, <1>6, <2>1
  <2>3. t[i] \in 1 .. n /\ produced < t[i] /\ t[i + 1] \in 1 .. n
    BY <1>7, <2>2
  <2>4. t[i + 1] - 1 \in produced + 1 .. n /\ t[i] < t[i + 1] - 1
    BY <1>1, <1>14, <2>2, <2>3
  <2>5. t[i + 1] - 1 \in S
    BY <1>4, <1>14, <2>4
  <2>6. PICK k \in 1 .. Len(t) : t[k] = t[i + 1] - 1
    BY <1>5, <2>5
  <2>7. k \in Nat /\ t[k] \in Nat
    BY <1>6, <1>7
  <2>8. k = i \/ k < i \/ k = i + 1 \/ i + 1 < k
    BY <2>1, <2>7
  <2>9. k < i => t[k] < t[i]
    BY <1>5, <2>1
  <2>10. i + 1 < k => t[i + 1] < t[k]
    BY <1>5, <2>1
  <2> QED
    BY <2>3, <2>4, <2>6, <2>7, <2>8, <2>9, <2>10
<1> QED
  BY <1>10, <1>11, <1>13, <1>14

LEMMA EmitNext ==
    ASSUME Typed, Stages, WireIsNext, NEW n \in produced + 1 .. Len(reply), Emit(n)
    PROVE  WireIsNext' /\ wire' \in Seq(Lines) /\ emitted' \in BOOLEAN
<1>1. /\ produced \in Nat /\ n \in Nat /\ produced < n /\ produced' = n /\ cuts' = cuts \cup {n}
      /\ reply' = reply /\ service = "streaming" /\ service' = service
      /\ agent' = agent /\ received' = received /\ wire \in Seq(Lines)
  <2>1. reply \in Seq(Kinds) /\ Len(reply) \in Nat
    BY LenProperties DEF Typed
  <2> QED
    BY <2>1 DEF Typed, Emit, Lines
<1>2. PICK t : t = InOrder({p \in produced + 1 .. n : Kind(p) # "newline"})
  OBVIOUS
<1>3. \A u : IsToken(u) => (u # <<>> /\ (u = Sorry \/ \A p \in Range(u) : p <= produced))
  BY <1>1 DEF IsToken
<1>4. CASE t = <<>>
  <2>1. wire' = wire /\ emitted' = emitted
    BY <1>2, <1>4 DEF Emit
  <2>2. produced' \in cuts' /\ received \in Text
    BY <1>1 DEF Typed
  <2>3. WireIsNext'
    BY <1>1, <2>1, <2>2, WireStays
  <2> QED
    BY <1>1, <2>1, <2>3 DEF Typed
<1>5. CASE t # <<>>
  <2>1. wire' = Append(wire, Token(t)) /\ emitted' = TRUE
    BY <1>2, <1>5 DEF Emit
  <2>2. /\ IsBuffer(t)
        /\ \A p \in Range(t) : p \in 1 .. n /\ produced < p
        /\ Head(t) = produced + 1 \/ Kind(Head(t) - 1) = "newline"
        /\ \A i \in 1 .. Len(t) - 1 : t[i + 1] = t[i] + 1 \/ Kind(t[i + 1] - 1) = "newline"
    BY <1>2, <1>5, EmittedIs
  <2>3. IsToken(t)'
    <3>1. IsBuffer(t)'
      BY <1>1, <2>2 DEF IsBuffer, Ascending, Kind
    <3>2. Connected(t)'
      BY <1>1, <2>2 DEF Connected, Follows, Kind
    <3>3. Head(t) \in {0, 1} \/ Head(t) - 1 \in cuts' \/ (Kind(Head(t) - 1) = "newline")'
      <4>1. CASE Head(t) = produced + 1
        <5>1. produced = 0 \/ produced \in cuts
          BY DEF WireIsNext
        <5>2. Head(t) - 1 = produced
          BY <1>1, <4>1
        <5> QED
          BY <1>1, <4>1, <5>1, <5>2
      <4>2. CASE Kind(Head(t) - 1) = "newline"
        BY <1>1, <4>2 DEF Kind
      <4> QED
        BY <2>2, <4>1, <4>2
    <3> QED
      BY <1>1, <1>5, <2>2, <3>1, <3>2, <3>3 DEF IsToken, IsBuffer, Ascending, Connected, Follows, Kind
  <2>4. t \in Text /\ Token(t) \in Lines /\ Token(t).text = t /\ Token(t).kind = "token"
    BY <2>2 DEF IsBuffer, Token, Lines
  <2> DEFINE l == Len(wire)
             line == Token(t)
  <2> HIDE DEF line
  <2>5. /\ wire' \in Seq(Lines) /\ Len(wire') = l + 1 /\ l \in Nat
        /\ \A i \in 1 .. l : wire'[i] = wire[i]
        /\ wire'[l + 1] = line
    BY <1>1, <2>1, <2>4, AppendProperties, LenProperties DEF line
  <2>6. wire'[l + 1].text = t /\ wire'[l + 1].kind = "token"
    BY <2>4, <2>5 DEF line
  <2>7. \A i : i \in Tokens' <=> i \in Tokens \/ i = l + 1
    <3>1. \A i : i \in 1 .. l + 1 <=> i \in 1 .. l \/ i = l + 1
      BY <2>5
    <3> QED
      BY <2>5, <2>6, <3>1 DEF Tokens
  <2>8. \A i \in Tokens : wire'[i] = wire[i] /\ i \in 1 .. l /\ i < l + 1
    BY <2>5 DEF Tokens
  <2> HIDE DEF l
  <2>9. \A p \in Range(t) : p \in Nat /\ p # 0 /\ produced < p /\ p <= n
    BY <1>1, <2>2
  <2>10. t # Sorry
    <3>1. 0 \notin Range(t)
      BY <2>9
    <3>2. 0 \in Range(Sorry)
      BY DEF Sorry, Range
    <3> QED
      BY <3>1, <3>2
  <2>11. ASSUME agent = "reading" PROVE (agent = "reading" =>
          /\ \A p \in Range(received) : p <= produced
          /\ \A i \in Tokens : IsToken(wire[i].text) /\ Before(received, wire[i].text)
          /\ \A i, j \in Tokens : i < j => Before(wire[i].text, wire[j].text)
          /\ service = "streaming" /\ ~ emitted => received = <<>> /\ Tokens = {}
          /\ \A i \in Tokens : wire[i].text = Sorry => service = "over" /\ Tokens = {i}
          /\ 0 \in Range(received) => service = "over" /\ Tokens = {})'
    <3>1. /\ \A p \in Range(received) : p <= produced
          /\ \A i \in Tokens : IsToken(wire[i].text) /\ Before(received, wire[i].text)
          /\ \A i, j \in Tokens : i < j => Before(wire[i].text, wire[j].text)
          /\ \A i \in Tokens : wire[i].text # Sorry
          /\ 0 \notin Range(received)
      BY <1>1, <2>11 DEF WireIsNext
    <3>2. \A p \in Range(received) : p \in Nat /\ p <= produced
      BY <3>1, TextIs DEF Typed
    <3>3. (\A p \in Range(received) : p <= produced)'
      BY <1>1, <3>2
    <3>4. Before(received, t)
      BY <1>1, <2>9, <3>2 DEF Before
    <3>5. \A i \in Tokens : Before(wire[i].text, t)
      <4> SUFFICES ASSUME NEW i \in Tokens, NEW p \in Range(wire[i].text), NEW q \in Range(t)
                   PROVE  p < q
        BY DEF Before
      <4>1. p \in 1 .. produced
        BY <3>1 DEF IsToken
      <4> QED
        BY <1>1, <2>9, <4>1
    <3>6. \A i \in Tokens : IsToken(wire[i].text)'
      <4> SUFFICES ASSUME NEW i \in Tokens PROVE IsToken(wire[i].text)'
        OBVIOUS
      <4>1. PICK u : u = wire[i].text
        OBVIOUS
      <4>2. IsToken(u)'
        BY <1>1, <3>1, <4>1, TokenLater
      <4>3. wire'[i].text = u
        BY <2>8, <4>1
      <4> QED
        BY <4>2, <4>3 DEF IsToken, IsBuffer, Ascending, Connected, Follows, Kind
    <3>7. (\A i \in Tokens : IsToken(wire[i].text) /\ Before(received, wire[i].text))'
      <4> SUFFICES ASSUME NEW i \in Tokens'
                   PROVE  (IsToken(wire[i].text) /\ Before(received, wire[i].text))'
        OBVIOUS
      <4>1. CASE i \in Tokens
        BY <1>1, <2>8, <3>1, <3>6, <4>1 DEF Before
      <4>2. CASE i = l + 1
        <5>1. wire'[i].text = t
          BY <2>6, <4>2
        <5>2. IsToken(wire[i].text)'
          BY <2>3, <5>1 DEF IsToken, IsBuffer, Ascending, Connected, Follows, Kind
        <5>3. Before(received, wire[i].text)'
          BY <1>1, <3>4, <5>1 DEF Before
        <5> QED
          BY <5>2, <5>3
      <4> QED
        BY <2>7, <4>1, <4>2
    <3>8. (\A i, j \in Tokens : i < j => Before(wire[i].text, wire[j].text))'
      <4> SUFFICES ASSUME NEW i \in Tokens', NEW j \in Tokens', i < j
                   PROVE  Before(wire[i].text, wire[j].text)'
        OBVIOUS
      <4>1. i \in Tokens
        <5> SUFFICES ASSUME i = l + 1 PROVE FALSE
          BY <2>7
        <5>1. j \in Tokens \/ j = l + 1
          BY <2>7
        <5>2. j \in 1 .. l + 1 /\ l \in Nat
          BY <2>5 DEF Tokens
        <5> QED
          BY <5>2
      <4>2. CASE j \in Tokens
        BY <2>8, <3>1, <4>1, <4>2 DEF Before
      <4>3. CASE j = l + 1
        BY <2>6, <2>8, <3>5, <4>1, <4>3 DEF Before
      <4> QED
        BY <2>7, <4>2, <4>3
    <3>9. (\A i \in Tokens : wire[i].text # Sorry)'
      <4> SUFFICES ASSUME NEW i \in Tokens' PROVE wire'[i].text # Sorry
        BY DEF Sorry
      <4> QED
        BY <2>6, <2>7, <2>8, <2>10, <3>1
    <3>10. (0 \notin Range(received))'
      BY <1>1, <3>1
    <3>11. emitted'
      BY <2>1
    <3> QED
      BY <3>3, <3>7, <3>8, <3>9, <3>10, <3>11
  <2>12. (produced = 0 \/ produced \in cuts)'
    BY <1>1
  <2>13. WireIsNext'
    BY <1>1, <2>11, <2>12 DEF WireIsNext
  <2> QED
    BY <2>1, <2>5, <2>13
<1> QED
  BY <1>4, <1>5

LEMMA ReadTokenNext ==
    ASSUME Typed, Stages, WireIsNext, LineIsReply, ReadToken
    PROVE  WireIsNext' /\ wire' \in Seq(Lines)
<1>1. /\ wire \in Seq(Lines) /\ wire # <<>> /\ wire' = Tail(wire) /\ agent = "reading"
      /\ reply' = reply /\ cuts' = cuts /\ produced' = produced /\ service' = service
      /\ emitted' = emitted
  BY DEF Typed, Lines, ReadToken, serviceVars
<1>2. /\ 1 \in Tokens /\ wire[1].text \in Text
      /\ Range(received') = Range(received) \cup Range(wire[1].text)
  BY ReadTokenCuts
<1> DEFINE l == Len(wire)
<1>3. /\ wire' \in Seq(Lines) /\ Len(wire') = l - 1 /\ l \in Nat
      /\ \A i \in 1 .. l - 1 : wire'[i] = wire[i + 1]
  BY <1>1, HeadTailProperties, LenProperties
<1>4. \A i \in Tokens' : i \in Nat /\ i + 1 \in Tokens /\ wire'[i] = wire[i + 1] /\ i + 1 # 1
  <2> HIDE DEF l
  <2>1. \A i \in 1 .. l - 1 : i \in Nat /\ i + 1 \in 1 .. l /\ i + 1 # 1
    BY <1>3
  <2> QED
    BY <1>3, <2>1 DEF Tokens, l
<1> HIDE DEF l
<1>5. /\ \A p \in Range(received) : p <= produced
      /\ \A i \in Tokens : IsToken(wire[i].text) /\ Before(received, wire[i].text)
      /\ \A i, j \in Tokens : i < j => Before(wire[i].text, wire[j].text)
      /\ service = "streaming" => emitted
      /\ \A i \in Tokens : wire[i].text = Sorry => service = "over" /\ Tokens = {i}
      /\ 0 \notin Range(received)
  BY <1>1, <1>2 DEF WireIsNext
<1>6. produced \in Nat
  <2>1. Len(reply) \in Nat
    BY LenProperties DEF Typed
  <2> QED
    BY <2>1 DEF Typed
<1>7. \A p \in Range(wire[1].text) : p <= produced /\ (p = 0 => wire[1].text = Sorry)
  <2>1. IsToken(wire[1].text)
    BY <1>2, <1>5
  <2>2. CASE wire[1].text = Sorry
    <3>1. \A p \in Range(Sorry) : p = 0
      BY DEF Sorry, Range
    <3> QED
      BY <1>6, <2>2, <3>1
  <2>3. CASE Range(wire[1].text) \subseteq 1 .. produced
    BY <1>6, <2>3
  <2> QED
    BY <2>1, <2>2, <2>3 DEF IsToken
<1>8. (\A p \in Range(received) : p <= produced)'
  BY <1>1, <1>2, <1>5, <1>7
<1>9. (\A i \in Tokens : IsToken(wire[i].text) /\ Before(received, wire[i].text))'
  <2> SUFFICES ASSUME NEW i \in Tokens'
               PROVE  (IsToken(wire[i].text) /\ Before(received, wire[i].text))'
    OBVIOUS
  <2>1. PICK u : u = wire[i + 1].text
    OBVIOUS
  <2>2. /\ IsToken(u) /\ Before(received, u) /\ Before(wire[1].text, u) /\ wire'[i].text = u
    <3>1. 1 < i + 1 /\ i + 1 \in Tokens
      BY <1>4
    <3> QED
      BY <1>2, <1>4, <1>5, <2>1, <3>1
  <2>3. IsToken(u)'
    BY <1>1, <1>6, <2>2, TokenLater
  <2>4. Before(received, wire[i].text)'
    BY <1>2, <2>2 DEF Before
  <2> QED
    BY <2>2, <2>3, <2>4 DEF IsToken, IsBuffer, Ascending, Connected, Follows, Kind
<1>10. (\A i, j \in Tokens : i < j => Before(wire[i].text, wire[j].text))'
  <2> SUFFICES ASSUME NEW i \in Tokens', NEW j \in Tokens', i < j
               PROVE  Before(wire[i].text, wire[j].text)'
    OBVIOUS
  <2>1. i + 1 < j + 1
    BY <1>4
  <2>2. Before(wire[i + 1].text, wire[j + 1].text)
    BY <1>4, <1>5, <2>1
  <2> QED
    BY <1>4, <2>2 DEF Before
<1>11. (service = "streaming" => emitted)'
  BY <1>1, <1>5
<1>12. (\A i \in Tokens : wire[i].text # Sorry)'
  <2> SUFFICES ASSUME NEW i \in Tokens', wire'[i].text = Sorry PROVE FALSE
    BY DEF Sorry
  <2>1. i + 1 \in Tokens /\ wire[i + 1].text = Sorry /\ i + 1 # 1
    BY <1>4
  <2>2. Tokens = {i + 1}
    BY <1>5, <2>1
  <2> QED
    BY <1>2, <2>1, <2>2
<1>13. (0 \in Range(received) => service = "over" /\ Tokens = {})'
  <2> SUFFICES ASSUME 0 \in Range(received') PROVE service = "over" /\ Tokens' = {}
    BY <1>1
  <2>1. wire[1].text = Sorry
    BY <1>2, <1>5, <1>7
  <2>2. service = "over" /\ Tokens = {1}
    BY <1>2, <1>5, <2>1
  <2>3. \A i \in Tokens' : FALSE
    BY <1>4, <2>2
  <2> QED
    BY <2>2, <2>3
<1>14. (produced = 0 \/ produced \in cuts)'
  BY <1>1 DEF WireIsNext
<1>15. WireIsNext'
  BY <1>8, <1>9, <1>10, <1>11, <1>12, <1>13, <1>14 DEF WireIsNext
<1> QED
  BY <1>3, <1>15

\* v is w and more behind it, where the tokens at S are sorries.
Extends(v, w, S) ==
    /\ v \in Seq(Lines) /\ Len(w) <= Len(v)
    /\ \A i \in 1 .. Len(w) : v[i] = w[i]
    /\ S = {i \in Len(w) + 1 .. Len(v) : v[i].kind = "token"}
    /\ \A i \in S : v[i].text = Sorry

LEMMA ExtendsOn ==
    ASSUME NEW w \in Seq(Lines), NEW v, NEW S, Extends(v, w, S),
           NEW x \in Seq(Lines), NEW T, T = {k \in 1 .. Len(x) : x[k].kind = "token"},
           \A k \in T : x[k].text = Sorry
    PROVE  Extends(v \o x, w, S \cup {Len(v) + k : k \in T})
<1> DEFINE u == v \o x
           U == S \cup {Len(v) + k : k \in T}
           a == Len(w)
           b == Len(v)
           c == Len(x)
<1>1. /\ v \in Seq(Lines) /\ a \in Nat /\ b \in Nat /\ c \in Nat /\ a <= b
      /\ \A i \in 1 .. a : v[i] = w[i]
      /\ S = {i \in a + 1 .. b : v[i].kind = "token"}
      /\ \A i \in S : v[i].text = Sorry
  BY LenProperties DEF Extends
<1>2. /\ u \in Seq(Lines) /\ Len(u) = b + c
      /\ \A i \in 1 .. b + c : u[i] = IF i <= b THEN v[i] ELSE x[i - b]
  BY <1>1, ConcatProperties
<1> HIDE DEF u, a, b, c
<1>3. \A i \in 1 .. b : u[i] = v[i] /\ i \in 1 .. b + c
  BY <1>1, <1>2
<1>4. \A k \in 1 .. c : u[b + k] = x[k] /\ b + k \in a + 1 .. b + c
  <2> SUFFICES ASSUME NEW k \in 1 .. c PROVE u[b + k] = x[k] /\ b + k \in a + 1 .. b + c
    OBVIOUS
  <2>1. b + k \in 1 .. b + c /\ ~ (b + k <= b) /\ (b + k) - b = k /\ b + k \in a + 1 .. b + c
    BY <1>1
  <2>2. u[b + k] = x[(b + k) - b]
    BY <1>2, <2>1
  <2> QED
    BY <2>1, <2>2
<1>5. \A i \in a + 1 .. b + c : i \in a + 1 .. b \/ (i - b \in 1 .. c /\ b + (i - b) = i)
  BY <1>1
<1>6. \A i \in a + 1 .. b : i \in 1 .. b /\ i \in a + 1 .. b + c
  BY <1>1
<1>7. T = {k \in 1 .. c : x[k].kind = "token"}
  BY DEF c
<1>8. U = {i \in a + 1 .. b + c : u[i].kind = "token"}
  <2>1. ASSUME NEW i \in U PROVE i \in a + 1 .. b + c /\ u[i].kind = "token"
    <3>1. CASE i \in S
      BY <1>1, <1>3, <1>6, <3>1
    <3>2. CASE i \notin S
      <4>1. PICK k \in T : i = b + k
        BY <2>1, <3>2 DEF b
      <4> QED
        BY <1>4, <1>7, <4>1
    <3> QED
      BY <3>1, <3>2
  <2>2. ASSUME NEW i \in a + 1 .. b + c, u[i].kind = "token" PROVE i \in U
    <3>1. CASE i \in a + 1 .. b
      <4>1. i \in S
        BY <1>1, <1>3, <1>6, <2>2, <3>1
      <4> QED
        BY <4>1
    <3>2. CASE i \notin a + 1 .. b
      <4>1. i - b \in 1 .. c /\ b + (i - b) = i
        BY <1>5, <3>2
      <4>2. i - b \in T
        BY <1>4, <1>7, <2>2, <4>1
      <4> QED
        BY <4>1, <4>2 DEF b
    <3> QED
      BY <3>1, <3>2
  <2> HIDE DEF U
  <2> QED
    BY <2>1, <2>2
<1>9. ASSUME NEW i \in U PROVE u[i].text = Sorry
  <2>1. CASE i \in S
    BY <1>1, <1>3, <1>6, <2>1
  <2>2. CASE i \notin S
    <3>1. PICK k \in T : i = b + k
      BY <1>9, <2>2 DEF b
    <3> QED
      BY <1>4, <1>7, <3>1
  <2> QED
    BY <2>1, <2>2
<1>10. \A i \in 1 .. a : u[i] = w[i]
  <2>1. \A i \in 1 .. a : i \in 1 .. b
    BY <1>1
  <2> QED
    BY <1>1, <1>3, <2>1
<1>11. a <= b + c
  BY <1>1
<1> HIDE DEF U
<1>12. Extends(u, w, U)
  BY <1>2, <1>8, <1>9, <1>10, <1>11 DEF Extends, a
<1> QED
  BY <1>12 DEF u, U

\* The service is over: it said sorry if there was no token.
LEMMA OverNext ==
    ASSUME Typed, WireIsNext, reply' = reply, cuts' = cuts, produced' = produced,
           agent' = agent, received' = received, service' = "over",
           NEW S, Extends(wire', wire, S), S = {} \/ (~ emitted /\ service = "streaming" /\ \E m : S = {m})
    PROVE  WireIsNext'
<1>1. /\ wire \in Seq(Lines) /\ wire' \in Seq(Lines) /\ Len(wire) \in Nat /\ Len(wire') \in Nat
      /\ Len(wire) <= Len(wire')
      /\ \A i \in 1 .. Len(wire) : wire'[i] = wire[i]
      /\ S = {i \in Len(wire) + 1 .. Len(wire') : wire'[i].kind = "token"}
      /\ \A i \in S : wire'[i].text = Sorry
  BY LenProperties DEF Extends, Typed, Lines
<1>2. \A i : i \in Tokens' <=> i \in Tokens \/ i \in S
  <2>1. \A i : i \in 1 .. Len(wire') <=> i \in 1 .. Len(wire) \/ i \in Len(wire) + 1 .. Len(wire')
    BY <1>1
  <2> QED
    BY <1>1, <2>1 DEF Tokens
<1>3. \A i \in Tokens : wire'[i] = wire[i]
  BY <1>1 DEF Tokens
<1>4. produced \in Nat
  <2>1. Len(reply) \in Nat
    BY LenProperties DEF Typed
  <2> QED
    BY <2>1 DEF Typed
<1> SUFFICES ASSUME agent = "reading"
             PROVE  /\ (\A p \in Range(received) : p <= produced)'
                    /\ (\A i \in Tokens : IsToken(wire[i].text) /\ Before(received, wire[i].text))'
                    /\ (\A i, j \in Tokens : i < j => Before(wire[i].text, wire[j].text))'
                    /\ (\A i \in Tokens : wire[i].text = Sorry => Tokens = {i})'
                    /\ (0 \in Range(received) => Tokens = {})'
  BY DEF WireIsNext
<1>5. /\ \A p \in Range(received) : p <= produced
      /\ \A i \in Tokens : IsToken(wire[i].text) /\ Before(received, wire[i].text)
      /\ \A i, j \in Tokens : i < j => Before(wire[i].text, wire[j].text)
      /\ \A i \in Tokens : wire[i].text = Sorry => Tokens = {i}
      /\ 0 \in Range(received) => Tokens = {}
      /\ S # {} => received = <<>> /\ Tokens = {}
  BY DEF WireIsNext
<1>6. (\A p \in Range(received) : p <= produced)'
  BY <1>5
<1>7. IsToken(Sorry)'
  <2>1. Sorry \in Text /\ Len(Sorry) = 1 /\ Sorry[1] = 0 /\ Head(Sorry) = 0 /\ Sorry # <<>>
        /\ DOMAIN Sorry = 1 .. 1
    BY StreamAssumption DEF Sorry, Text
  <2>2. IsBuffer(Sorry)'
    BY <2>1 DEF IsBuffer, Ascending, Kind, Text, Sorry
  <2>3. Connected(Sorry)'
    BY <2>1 DEF Connected, Follows, Kind, Sorry
  <2> QED
    BY <2>1, <2>2, <2>3 DEF IsToken, Sorry
<1>8. (\A i \in Tokens : IsToken(wire[i].text) /\ Before(received, wire[i].text))'
  <2> SUFFICES ASSUME NEW i \in Tokens'
               PROVE  (IsToken(wire[i].text) /\ Before(received, wire[i].text))'
    OBVIOUS
  <2>1. CASE i \in Tokens
    <3>1. PICK u : u = wire[i].text
      OBVIOUS
    <3>2. IsToken(u) /\ Before(received, u) /\ wire'[i].text = u
      BY <1>3, <1>5, <2>1, <3>1
    <3>3. IsToken(u)'
      BY <1>4, <3>2, TokenLater
    <3> QED
      BY <3>2, <3>3 DEF IsToken, IsBuffer, Ascending, Connected, Follows, Kind, Before
  <2>2. CASE i \in S
    <3>1. wire'[i].text = Sorry /\ received = <<>>
      BY <1>1, <1>5, <2>2
    <3>2. Range(<<>>) = {}
      BY DEF Range
    <3>3. Before(received, wire[i].text)'
      BY <3>1, <3>2 DEF Before
    <3>4. IsToken(wire[i].text)'
      BY <1>7, <3>1 DEF IsToken, IsBuffer, Ascending, Connected, Follows, Kind, Sorry
    <3> QED
      BY <3>3, <3>4
  <2> QED
    BY <1>2, <2>1, <2>2
<1>9. CASE S = {}
  <2>1. Tokens' = Tokens
    BY <1>2, <1>9
  <2>2. (\A i, j \in Tokens : i < j => Before(wire[i].text, wire[j].text))'
    BY <1>3, <1>5, <2>1 DEF Before
  <2>3. (\A i \in Tokens : wire[i].text = Sorry => Tokens = {i})'
    BY <1>3, <1>5, <2>1 DEF Sorry
  <2> QED
    BY <1>5, <1>6, <1>8, <2>1, <2>2, <2>3
<1>10. CASE S # {}
  <2>1. received = <<>> /\ Tokens = {} /\ \E m : S = {m}
    BY <1>5, <1>10
  <2>2. PICK m : S = {m}
    BY <2>1
  <2>3. Tokens' = {m} /\ m \in Nat
    BY <1>1, <1>2, <2>1, <2>2
  <2>4. (\A i, j \in Tokens : i < j => Before(wire[i].text, wire[j].text))'
    BY <2>3
  <2>5. (\A i \in Tokens : wire[i].text = Sorry => Tokens = {i})'
    BY <2>3
  <2>6. 0 \notin Range(<<>>)
    BY DEF Range
  <2> QED
    BY <1>6, <1>8, <2>1, <2>4, <2>5, <2>6
<1> QED
  BY <1>9, <1>10

LEMMA MarksAre ==
    ASSUME NEW kind \in {"done", "error", "closed"}
    PROVE  /\ <<Mark(kind)>> \in Seq(Lines) /\ Len(<<Mark(kind)>>) = 1
           /\ {k \in 1 .. Len(<<Mark(kind)>>) : <<Mark(kind)>>[k].kind = "token"} = {}
<1>1. Mark(kind) \in Lines /\ Mark(kind).kind # "token"
  BY EmptySeq DEF Mark, Lines, Text
<1> DEFINE m == Mark(kind)
<1> HIDE DEF m
<1>2. <<m>> \in Seq(Lines) /\ Len(<<m>>) = 1 /\ <<m>>[1] = m
  BY <1>1 DEF m
<1>3. {k \in 1 .. Len(<<m>>) : <<m>>[k].kind = "token"} = {}
  BY <1>1, <1>2 DEF m
<1> QED
  BY <1>2, <1>3 DEF m

LEMMA ServiceFailsNext ==
    ASSUME Typed, WireIsNext, ServiceFails
    PROVE  WireIsNext' /\ wire' \in Seq(Lines)
<1>1. /\ reply' = reply /\ cuts' = cuts /\ produced' = produced /\ agent' = agent
      /\ received' = received /\ service' = "over" /\ wire' = Append(wire, Mark("error"))
      /\ wire \in Seq(Lines)
  BY DEF ServiceFails, Typed, Lines
<1>2. PICK x : x = <<Mark("error")>>
  OBVIOUS
<1>3. x \in Seq(Lines) /\ {k \in 1 .. Len(x) : x[k].kind = "token"} = {} /\ wire' = wire \o x
  <2>1. Mark("error") \in Lines
    BY EmptySeq DEF Mark, Lines, Text
  <2> QED
    BY <1>1, <1>2, <2>1, MarksAre, AppendIs
<1>4. Extends(wire, wire, {})
  BY <1>1, LenProperties DEF Extends
<1>5. PICK T : T = {k \in 1 .. Len(x) : x[k].kind = "token"}
  OBVIOUS
<1>6. Extends(wire \o x, wire, {} \cup {Len(wire) + k : k \in T})
  BY <1>1, <1>3, <1>4, <1>5, ExtendsOn
<1>7. {} \cup {Len(wire) + k : k \in T} = {}
  BY <1>3, <1>5
<1>8. Extends(wire', wire, {})
  BY <1>3, <1>6, <1>7
<1> QED
  BY <1>1, <1>8, OverNext DEF Extends

LEMMA FinishNext ==
    ASSUME Typed, WireIsNext, NEW announced \in BOOLEAN, Finish(announced)
    PROVE  WireIsNext' /\ wire' \in Seq(Lines)
<1>1. /\ reply' = reply /\ cuts' = cuts /\ produced' = produced /\ agent' = agent
      /\ received' = received /\ service' = "over" /\ service = "streaming"
      /\ wire \in Seq(Lines) /\ emitted \in BOOLEAN
  BY DEF Finish, Typed, Lines
<1>2. PICK x : x = IF announced THEN <<Mark("done")>> ELSE <<>>
  OBVIOUS
<1>3. PICK y : y = IF emitted THEN <<>> ELSE <<Token(Sorry), Mark("done")>>
  OBVIOUS
<1>4. PICK z : z = <<Mark("closed")>>
  OBVIOUS
<1>5. wire' = ((wire \o x) \o y) \o z
  BY <1>2, <1>3, <1>4 DEF Finish
<1>6. /\ x \in Seq(Lines) /\ {k \in 1 .. Len(x) : x[k].kind = "token"} = {}
      /\ z \in Seq(Lines) /\ {k \in 1 .. Len(z) : z[k].kind = "token"} = {}
  <2>1. <<>> \in Seq(Lines) /\ {k \in 1 .. Len(<<>>) : <<>>[k].kind = "token"} = {}
    BY EmptySeq
  <2> QED
    BY <1>2, <1>4, <2>1, MarksAre
<1>7. /\ y \in Seq(Lines)
      /\ emitted => {k \in 1 .. Len(y) : y[k].kind = "token"} = {}
      /\ ~ emitted => {k \in 1 .. Len(y) : y[k].kind = "token"} = {1}
      /\ \A k \in 1 .. Len(y) : y[k].kind = "token" => y[k].text = Sorry
  <2>1. CASE emitted
    BY <1>3, <2>1, EmptySeq
  <2>2. CASE ~ emitted
    <3> DEFINE s == Token(Sorry)
               d == Mark("done")
    <3>1. Sorry \in Text /\ <<>> \in Text
      BY StreamAssumption, EmptySeq DEF Sorry, Text
    <3>2. s \in Lines /\ d \in Lines /\ s.kind = "token" /\ s.text = Sorry /\ d.kind = "done"
      BY <3>1 DEF Token, Mark, Lines
    <3> HIDE DEF s, d
    <3>3. y = <<s, d>>
      BY <1>3, <2>2 DEF s, d
    <3>4. y \in Seq(Lines) /\ Len(y) = 2 /\ y[1] = s /\ y[2] = d
      BY <3>2, <3>3
    <3>5. \A k \in 1 .. 2 : k = 1 \/ k = 2
      OBVIOUS
    <3>6. {k \in 1 .. Len(y) : y[k].kind = "token"} = {1}
      BY <3>2, <3>4, <3>5
    <3> QED
      BY <2>2, <3>2, <3>4, <3>5, <3>6
  <2> QED
    BY <1>1, <2>1, <2>2
<1>8. Extends(wire, wire, {})
  BY <1>1, LenProperties DEF Extends
<1>9. ASSUME NEW v, NEW u, NEW S, Extends(v, wire, S), u \in Seq(Lines),
             {k \in 1 .. Len(u) : u[k].kind = "token"} = {}
      PROVE  Extends(v \o u, wire, S)
  <2>1. PICK T : T = {k \in 1 .. Len(u) : u[k].kind = "token"}
    OBVIOUS
  <2>2. T = {}
    BY <1>9, <2>1
  <2>3. \A k \in T : u[k].text = Sorry
    BY <2>2
  <2>4. Extends(v \o u, wire, S \cup {Len(v) + k : k \in T})
    BY <1>1, <1>9, <2>1, <2>3, ExtendsOn
  <2>5. S \cup {Len(v) + k : k \in T} = S
    BY <2>2
  <2> QED
    BY <2>4, <2>5
<1>10. PICK v : v = wire \o x
  OBVIOUS
<1>11. Extends(v, wire, {})
  BY <1>6, <1>8, <1>9, <1>10
<1>12. PICK S : Extends(v \o y, wire, S) /\ (S = {} \/ (~ emitted /\ \E m : S = {m}))
  <2>1. CASE emitted
    <3>1. Extends(v \o y, wire, {})
      BY <1>7, <1>9, <1>11, <2>1
    <3> QED
      BY <3>1
  <2>2. CASE ~ emitted
    <3>1. PICK T : T = {k \in 1 .. Len(y) : y[k].kind = "token"}
      OBVIOUS
    <3>2. T = {1} /\ \A k \in T : y[k].text = Sorry
      BY <1>7, <2>2, <3>1
    <3>3. Extends(v \o y, wire, {} \cup {Len(v) + k : k \in T})
      BY <1>1, <1>7, <1>11, <3>1, <3>2, ExtendsOn
    <3>4. {} \cup {Len(v) + k : k \in T} = {Len(v) + 1}
      BY <3>2
    <3>5. Extends(v \o y, wire, {Len(v) + 1})
      BY <3>3, <3>4
    <3> QED
      BY <2>2, <3>5
  <2> QED
    BY <1>1, <2>1, <2>2
<1>13. Extends((v \o y) \o z, wire, S)
  BY <1>6, <1>9, <1>12
<1>14. Extends(wire', wire, S)
  BY <1>5, <1>10, <1>13
<1>15. S = {} \/ (~ emitted /\ service = "streaming" /\ \E m : S = {m})
  BY <1>1, <1>12
<1> QED
  BY <1>1, <1>14, <1>15, OverNext DEF Extends

----------------------------------------------------------------------------
(* The invariant holds                                                        *)

LEMMA InitIInv == Init => IInv
<1> SUFFICES ASSUME Init PROVE IInv
  OBVIOUS
<1>1. /\ produced = 0 /\ cuts = {} /\ service = "streaming" /\ emitted = FALSE
      /\ wire = <<>> /\ agent = "reading" /\ received = <<>>
      /\ rest = [chunks |-> <<>>, pending |-> <<>>] /\ queue = <<>> /\ speaker = "waiting"
      /\ said = <<>>
  BY DEF Init
<1>2. PICK n \in 0 .. MaxLength : reply \in [1 .. n -> Kinds]
  BY DEF Init
<1>3. reply \in Seq(Kinds) /\ Len(reply) = n /\ n \in Nat /\ n <= MaxLength
  BY <1>2, StreamAssumption
<1>4. /\ <<>> \in Text /\ <<>> \in Seq(Text) /\ Len(<<>>) = 0 /\ Range(<<>>) = {} /\ QueueSize \in Nat
      /\ <<>> \in Seq([kind : {"token", "done", "error", "closed"}, text : Text])
  BY EmptySeq, StreamAssumption DEF Text, Range
<1>5. Typed
  <2>1. reply \in Seq(Kinds) /\ Len(reply) <= MaxLength /\ produced \in 0 .. Len(reply)
        /\ cuts \subseteq 1 .. produced
    BY <1>1, <1>3
  <2>2. rest \in [chunks : Seq(Text), pending : Text]
    BY <1>1, <1>4
  <2>3. queue \in Seq(Text) /\ Len(queue) <= QueueSize /\ received \in Text /\ said \in Seq(Text)
        /\ wire \in Seq([kind : {"token", "done", "error", "closed"}, text : Text])
    BY <1>1, <1>4
  <2> QED
    BY <1>1, <2>1, <2>2, <2>3 DEF Typed
<1>6. Stages
  BY <1>1 DEF Stages
<1>7. WireIsNext
  BY <1>1, <1>4 DEF WireIsNext, Tokens
<1>8. Queued = <<>> /\ Chunks = <<>> /\ Line = <<>>
  BY <1>1, <1>4, ConcatEmptySeq DEF Queued, Chunks, Line, PiecesOf
<1>9. InLine(Line) /\ Cover(Line, received) /\ IsBuffer(received)
  BY <1>1, <1>4, <1>8 DEF InLine, Cover, IsBuffer, Ascending
<1>10. LineIsReply
  BY <1>8, <1>9 DEF LineIsReply
<1> QED
  BY <1>5, <1>6, <1>7, <1>10 DEF IInv

LEMMA LineNext ==
    ASSUME IInv, [Next]_vars
    PROVE  LineIsReply'
<1> USE DEF IInv
<1>1. ASSUME ServiceStep PROVE LineIsReply'
  <2>1. /\ reply' = reply /\ cuts \subseteq cuts' /\ agent' = agent /\ received' = received
        /\ rest' = rest /\ queue' = queue /\ said' = said
    BY <1>1 DEF ServiceStep, Emit, Finish, ServiceFails
  <2>2. Chunks' = Chunks
    BY <2>1 DEF Chunks, Queued, Last, Front
  <2> QED
    BY <2>1, <2>2, Kept
<1>2. CASE ReadToken
  BY <1>2, ReadTokenCuts
<1>3. CASE StreamEnds
  BY <1>3, StreamEndsCuts
<1>4. CASE PutChunk
  <2>1. /\ reply' = reply /\ cuts \subseteq cuts' /\ agent' = agent /\ received' = received
        /\ rest'.pending = rest.pending
    BY <1>4 DEF PutChunk, serviceVars, Typed
  <2> QED
    BY <1>4, <2>1, PutChunkKeeps, Kept
<1>5. CASE PutNone
  <2>1. /\ reply' = reply /\ cuts \subseteq cuts' /\ agent' # "reading" /\ received' = received
        /\ rest' = rest
    BY <1>5 DEF PutNone, serviceVars
  <2> QED
    BY <1>5, <2>1, PutNoneKeeps, Kept
<1>6. CASE Join
  BY <1>6, JoinKeeps
<1>7. CASE TakeChunk
  <2>1. /\ reply' = reply /\ cuts \subseteq cuts' /\ agent' = agent /\ received' = received
        /\ rest' = rest
    BY <1>7 DEF TakeChunk, serviceVars
  <2> QED
    BY <1>7, <2>1, TakeChunkKeeps, Kept
<1>8. ASSUME FallbackSpoken \/ ChunkSpoken \/ Done \/ UNCHANGED vars PROVE LineIsReply'
  <2>1. /\ reply' = reply /\ cuts \subseteq cuts' /\ (agent' = "reading" => agent = "reading")
        /\ received' = received /\ rest' = rest /\ queue' = queue /\ said' = said
    BY <1>8 DEF FallbackSpoken, ChunkSpoken, Done, serviceVars, vars
  <2>2. Chunks' = Chunks
    BY <2>1 DEF Chunks, Queued, Last, Front
  <2> QED
    BY <2>1, <2>2, Kept
<1> QED
  BY <1>1, <1>2, <1>3, <1>4, <1>5, <1>6, <1>7, <1>8 DEF Next, AgentStep, SpeakerStep

LEMMA WireNext ==
    ASSUME IInv, [Next]_vars
    PROVE  WireIsNext' /\ wire' \in Seq(Lines) /\ emitted' \in BOOLEAN
<1> USE DEF IInv
<1>1. wire \in Seq(Lines) /\ emitted \in BOOLEAN /\ received \in Text /\ <<>> \in Seq(Lines)
      /\ produced \in Nat
  <2>1. Len(reply) \in Nat
    BY LenProperties DEF Typed
  <2> QED
    BY <2>1, EmptySeq DEF Typed, Lines
<1>2. CASE ServiceStep
  <2>1. ASSUME NEW n \in produced + 1 .. Len(reply), Emit(n)
        PROVE  WireIsNext' /\ wire' \in Seq(Lines) /\ emitted' \in BOOLEAN
    BY <2>1, EmitNext
  <2>2. ASSUME NEW announced \in BOOLEAN, Finish(announced)
        PROVE  WireIsNext' /\ wire' \in Seq(Lines) /\ emitted' \in BOOLEAN
    BY <1>1, <2>2, FinishNext DEF Finish
  <2>3. CASE ServiceFails
    BY <1>1, <2>3, ServiceFailsNext DEF ServiceFails
  <2> QED
    BY <1>2, <2>1, <2>2, <2>3 DEF ServiceStep
<1>3. CASE ReadToken
  <2>1. WireIsNext' /\ wire' \in Seq(Lines)
    BY <1>3, ReadTokenNext
  <2> QED
    BY <1>1, <1>3, <2>1 DEF ReadToken, serviceVars
<1>4. ASSUME \/ StreamEnds \/ PutChunk \/ PutNone \/ Join \/ FallbackSpoken
             \/ SpeakerStep \/ Done \/ UNCHANGED vars
      PROVE  WireIsNext' /\ wire' \in Seq(Lines) /\ emitted' \in BOOLEAN
  <2>1. /\ reply' = reply /\ cuts' = cuts /\ produced' = produced /\ service' = service
        /\ emitted' = emitted /\ wire' \in {wire, <<>>}
        /\ agent' = "reading" => agent = "reading" /\ wire' = wire /\ received' = received
    <3>1. CASE StreamEnds
      BY <3>1 DEF StreamEnds, serviceVars
    <3>2. CASE PutChunk \/ PutNone \/ FallbackSpoken
      BY <3>2 DEF PutChunk, PutNone, FallbackSpoken, serviceVars
    <3>3. CASE Join
      BY <3>3 DEF Join, serviceVars
    <3>4. CASE SpeakerStep
      BY <3>4 DEF SpeakerStep, TakeChunk, ChunkSpoken, serviceVars
    <3>5. CASE Done \/ UNCHANGED vars
      BY <3>5 DEF Done, vars, serviceVars
    <3> QED
      BY <1>4, <3>1, <3>2, <3>3, <3>4, <3>5
  <2>2. produced' = 0 \/ produced' \in cuts'
    BY <2>1 DEF WireIsNext
  <2>3. WireIsNext'
    BY <1>1, <2>1, <2>2, WireStays
  <2> QED
    BY <1>1, <2>1, <2>3
<1> QED
  BY <1>2, <1>3, <1>4 DEF Next, AgentStep

LEMMA StagesNext ==
    ASSUME IInv, [Next]_vars
    PROVE  Stages'
<1>1. Typed /\ Stages /\ LineIsReply
  BY DEF IInv
<1>2. CASE ServiceStep
  BY <1>1, <1>2 DEF Stages, ServiceStep, Emit, Finish, ServiceFails
<1>3. CASE ReadToken
  BY <1>1, <1>3 DEF Stages, ReadToken
<1>4. CASE StreamEnds
  <2>1. rest'.pending = <<>>
    BY <1>1, <1>4, StreamEndsCuts
  <2> QED
    BY <1>1, <1>4, <2>1 DEF Stages, StreamEnds
<1>5. CASE PutChunk
  <2>1. /\ queue \in Seq(Text) /\ rest.chunks \in Seq(Text) /\ rest.chunks # <<>>
        /\ \A k \in 1 .. Len(rest.chunks) : rest.chunks[k] # <<>>
    BY <1>1, <1>5, QueueIs DEF PutChunk
  <2>2. Head(rest.chunks) \in Text /\ Head(rest.chunks) # None
    <3>1. 1 \in 1 .. Len(rest.chunks) /\ Head(rest.chunks) = rest.chunks[1]
      BY <2>1, EmptySeq
    <3> QED
      BY <2>1, <3>1, ElementOfSeq DEF None
  <2>3. rest'.pending = rest.pending /\ agent' = agent /\ speaker' = speaker
        /\ queue' = Append(queue, Head(rest.chunks)) /\ agent \in {"reading", "flushing"}
    BY <1>1, <1>5 DEF PutChunk, Typed, Stages
  <2>4. /\ Len(queue') = Len(queue) + 1 /\ Len(queue) \in Nat
        /\ \A i \in 1 .. Len(queue) : queue'[i] = queue[i]
        /\ queue'[Len(queue) + 1] # None
    BY <2>1, <2>2, <2>3, AppendProperties, LenProperties
  <2>5. \A i \in 1 .. Len(queue) : queue[i] # None
    BY <1>1, <2>3 DEF Stages
  <2>6. \A i \in 1 .. Len(queue') : queue'[i] # None
    <3>1. \A i \in 1 .. Len(queue) + 1 : i \in 1 .. Len(queue) \/ i = Len(queue) + 1
      BY <2>4
    <3> QED
      BY <2>4, <2>5, <3>1
  <2>7. speaker # "ended"
    BY <1>1, <2>3 DEF Stages
  <2> QED
    BY <1>1, <2>3, <2>6, <2>7 DEF Stages, None
<1>6. CASE PutNone
  <2>1. /\ queue \in Seq(Text) /\ None \in Text /\ agent = "flushing" /\ agent' = "joining"
        /\ rest' = rest /\ rest.chunks = <<>> /\ rest.pending = <<>> /\ speaker' = speaker
        /\ speaker # "ended" /\ queue' = Append(queue, None)
    BY <1>1, <1>6, EmptySeq DEF PutNone, Typed, Stages, Text, None
  <2>2. /\ Len(queue') = Len(queue) + 1 /\ Len(queue) \in Nat
        /\ \A i \in 1 .. Len(queue) : queue'[i] = queue[i] /\ queue[i] # None
    BY <1>1, <2>1, AppendProperties, LenProperties DEF Stages
  <2>3. \A i \in 1 .. Len(queue') : queue'[i] = None => i = Len(queue')
    <3>1. \A i \in 1 .. Len(queue) + 1 : i \in 1 .. Len(queue) \/ i = Len(queue) + 1
      BY <2>2
    <3> QED
      BY <2>2, <3>1
  <2> QED
    BY <2>1, <2>3 DEF Stages, None
<1>7. CASE Join
  BY <1>1, <1>7 DEF Stages, Join
<1>8. CASE FallbackSpoken
  BY <1>1, <1>8 DEF Stages, FallbackSpoken
<1>9. CASE TakeChunk
  <2>1. /\ queue \in Seq(Text) /\ queue # <<>> /\ queue' = Tail(queue)
        /\ agent' = agent /\ rest' = rest /\ speaker = "waiting"
        /\ speaker' = IF Head(queue) = None THEN "ended" ELSE "speaking"
    BY <1>1, <1>9 DEF TakeChunk, Typed
  <2>2. /\ Len(queue) \in Nat \ {0} /\ Head(queue) = queue[1] /\ queue' \in Seq(Text)
        /\ Len(queue') = Len(queue) - 1 /\ \A i \in 1 .. Len(queue) - 1 : queue'[i] = queue[i + 1]
    BY <2>1, EmptySeq, HeadTailProperties
  <2>3. \A i \in 1 .. Len(queue') : queue'[i] = None => i = Len(queue') /\ agent' = "joining"
    <3>1. \A i \in 1 .. Len(queue) - 1 : i + 1 \in 1 .. Len(queue) /\ (i + 1 = Len(queue) => i = Len(queue) - 1)
      BY <2>2
    <3> QED
      BY <1>1, <2>1, <2>2, <3>1 DEF Stages
  <2>4. Head(queue) = None => queue' = <<>> /\ agent = "joining"
    <3> SUFFICES ASSUME Head(queue) = None PROVE queue' = <<>> /\ agent = "joining"
      OBVIOUS
    <3>1. 1 \in 1 .. Len(queue)
      BY <2>2
    <3>2. 1 = Len(queue) /\ agent = "joining"
      BY <1>1, <2>2, <3>1 DEF Stages
    <3>3. Len(queue') = 0
      <4>1. Len(queue) - 1 = 0
        BY ONLY <3>2
      <4>2. Len(queue') = Len(queue) - 1
        BY <2>2
      <4> QED
        BY ONLY <4>1, <4>2
    <3> QED
      BY <2>2, <3>2, <3>3, EmptySeq
  <2> QED
    BY <1>1, <2>1, <2>3, <2>4 DEF Stages, None
<1>10. CASE ChunkSpoken
  BY <1>1, <1>10 DEF Stages, ChunkSpoken
<1>11. CASE Done \/ UNCHANGED vars
  BY <1>1, <1>11 DEF Stages, Done, vars, None
<1> QED
  BY <1>2, <1>3, <1>4, <1>5, <1>6, <1>7, <1>8, <1>9, <1>10, <1>11 DEF Next, AgentStep, SpeakerStep

LEMMA TypedNext ==
    ASSUME IInv, [Next]_vars
    PROVE  Typed'
<1>1. Typed /\ Stages /\ LineIsReply /\ WireIsNext
  BY DEF IInv
<1>2. /\ wire' \in Seq([kind : {"token", "done", "error", "closed"}, text : Text])
      /\ emitted' \in BOOLEAN
  BY WireNext DEF Lines
<1>3. CASE ServiceStep
  <2>1. ASSUME NEW n \in produced + 1 .. Len(reply), Emit(n) PROVE Typed'
    <3>1. Len(reply) \in Nat /\ produced \in Nat /\ cuts \subseteq 1 .. produced
      BY <1>1, LenProperties DEF Typed
    <3>2. n \in 0 .. Len(reply) /\ cuts \cup {n} \subseteq 1 .. n
      BY <3>1
    <3> QED
      BY <1>1, <1>2, <2>1, <3>2 DEF Typed, Emit
  <2>2. ASSUME NEW announced \in BOOLEAN, Finish(announced) PROVE Typed'
    BY <1>1, <1>2, <2>2 DEF Typed, Finish
  <2>3. CASE ServiceFails
    BY <1>1, <1>2, <2>3 DEF Typed, ServiceFails
  <2> QED
    BY <1>3, <2>1, <2>2, <2>3 DEF ServiceStep
<1>4. CASE ReadToken
  <2>1. rest' \in [chunks : Seq(Text), pending : Text] /\ received' \in Text
    BY <1>1, <1>4, ReadTokenCuts
  <2> QED
    BY <1>1, <1>2, <1>4, <2>1 DEF Typed, ReadToken, serviceVars
<1>5. CASE StreamEnds
  <2>1. rest' \in [chunks : Seq(Text), pending : Text]
    <3>1. rest' \in [chunks : Seq(Text), pending : {<<>>}] /\ <<>> \in Text
      BY <1>1, <1>5, StreamEndsCuts, EmptySeq DEF Text
    <3> QED
      BY <3>1
  <2> QED
    BY <1>1, <1>2, <1>5, <2>1 DEF Typed, StreamEnds, serviceVars
<1>6. CASE PutChunk
  <2>1. /\ queue \in Seq(Text) /\ rest \in [chunks : Seq(Text), pending : Text]
        /\ rest.chunks # <<>> /\ Len(queue) < QueueSize /\ QueueSize \in Nat
        /\ queue' = Append(queue, Head(rest.chunks))
        /\ rest' = [rest EXCEPT !.chunks = Tail(rest.chunks)]
    BY <1>1, <1>6, StreamAssumption DEF PutChunk, Typed
  <2>2. Head(rest.chunks) \in Text /\ Tail(rest.chunks) \in Seq(Text)
    BY <2>1, HeadTailProperties
  <2>3. queue' \in Seq(Text) /\ Len(queue') = Len(queue) + 1 /\ Len(queue) \in Nat
    BY <2>1, <2>2, AppendProperties, LenProperties
  <2>4. Len(queue') <= QueueSize
    BY <2>1, <2>3
  <2>5. rest' \in [chunks : Seq(Text), pending : Text]
    BY <2>1, <2>2
  <2> QED
    BY <1>1, <1>2, <1>6, <2>3, <2>4, <2>5 DEF Typed, PutChunk, serviceVars
<1>7. CASE PutNone
  <2>1. /\ queue \in Seq(Text) /\ None \in Text /\ Len(queue) < QueueSize /\ QueueSize \in Nat
        /\ queue' = Append(queue, None)
    BY <1>1, <1>7, EmptySeq, StreamAssumption DEF PutNone, Typed, Text, None
  <2>2. queue' \in Seq(Text) /\ Len(queue') = Len(queue) + 1 /\ Len(queue) \in Nat
    BY <2>1, AppendProperties, LenProperties
  <2>3. Len(queue') <= QueueSize
    BY <2>1, <2>2
  <2> QED
    BY <1>1, <1>2, <1>7, <2>2, <2>3 DEF Typed, PutNone, serviceVars
<1>8. CASE Join
  <2>1. received' \in Text /\ said' \in Seq(Text)
    BY <1>1, <1>8, JoinKeeps
  <2> QED
    BY <1>1, <1>2, <1>8, <2>1 DEF Typed, Join, serviceVars
<1>9. CASE FallbackSpoken
  BY <1>1, <1>2, <1>9 DEF Typed, FallbackSpoken, serviceVars
<1>10. CASE TakeChunk
  <2>1. /\ queue \in Seq(Text) /\ queue # <<>> /\ queue' = Tail(queue) /\ Len(queue) <= QueueSize
        /\ QueueSize \in Nat
    BY <1>1, <1>10, StreamAssumption DEF TakeChunk, Typed
  <2>2. /\ Head(queue) \in Text /\ queue' \in Seq(Text) /\ Len(queue') = Len(queue) - 1
        /\ Len(queue) \in Nat \ {0}
    BY <2>1, HeadTailProperties, EmptySeq
  <2>3. Len(queue') <= QueueSize
    BY <2>1, <2>2
  <2>4. said' \in Seq(Text)
    <3>1. said \in Seq(Text)
      BY <1>1 DEF Typed
    <3> QED
      BY <1>10, <2>2, <3>1, AppendProperties, SMTT(30) DEF TakeChunk
  <2> QED
    BY <1>1, <1>2, <1>10, <2>2, <2>3, <2>4 DEF Typed, TakeChunk, serviceVars
<1>11. CASE ChunkSpoken
  BY <1>1, <1>2, <1>11 DEF Typed, ChunkSpoken, serviceVars
<1>12. CASE Done \/ UNCHANGED vars
  BY <1>1, <1>2, <1>12 DEF Typed, Done, vars, serviceVars
<1> QED
  BY <1>3, <1>4, <1>5, <1>6, <1>7, <1>8, <1>9, <1>10, <1>11, <1>12 DEF Next, AgentStep, SpeakerStep

LEMMA Invariant == Spec => []IInv
<1>1. IInv /\ [Next]_vars => IInv'
  BY TypedNext, StagesNext, WireNext, LineNext DEF IInv
<1> QED
  BY <1>1, InitIInv, PTL DEF Spec

----------------------------------------------------------------------------
(* What it says of the reply                                                  *)

\* The pieces are those of the line, and at the end an empty one if nothing is pending.
LEMMA PiecesInLine ==
    ASSUME Typed, Stages, LineIsReply
    PROVE  /\ Pieces \in Seq(Text) /\ Line \in Seq(Text) /\ Len(Line) \in Nat /\ Len(Pieces) \in Nat
           /\ \A k \in 1 .. Len(Line) : k \in 1 .. Len(Pieces) /\ Pieces[k] = Line[k]
           /\ \A k \in 1 .. Len(Pieces) :
                 \/ k \in 1 .. Len(Line) /\ Pieces[k] = Line[k]
                 \/ k = Len(Pieces) /\ Pieces[k] = <<>>
<1>1. Chunks \in Seq(Text) /\ rest.pending \in Text
  BY QueueIs
<1>2. PICK C : C = Chunks
  OBVIOUS
<1>3. PICK p : p = rest.pending
  OBVIOUS
<1>4. C \in Seq(Text) /\ p \in Text /\ Pieces = Append(C, p) /\ Line = PiecesOf(C, p)
  <2>1. C \in Seq(Text) /\ p \in Text /\ Line = PiecesOf(C, p) /\ Pieces = C \o <<p>>
    BY <1>1, <1>2, <1>3 DEF Pieces, Line, Chunks
  <2>2. Append(C, p) = C \o <<p>>
    BY <2>1, AppendIs
  <2> QED
    BY <2>1, <2>2
<1> DEFINE L == PiecesOf(C, p)
           P == Append(C, p)
           c == Len(C)
<1>5. /\ L \in Seq(Text) /\ c \in Nat
      /\ \A k \in 1 .. c : L[k] = C[k]
      /\ p = <<>> => L = C
      /\ p # <<>> => Len(L) = c + 1 /\ L[c + 1] = p
  BY <1>4, PiecesAre
<1>6. /\ P \in Seq(Text) /\ Len(P) = c + 1
      /\ \A k \in 1 .. c : P[k] = C[k]
      /\ P[c + 1] = p
  BY <1>4, AppendProperties
<1>7. p = <<>> => Len(L) = c
  BY <1>5
<1> HIDE DEF L, P, c
<1>8. \A k \in 1 .. c + 1 : k \in 1 .. c \/ k = c + 1
  BY <1>5
<1>9. \A k \in 1 .. c : k \in 1 .. c + 1
  BY <1>5
<1>10. Len(L) \in Nat /\ Len(P) \in Nat
  BY <1>5, <1>6, LenProperties
<1>11. \A k \in 1 .. Len(L) : k \in 1 .. Len(P) /\ P[k] = L[k]
  <2>1. CASE p = <<>>
    BY <1>5, <1>6, <1>7, <1>9, <2>1
  <2>2. CASE p # <<>>
    BY <1>5, <1>6, <1>8, <2>2
  <2> QED
    BY <2>1, <2>2
<1>12. \A k \in 1 .. Len(P) :
          \/ k \in 1 .. Len(L) /\ P[k] = L[k]
          \/ k = Len(P) /\ P[k] = <<>>
  <2>1. CASE p = <<>>
    BY <1>5, <1>6, <1>7, <1>8, <2>1
  <2>2. CASE p # <<>>
    BY <1>5, <1>6, <1>8, <2>2
  <2> QED
    BY <2>1, <2>2
<1>13. Pieces = P /\ Line = L
  BY <1>4 DEF L, P
<1> QED
  BY <1>5, <1>6, <1>10, <1>11, <1>12, <1>13

\* Every variable of the stream and of the agent has its type, and no chunk begins
\* or ends with a space (sentence_chunks, generate_stream).
THEOREM TypeCorrect == Spec => []TypeOK
<1>1. IInv => TypeOK
  <2> SUFFICES ASSUME IInv PROVE TypeOK
    OBVIOUS
  <2>1. \A i \in DOMAIN rest.chunks : Solid(Head(rest.chunks[i])) /\ Solid(Last(rest.chunks[i]))
    <3>1. DOMAIN rest.chunks = 1 .. Len(rest.chunks)
      BY LenProperties DEF IInv, Typed
    <3>2. \A k \in 1 .. Len(rest.chunks) : IsPiece(rest.chunks[k])
      BY QueueIs DEF IInv
    <3> QED
      BY <3>1, <3>2 DEF IsPiece
  <2> QED
    BY <2>1 DEF IInv, Typed, TypeOK
<1> QED
  BY <1>1, Invariant, PTL

\* What is said is what was received: between the tokens the agent has read and the
\* chunks it has spoken no character but spaces is lost, repeated or overtaken, for
\* replies of any length and chunks of any limit.
THEOREM SaidIsReceived == Spec => []SaidAsReceived
<1>1. IInv => SaidAsReceived
  <2> SUFFICES ASSUME IInv PROVE SaidAsReceived
    OBVIOUS
  <2>1. /\ Pieces \in Seq(Text) /\ Line \in Seq(Text) /\ Len(Line) \in Nat /\ Len(Pieces) \in Nat
        /\ \A k \in 1 .. Len(Line) : k \in 1 .. Len(Pieces) /\ Pieces[k] = Line[k]
        /\ \A k \in 1 .. Len(Pieces) :
              \/ k \in 1 .. Len(Line) /\ Pieces[k] = Line[k]
              \/ k = Len(Pieces) /\ Pieces[k] = <<>>
    BY PiecesInLine DEF IInv
  <2>2. DOMAIN Pieces = 1 .. Len(Pieces)
    BY <2>1, LenProperties
  <2>3. /\ \A k \in 1 .. Len(Line) : IsPiece(Line[k])
        /\ \A j, k \in 1 .. Len(Line) : j < k => Before(Line[j], Line[k])
        /\ \A k \in 1 .. Len(Line) : Range(Line[k]) \subseteq Range(received)
        /\ \A p \in Range(received) : Solid(p) => \E k \in 1 .. Len(Line) : p \in Range(Line[k])
        /\ Ascending(received)
    BY DEF IInv, LineIsReply, InLine, Cover, IsBuffer
  <2>4. Range(<<>>) = {} /\ Ascending(<<>>)
    BY DEF Range, Ascending
  <2>5. \A k \in 1 .. Len(Pieces) : Ascending(Pieces[k]) /\ Range(Pieces[k]) \subseteq Range(received)
    BY <2>1, <2>3, <2>4 DEF IsPiece, IsBuffer
  <2>6. ASSUME NEW j \in 1 .. Len(Pieces), NEW k \in 1 .. Len(Pieces), j < k
        PROVE  Before(Pieces[j], Pieces[k])
    <3>1. CASE Pieces[k] = <<>>
      BY <2>4, <3>1 DEF Before
    <3>2. CASE k \in 1 .. Len(Line) /\ Pieces[k] = Line[k]
      <4>1. j \in 1 .. Len(Line) /\ Pieces[j] = Line[j]
        BY <2>1, <2>6, <3>2
      <4> QED
        BY <2>3, <2>6, <3>2, <4>1
    <3> QED
      BY <2>1, <3>1, <3>2
  <2>7. \A p \in Range(received) : Solid(p) => \E k \in 1 .. Len(Pieces) : p \in Range(Pieces[k])
    BY <2>1, <2>3
  <2>8. agent = "ended" => queue = <<>> /\ rest.chunks = <<>> /\ rest.pending = <<>>
    BY DEF IInv, Stages
  <2> QED
    BY <2>2, <2>3, <2>5, <2>6, <2>7, <2>8 DEF SaidAsReceived, Before
<1> QED
  BY <1>1, Invariant, PTL

\* The pauses are where the reply has them: what sentence_chunks and rag-service's
\* removal of newlines do to words, for replies of any length, however they are split
\* into tokens.
THEOREM PausesKept == Spec => []PausesAreKept
<1>1. IInv => PausesAreKept
  <2> SUFFICES ASSUME IInv PROVE PausesAreKept
    OBVIOUS
  <2>1. /\ Len(Line) \in Nat /\ Len(Pieces) \in Nat
        /\ \A k \in 1 .. Len(Pieces) :
              \/ k \in 1 .. Len(Line) /\ Pieces[k] = Line[k]
              \/ k = Len(Pieces) /\ Pieces[k] = <<>>
    BY PiecesInLine DEF IInv
  <2>2. DOMAIN Pieces = 1 .. Len(Pieces)
    BY PiecesInLine, LenProperties DEF IInv
  <2>3. /\ \A k \in 1 .. Len(Line) : IsPiece(Line[k])
        /\ \A k \in 1 .. Len(Line) - 1 : Joined(Line[k], Line[k + 1])
    BY DEF IInv, LineIsReply, InLine
  <2>4. ASSUME NEW k \in 1 .. Len(Pieces), NEW i \in 1 .. Len(Pieces[k]) - 1,
               Pieces[k][i + 1] # Pieces[k][i] + 1
        PROVE  \/ Pieces[k][i + 1] - 1 \in cuts
               \/ \E n \in Pieces[k][i] + 1 .. Pieces[k][i + 1] - 1 : Kind(n) = "newline"
    <3>1. Pieces[k] # <<>>
      <4>1. Len(<<>>) = 0 /\ 1 .. 0 - 1 = {}
        OBVIOUS
      <4> QED
        BY <2>4, <4>1
    <3>2. IsPiece(Pieces[k])
      BY <2>1, <2>3, <3>1
    <3>3. PICK u : u = Pieces[k]
      OBVIOUS
    <3>4. u \in Text /\ Ascending(u) /\ Connected(u) /\ i \in 1 .. Len(u) - 1
      BY <3>2, <3>3 DEF IsPiece, IsBuffer
    <3>5. i \in 1 .. Len(u) /\ i + 1 \in 1 .. Len(u) /\ i < i + 1 /\ DOMAIN u = 1 .. Len(u)
      BY <3>4, TextIs
    <3>6. u[i] \in Nat /\ u[i + 1] \in Nat /\ u[i] < u[i + 1]
      BY <3>4, <3>5, TextIs DEF Ascending
    <3>7. u[i + 1] - 1 \in u[i] + 1 .. u[i + 1] - 1
      BY <2>4, <3>3, <3>6
    <3>8. u[i + 1] - 1 \in cuts \/ Kind(u[i + 1] - 1) = "newline"
      BY <2>4, <3>3, <3>4 DEF Connected, Follows
    <3> QED
      BY <3>3, <3>7, <3>8
  <2>5. ASSUME NEW k \in 1 .. Len(Pieces) - 1, Pieces[k] # <<>>, Pieces[k + 1] # <<>>
        PROVE  Joined(Pieces[k], Pieces[k + 1])
    <3>1. k \in 1 .. Len(Pieces) /\ k + 1 \in 1 .. Len(Pieces)
      BY <2>1
    <3>2. /\ k \in 1 .. Len(Line) /\ Pieces[k] = Line[k]
          /\ k + 1 \in 1 .. Len(Line) /\ Pieces[k + 1] = Line[k + 1]
      BY <2>1, <2>5, <3>1
    <3>3. k \in 1 .. Len(Line) - 1
      BY <2>1, <3>2
    <3> QED
      BY <2>3, <3>2, <3>3
  <2> QED
    BY <2>2, <2>4, <2>5 DEF PausesAreKept, Joined, Long
<1> QED
  BY <1>1, Invariant, PTL
====
