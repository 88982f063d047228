---------------------------- MODULE SpansProofs ----------------------------
(***************************************************************************)
(* Theorems about Spans, for texts of any length.                          *)
(***************************************************************************)
EXTENDS Spans, FiniteSetTheorems, SequenceTheorems, WellFoundedInduction, TLAPS

----------------------------------------------------------------------------
\* Counting

\* The least of a set of numbers.
LEMMA LeastOf ==
  ASSUME NEW B \in SUBSET Nat, B # {}
  PROVE  \E x \in B : \A y \in B : ~(y < x)
<1> DEFINE R == OpToRel(<, Nat)
<1>1. PICK x \in B : \A y \in B : ~(<<y, x>> \in R)
  <2>1. B \subseteq Nat /\ B # {}
    OBVIOUS
  <2>2. IsWellFoundedOn(R, Nat)
    BY NatLessThanWellFounded
  <2> HIDE DEF R
  <2>3. QED
    BY <2>1, <2>2, WFMin
<1>2. QED
  BY <1>1 DEF OpToRel

\* Reaching every number from 0 to n one by one.  (The least that is not in the
\* set would not be 0, and the one before it would be in the set.)
LEMMA OneByOne ==
  ASSUME NEW n \in Nat, NEW S, 0 \in S,
         \A k \in 0..(n - 1) : k \in S => k + 1 \in S
  PROVE  0..n \subseteq S
<1> DEFINE Rest == {k \in 0..n : k \notin S}
<1>1. SUFFICES ASSUME Rest # {} PROVE FALSE
  OBVIOUS
<1>2. PICK k \in Rest : \A y \in Rest : ~(y < k)
  <2>1. Rest \subseteq Nat
    OBVIOUS
  <2> HIDE DEF Rest
  <2>2. QED
    BY <1>1, <2>1, LeastOf
<1>3. k # 0 /\ k - 1 \in 0..(n - 1) /\ k - 1 < k
  BY <1>2
<1>4. k - 1 \in S /\ k - 1 + 1 = k
  BY <1>2, <1>3
<1>5. QED
  BY <1>2, <1>3, <1>4

\* Those of a set up to a number.
Upto(S, k) == {h \in 1..k : h \in S}

LEMMA UptoNext ==
  ASSUME NEW S, NEW k \in Nat
  PROVE  /\ IsFiniteSet(Upto(S, k)) /\ Cardinality(Upto(S, k)) \in Nat
         /\ Cardinality(Upto(S, 0)) = 0
         /\ Cardinality(Upto(S, k)) = 0 <=> Upto(S, k) = {}
         /\ Cardinality(Upto(S, k + 1)) =
              Cardinality(Upto(S, k)) + IF k + 1 \in S THEN 1 ELSE 0
<1>1. IsFiniteSet(Upto(S, k))
  <2>1. IsFiniteSet(1..k)
    BY FS_Interval
  <2>2. Upto(S, k) \subseteq 1..k
    BY DEF Upto
  <2>3. QED
    BY <2>1, <2>2, FS_Subset
<1>2. Cardinality(Upto(S, k)) \in Nat /\ (Cardinality(Upto(S, k)) = 0 <=> Upto(S, k) = {})
  BY <1>1, FS_CardinalityType, FS_EmptySet
<1>3. Cardinality(Upto(S, 0)) = 0
  <2>1. Upto(S, 0) = {}
    BY DEF Upto
  <2>2. QED
    BY <2>1, FS_EmptySet
<1>4. CASE k + 1 \in S
  <2>1. Upto(S, k + 1) = Upto(S, k) \cup {k + 1} /\ k + 1 \notin Upto(S, k)
    <3>1. \A h : h \in 1..(k + 1) <=> h \in 1..k \/ h = k + 1
      OBVIOUS
    <3>2. QED
      BY <1>4, <3>1 DEF Upto
  <2>2. Cardinality(Upto(S, k) \cup {k + 1}) = Cardinality(Upto(S, k)) + 1
    BY <1>1, <2>1, FS_AddElement
  <2>3. QED
    BY <1>1, <1>2, <1>3, <1>4, <2>1, <2>2
<1>5. CASE k + 1 \notin S
  <2>1. Upto(S, k + 1) = Upto(S, k)
    <3>1. \A h : h \in 1..(k + 1) <=> h \in 1..k \/ h = k + 1
      OBVIOUS
    <3>2. QED
      BY <1>5, <3>1 DEF Upto
  <2>2. QED
    BY <1>1, <1>2, <1>3, <1>5, <2>1
<1>6. QED
  BY <1>4, <1>5

----------------------------------------------------------------------------
\* Sums

LEMMA TextIsFinite ==
  ASSUME NEW chars \in Seq(Char)
  PROVE  /\ Len(chars) \in Nat /\ DOMAIN chars = 1..Len(chars)
         /\ \A k \in 1..Len(chars) : chars[k] \in Char
  OBVIOUS

LEMMA WeightsAreNumbers ==
  /\ Utf8Len \in [Char -> Nat] /\ Width \in [Char -> Nat]
  /\ \A c \in Char : Utf8Len[c] >= 1
<1>1. \A c \in Char : Utf8Len[c] \in {1, 2, 3}
  BY DEF Utf8Len
<1>2. Utf8Len \in [Char -> Nat]
  BY <1>1 DEF Utf8Len
<1>3. Width \in [Char -> Nat]
  BY DEF Width
<1>4. QED
  BY <1>1, <1>2, <1>3

\* Sums is what its recursive function says.  (The function exists up to the
\* first character, and from each character up to the next.)
LEMMA SumsUnfold ==
  ASSUME NEW chars, Len(chars) \in Nat, NEW weight
  PROVE  \A k \in 0..Len(chars) :
           Sums(chars, weight)[k] =
             IF k = 0 THEN 0 ELSE Sums(chars, weight)[k - 1] + weight[chars[k]]
<1> DEFINE n == Len(chars)
           Next1(g, k) == IF k = 0 THEN 0 ELSE g[k - 1] + weight[chars[k]]
           Solves(g, m) ==
             g = [k \in 0..m |-> IF k = 0 THEN 0 ELSE g[k - 1] + weight[chars[k]]]
           Done == {m \in 0..n : \E g : Solves(g, m)}
           sums == CHOOSE g : Solves(g, n)
<1>1. \A m, g : Solves(g, m) <=> g = [k \in 0..m |-> Next1(g, k)]
  OBVIOUS
<1>2. 0 \in Done
  <2> DEFINE g == [k \in 0..0 |-> 0]
  <2>1. \A k \in 0..0 : Next1(g, k) = 0
    OBVIOUS
  <2> HIDE DEF Next1
  <2>2. g = [k \in 0..0 |-> Next1(g, k)]
    BY <2>1
  <2> HIDE DEF g, Solves
  <2>3. Solves(g, 0)
    BY <2>2, <1>1
  <2>4. QED
    BY <2>3
<1>3. ASSUME NEW m \in 0..(n - 1), m \in Done
      PROVE  m + 1 \in Done
  <2>1. PICK h : Solves(h, m)
    <3> HIDE DEF Solves
    <3>1. QED
      BY <1>3
  <2> DEFINE g == [k \in 0..(m + 1) |-> Next1(h, k)]
  <2>2. h = [k \in 0..m |-> Next1(h, k)]
    <3> HIDE DEF Solves, Next1
    <3>1. QED
      BY <2>1, <1>1
  <2>3. \A k \in 0..m : g[k] = h[k]
    <3>1. \A k \in 0..m : k \in 0..(m + 1)
      OBVIOUS
    <3> HIDE DEF Next1
    <3>2. QED
      BY <3>1, <2>2
  <2>4. ASSUME NEW k \in 0..(m + 1) PROVE Next1(g, k) = Next1(h, k)
    <3>1. k # 0 => k - 1 \in 0..m
      OBVIOUS
    <3> HIDE DEF g
    <3>2. k # 0 => g[k - 1] = h[k - 1]
      BY <3>1, <2>3
    <3>3. QED
      BY <3>2
  <2>5. g = [k \in 0..(m + 1) |-> Next1(g, k)]
    <3>1. g = [k \in 0..(m + 1) |-> Next1(h, k)]
      OBVIOUS
    <3> HIDE DEF g, Next1
    <3>2. QED
      BY <3>1, <2>4
  <2> HIDE DEF g, Solves, Next1
  <2>6. Solves(g, m + 1) /\ m + 1 \in 0..n
    BY <2>5, <1>1
  <2>7. QED
    BY <2>6
<1>4. n \in Done
  <2> HIDE DEF Done
  <2>1. 0..n \subseteq Done
    BY <1>2, <1>3, OneByOne
  <2>2. QED
    BY <2>1
<1>5. Solves(sums, n)
  <2>1. \E g : Solves(g, n)
    BY <1>4
  <2> HIDE DEF Solves
  <2>2. QED
    BY <2>1
<1>6. Sums(chars, weight) = sums
  BY DEF Sums
<1> HIDE DEF sums
<1>7. sums = [k \in 0..n |-> Next1(sums, k)]
  <2> HIDE DEF Solves, Next1
  <2>1. QED
    BY <1>5, <1>1
<1>8. \A k \in 0..n : sums[k] = Next1(sums, k)
  <2> HIDE DEF Next1
  <2>1. QED
    BY <1>7
<1>9. QED
  BY <1>6, <1>8

LEMMA SumsNext ==
  ASSUME NEW chars \in Seq(Char), NEW weight \in [Char -> Nat]
  PROVE  /\ Sums(chars, weight)[0] = 0
         /\ \A k \in 0..Len(chars) : Sums(chars, weight)[k] \in Nat
         /\ \A k \in 1..Len(chars) :
              Sums(chars, weight)[k] = Sums(chars, weight)[k - 1] + weight[chars[k]]
<1> DEFINE f == Sums(chars, weight)
           S == {k \in 0..Len(chars) : f[k] \in Nat}
<1>1. Len(chars) \in Nat
  BY TextIsFinite
<1>2. \A k \in 0..Len(chars) : f[k] = IF k = 0 THEN 0 ELSE f[k - 1] + weight[chars[k]]
  BY <1>1, SumsUnfold
<1> HIDE DEF f
<1>3. 0 \in S
  BY <1>1, <1>2
<1>4. ASSUME NEW k \in 0..(Len(chars) - 1), k \in S PROVE k + 1 \in S
  <2>1. k + 1 \in 1..Len(chars) /\ k + 1 \in 0..Len(chars) /\ k + 1 # 0 /\ k + 1 - 1 = k
    BY <1>1
  <2>2. f[k + 1] = f[k] + weight[chars[k + 1]]
    BY <1>2, <2>1
  <2>3. weight[chars[k + 1]] \in Nat
    BY <2>1, TextIsFinite
  <2>4. QED
    BY <1>4, <2>1, <2>2, <2>3
<1>5. 0..Len(chars) \subseteq S
  <2> HIDE DEF S
  <2>1. QED
    BY <1>1, <1>3, <1>4, OneByOne
<1>6. f[0] = 0 /\ \A k \in 1..Len(chars) : f[k] = f[k - 1] + weight[chars[k]]
  BY <1>1, <1>2
<1>7. QED
  BY <1>5, <1>6 DEF f

LEMMA SliceIs ==
  ASSUME NEW chars \in Seq(Char), NEW a \in 0..Len(chars), NEW b \in a..Len(chars)
  PROVE  /\ SubSeq(chars, a + 1, b) \in Seq(Char)
         /\ Len(SubSeq(chars, a + 1, b)) = b - a
         /\ DOMAIN SubSeq(chars, a + 1, b) = 1..(b - a)
         /\ \A h \in 1..(b - a) : SubSeq(chars, a + 1, b)[h] = chars[a + h]
<1>1. Len(chars) \in Nat /\ a \in Nat /\ b \in Nat
  BY TextIsFinite
<1>2. a + 1 \in 1..(Len(chars) + 1) /\ b \in (a + 1 - 1)..Len(chars)
  BY <1>1
<1>3. \A h \in 1..(b - a) : a + 1 + h - 1 = a + h
  BY <1>1
<1>4. b - (a + 1) + 1 = b - a
  BY <1>1
<1>5. QED
  BY <1>1, <1>2, <1>3, <1>4, SubSeqProperties

\* What the first characters of a slice add up to.
LEMMA SumsOfPrefix ==
  ASSUME NEW chars \in Seq(Char), NEW weight \in [Char -> Nat],
         NEW a \in 0..Len(chars), NEW b \in a..Len(chars)
  PROVE  \A k \in 0..(b - a) :
           Sums(SubSeq(chars, a + 1, b), weight)[k] =
             Sums(chars, weight)[a + k] - Sums(chars, weight)[a]
<1> DEFINE slice == SubSeq(chars, a + 1, b)
           f == Sums(chars, weight)
           g == Sums(slice, weight)
           S == {k \in 0..(b - a) : g[k] = f[a + k] - f[a]}
<1>1. /\ slice \in Seq(Char) /\ Len(slice) = b - a
      /\ \A h \in 1..(b - a) : slice[h] = chars[a + h]
  BY SliceIs
<1>2. Len(chars) \in Nat /\ a \in Nat /\ b \in Nat /\ b - a \in Nat
  BY TextIsFinite
<1> HIDE DEF slice
<1>3. /\ g[0] = 0
      /\ \A k \in 1..(b - a) : g[k] = g[k - 1] + weight[slice[k]]
  BY <1>1, SumsNext
<1>4. /\ \A k \in 0..Len(chars) : f[k] \in Nat
      /\ \A k \in 1..Len(chars) : f[k] = f[k - 1] + weight[chars[k]]
  BY SumsNext
<1> HIDE DEF f, g
<1>5. 0 \in S
  <2>1. a + 0 = a /\ f[a] \in Nat
    BY <1>2, <1>4
  <2>2. QED
    BY <1>2, <1>3, <2>1
<1>6. ASSUME NEW k \in 0..(b - a - 1), k \in S PROVE k + 1 \in S
  <2>1. /\ k + 1 \in 1..(b - a) /\ a + (k + 1) \in 1..Len(chars) /\ k + 1 - 1 = k
        /\ a + (k + 1) - 1 = a + k /\ a + k \in 0..Len(chars) /\ k + 1 \in 0..(b - a)
    BY <1>2
  <2>2. g[k + 1] = g[k] + weight[chars[a + (k + 1)]]
    <3>1. g[k + 1] = g[k + 1 - 1] + weight[slice[k + 1]]
      BY <1>3, <2>1
    <3>2. slice[k + 1] = chars[a + (k + 1)]
      BY <1>1, <2>1
    <3>3. QED
      BY <2>1, <3>1, <3>2
  <2>3. f[a + (k + 1)] = f[a + k] + weight[chars[a + (k + 1)]]
    BY <1>4, <2>1
  <2>4. weight[chars[a + (k + 1)]] \in Nat /\ f[a + k] \in Nat /\ f[a] \in Nat
    <3>1. chars[a + (k + 1)] \in Char
      BY <2>1, TextIsFinite
    <3>2. QED
      BY <1>2, <1>4, <2>1, <3>1
  <2>5. g[k] = f[a + k] - f[a]
    BY <1>6
  <2>6. g[k + 1] = f[a + (k + 1)] - f[a]
    BY <2>2, <2>3, <2>4, <2>5
  <2>7. QED
    BY <2>1, <2>6
<1>7. 0..(b - a) \subseteq S
  <2> HIDE DEF S
  <2>1. QED
    BY <1>2, <1>5, <1>6, OneByOne
<1>8. QED
  BY <1>7 DEF f, g, slice

\* What all of them add up to.
LEMMA SumsOfSlice ==
  ASSUME NEW chars \in Seq(Char), NEW weight \in [Char -> Nat],
         NEW a \in 0..Len(chars), NEW b \in a..Len(chars)
  PROVE  LET slice == SubSeq(chars, a + 1, b)
         IN  Sums(slice, weight)[Len(slice)] =
               Sums(chars, weight)[b] - Sums(chars, weight)[a]
<1>1. Len(SubSeq(chars, a + 1, b)) = b - a
  BY SliceIs
<1>2. b - a \in 0..(b - a) /\ a + (b - a) = b
  BY TextIsFinite
<1>3. QED
  BY <1>1, <1>2, SumsOfPrefix

----------------------------------------------------------------------------
(***************************************************************************)
(* The spans tile the text.                                                *)
(***************************************************************************)

\* The bytes and the columns of the first k characters.
Byte(k)   == Sums(text, Utf8Len)[k]
Column(k) == Sums(text, Width)[k]

\* Each character has the bytes from where it begins to where the next one does.
Tiled ==
  /\ spans \in Seq(Nat \X Nat) /\ Len(spans) <= Len(text)
  /\ stage # "stream" => Len(spans) = Len(text)
  /\ offset = Byte(Len(spans))
  /\ \A k \in 1..Len(spans) : spans[k] = <<Byte(k - 1), Byte(k)>>

LEMMA BytesNext ==
  ASSUME text \in Seq(Char)
  PROVE  /\ Len(text) \in Nat
         /\ Byte(0) = 0
         /\ \A k \in 0..Len(text) : Byte(k) \in Nat
         /\ \A k \in 1..Len(text) : /\ Byte(k) = Byte(k - 1) + Utf8Len[text[k]]
                                    /\ Utf8Len[text[k]] \in Nat /\ Utf8Len[text[k]] >= 1
<1>1. Len(text) \in Nat /\ \A k \in 1..Len(text) : text[k] \in Char
  BY TextIsFinite
<1>2. \A k \in 1..Len(text) : Utf8Len[text[k]] \in Nat /\ Utf8Len[text[k]] >= 1
  BY <1>1, WeightsAreNumbers
<1>3. QED
  BY <1>1, <1>2, SumsNext, WeightsAreNumbers DEF Byte

LEMMA BytesGrow ==
  ASSUME text \in Seq(Char), NEW i \in 0..Len(text)
  PROVE  \A j \in 0..Len(text) : i < j => Byte(i) < Byte(j)
<1> DEFINE S == {j \in 0..Len(text) : i < j => Byte(i) < Byte(j)}
<1>1. Len(text) \in Nat
  BY BytesNext
<1>2. 0 \in S
  BY <1>1
<1>3. ASSUME NEW k \in 0..(Len(text) - 1), k \in S PROVE k + 1 \in S
  <2>1. k + 1 \in 1..Len(text) /\ k + 1 \in 0..Len(text) /\ k \in 0..Len(text) /\ k + 1 - 1 = k
    BY <1>1
  <2>2. Byte(k + 1) = Byte(k) + Utf8Len[text[k + 1]] /\ Utf8Len[text[k + 1]] >= 1
    BY <2>1, BytesNext
  <2>3. Byte(i) \in Nat /\ Byte(k) \in Nat /\ Utf8Len[text[k + 1]] \in Nat
    BY <2>1, BytesNext
  <2>4. i < k + 1 => i = k \/ i < k
    BY <1>1
  <2>5. QED
    BY <1>3, <2>1, <2>2, <2>3, <2>4
<1>4. 0..Len(text) \subseteq S
  <2> HIDE DEF S
  <2>1. QED
    BY <1>1, <1>2, <1>3, OneByOne
<1>5. QED
  BY <1>4

\* The characters before a character's first byte are those before it.
LEMMA CharsBeforeByte ==
  ASSUME text \in Seq(Char), Tiled, Len(spans) = Len(text), NEW j \in 0..Len(text)
  PROVE  CharsBefore(Byte(j)) = j
<1>1. Len(text) \in Nat /\ DOMAIN spans = 1..Len(text)
  BY BytesNext DEF Tiled
<1>2. {k \in DOMAIN spans : spans[k][2] <= Byte(j)} = 1..j
  <2>1. ASSUME NEW k \in 1..Len(text)
        PROVE  spans[k][2] <= Byte(j) <=> k <= j
    <3>1. spans[k][2] = Byte(k) /\ k \in 0..Len(text)
      BY <1>1 DEF Tiled
    <3>2. (k < j => Byte(k) < Byte(j)) /\ (j < k => Byte(j) < Byte(k))
      BY <3>1, BytesGrow
    <3>3. Byte(k) \in Nat /\ Byte(j) \in Nat
      BY <3>1, BytesNext
    <3>4. k < j \/ k = j \/ j < k
      BY <1>1
    <3>5. QED
      BY <1>1, <3>1, <3>2, <3>3, <3>4
  <2>2. \A k \in 1..Len(text) : k <= j <=> k \in 1..j
    BY <1>1
  <2>3. \A k \in 1..j : k \in 1..Len(text)
    BY <1>1
  <2>4. QED
    BY <1>1, <2>1, <2>2, <2>3
<1>3. Cardinality(1..j) = j
  <2>1. 1 \in Int /\ j \in Int /\ j >= 0
    BY <1>1
  <2>2. Cardinality(1..j) = IF 1 > j THEN 0 ELSE j - 1 + 1
    BY <2>1, FS_Interval
  <2>3. QED
    BY <2>1, <2>2
<1>4. QED
  BY <1>2, <1>3 DEF CharsBefore

LEMMA TilesAreTheBytes ==
  ASSUME text \in Seq(Char), Tiled
  PROVE  SpansTileTheText
<1>1. /\ Len(text) \in Nat /\ Len(spans) \in 0..Len(text) /\ DOMAIN spans = 1..Len(spans)
      /\ Byte(0) = 0
  BY BytesNext DEF Tiled
<1>2. offset = IF spans = <<>> THEN 0 ELSE Last(spans)[2]
  <2>1. CASE spans = <<>>
    BY <1>1, <2>1 DEF Tiled
  <2>2. CASE spans # <<>>
    <3>1. Len(spans) # 0
      BY <2>2 DEF Tiled
    <3>2. Len(spans) \in 1..Len(spans)
      BY <1>1, <3>1
    <3>3. spans[Len(spans)] = <<Byte(Len(spans) - 1), Byte(Len(spans))>>
      BY <3>2 DEF Tiled
    <3>4. QED
      BY <2>2, <3>3 DEF Tiled, Last
  <2>3. QED
    BY <2>1, <2>2
<1>3. ASSUME NEW k \in DOMAIN spans
      PROVE  spans[k] = <<IF k = 1 THEN 0 ELSE spans[k - 1][2],
                          spans[k][1] + Utf8Len[text[k]]>>
  <2>1. k \in 1..Len(spans) /\ k \in 1..Len(text) /\ (k # 1 => k - 1 \in 1..Len(spans))
    BY <1>1, <1>3
  <2>2. spans[k] = <<Byte(k - 1), Byte(k)>>
    BY <2>1 DEF Tiled
  <2>3. k # 1 => spans[k - 1] = <<Byte(k - 1 - 1), Byte(k - 1)>>
    BY <2>1 DEF Tiled
  <2>4. Byte(k) = Byte(k - 1) + Utf8Len[text[k]]
    BY <2>1, BytesNext
  <2>5. k = 1 => Byte(k - 1) = 0
    BY <1>1
  <2>6. QED
    BY <2>2, <2>3, <2>4, <2>5
<1>4. stage # "stream" => offset = TextLen
  BY DEF Tiled, TextLen, Byte
<1>5. QED
  BY <1>2, <1>3, <1>4 DEF SpansTileTheText

LEMMA TextStays == [Next]_vars => UNCHANGED text
  BY DEF Next, vars, NextSpan, EndOfInput, MakeSpan, ScanChar, StartScanned, EndScanned

LEMMA BytesStay ==
  ASSUME UNCHANGED text
  PROVE  \A k : Byte(k)' = Byte(k) /\ Column(k)' = Column(k)
  BY DEF Byte, Column

LEMMA InitTiled == Init => text \in Seq(Char) /\ Tiled
<1> SUFFICES ASSUME Init PROVE text \in Seq(Char) /\ Tiled
  OBVIOUS
<1>1. text \in Seq(Char)
  BY TextsAssumption DEF Init
<1>2. /\ spans = <<>> /\ spans \in Seq(Nat \X Nat) /\ Len(spans) = 0
      /\ offset = 0 /\ stage = "stream"
  BY DEF Init
<1>3. Len(text) \in Nat /\ Byte(0) = 0
  BY <1>1, BytesNext
<1>4. QED
  BY <1>1, <1>2, <1>3 DEF Tiled

LEMMA TiledPrimed ==
  ASSUME UNCHANGED text
  PROVE  Tiled' <=> /\ spans' \in Seq(Nat \X Nat) /\ Len(spans') <= Len(text)
                    /\ stage' # "stream" => Len(spans') = Len(text)
                    /\ offset' = Byte(Len(spans'))
                    /\ \A k \in 1..Len(spans') : spans'[k] = <<Byte(k - 1), Byte(k)>>
  BY DEF Tiled, Byte

LEMMA NextKeepsTiled == text \in Seq(Char) /\ Tiled /\ [Next]_vars => Tiled'
<1> SUFFICES ASSUME text \in Seq(Char), Tiled, [Next]_vars PROVE Tiled'
  OBVIOUS
<1>1. UNCHANGED text /\ Len(text) \in Nat /\ Len(spans) \in Nat
  BY TextStays, BytesNext DEF Tiled
<1>2. CASE NextSpan
  <2> DEFINE n == Len(spans)
             new == <<Byte(n), Byte(n + 1)>>
  <2>1. n + 1 \in 1..Len(text) /\ n \in 0..Len(text) /\ n + 1 \in 0..Len(text)
    BY <1>1, <1>2 DEF NextSpan
  <2>2. Byte(n + 1) = Byte(n) + Utf8Len[text[n + 1]] /\ new \in Nat \X Nat
    <3>1. Byte(n + 1) = Byte(n + 1 - 1) + Utf8Len[text[n + 1]]
      BY <2>1, BytesNext
    <3>2. n + 1 - 1 = n
      BY <1>1
    <3>3. QED
      BY <2>1, <3>1, <3>2, BytesNext
  <2>3. /\ offset' = Byte(n + 1) /\ spans' = Append(spans, new) /\ stage = "stream"
        /\ stage' = stage
    BY <1>2, <2>2 DEF NextSpan, Tiled
  <2> HIDE DEF new
  <2>4. /\ spans' \in Seq(Nat \X Nat) /\ Len(spans') = n + 1 /\ spans'[n + 1] = new
        /\ \A k \in 1..n : spans'[k] = spans[k]
    BY <2>2, <2>3, AppendProperties DEF Tiled
  <2>5. \A k \in 1..(n + 1) : k \in 1..n \/ (k = n + 1 /\ k - 1 = n)
    BY <1>1
  <2>6. \A k \in 1..(n + 1) : spans'[k] = <<Byte(k - 1), Byte(k)>>
    BY <2>4, <2>5 DEF Tiled, new
  <2>7. QED
    BY <1>1, <2>1, <2>3, <2>4, <2>6, TiledPrimed
<1>3. CASE EndOfInput
  BY <1>1, <1>3, TiledPrimed DEF EndOfInput, tracker, Tiled
<1>4. CASE MakeSpan \/ ScanChar \/ StartScanned \/ EndScanned
  <2>1. UNCHANGED tracker /\ stage # "stream"
    BY <1>4 DEF MakeSpan, ScanChar, StartScanned, EndScanned
  <2>2. QED
    BY <1>1, <2>1, TiledPrimed DEF tracker, Tiled
<1>5. CASE UNCHANGED vars
  BY <1>1, <1>5, TiledPrimed DEF vars, tracker, Tiled
<1>6. QED
  BY <1>2, <1>3, <1>4, <1>5 DEF Next

\* The spans of a text's characters tile it, so that slicing the text by a span
\* never cuts a character (span.rs, OffsetTracker::next_span), for every text.
THEOREM SpansTile == Spec => []SpansTileTheText
<1>1. text \in Seq(Char) /\ [Next]_vars => (text \in Seq(Char))'
  BY TextStays
<1>2. QED
  BY <1>1, InitTiled, NextKeepsTiled, TilesAreTheBytes, PTL DEF Spec

----------------------------------------------------------------------------
(***************************************************************************)
(* The loop over the characters of a slice.                                *)
(***************************************************************************)

\* What the loop takes for a line break.
Counted == Break \ {"VT"}

\* The characters, counted from the one behind the first a, that the loop over
\* them counts as a line.
Breaks(a) == {h \in 1..(Len(text) - a) :
                /\ text[a + h] \in Counted
                /\ ~(h > 1 /\ text[a + h] = "LF" /\ text[a + (h - 1)] = "CR")}

\* Behind the last of them, of the first k, or the first character.
IsLast(a, k, f) == /\ f \in 1..(k + 1)
                   /\ f = 1 \/ f - 1 \in Breaks(a)
                   /\ \A h \in Upto(Breaks(a), k) : h < f

\* What the loop has come to before the i-th of the characters behind the first a.
Reads(a, i, c, n, f) ==
  /\ c <=> i > 1 /\ text[a + (i - 1)] = "CR"
  /\ n = Cardinality(Upto(Breaks(a), i - 1))
  /\ IsLast(a, i - 1, f)

\* What it comes to for m of them.
IsScan(a, m, r) ==
  \E f \in 1..(m + 1) :
    /\ IsLast(a, m, f)
    /\ r = [line |-> Cardinality(Upto(Breaks(a), m)),
            column |-> Column(a + m) - Column(a + (f - 1))]

\* The span has the characters from behind the first a to the first b; what the
\* stages have come to for it.
Scanning(a, b) ==
  /\ a \in 0..Len(text) /\ b \in a..Len(text) /\ span = <<Byte(a), Byte(b)>>
  /\ stage = "prefix" => it \in 1..(a + 1) /\ Reads(0, it, caret, line, last)
  /\ stage # "prefix" => it \in 1..(b - a + 1) /\ Reads(a, it, caret, line, last)
  /\ stage # "prefix" => IsScan(0, a, start)
  /\ stage = "done" =>
       \E r : /\ IsScan(a, b - a, r)
              /\ end = [line   |-> start.line + r.line,
                        column |-> IF r.line = 0 THEN start.column + r.column
                                                 ELSE r.column]

Scans ==
  /\ stage \in {"stream", "span", "prefix", "inside", "done"}
  /\ caret \in BOOLEAN
  /\ IF stage \in {"stream", "span"}
     THEN /\ it = 1 /\ caret = FALSE /\ line = 0 /\ last = 1
          /\ span = <<0, 0>> /\ start = Unset /\ end = Unset
     ELSE \E a, b : Scanning(a, b)
  /\ stage # "done" => end = Unset
  /\ stage = "prefix" => start = Unset

LEMMA ColumnsNext ==
  ASSUME text \in Seq(Char)
  PROVE  /\ Column(0) = 0
         /\ \A k \in 0..Len(text) : Column(k) \in Nat
         /\ \A k \in 1..Len(text) : Column(k - 1) <= Column(k)
<1>1. \A k \in 1..Len(text) : text[k] \in Char /\ Width[text[k]] \in Nat
  <2>1. \A k \in 1..Len(text) : text[k] \in Char
    BY TextIsFinite
  <2>2. QED
    BY <2>1, WeightsAreNumbers
<1>2. /\ Column(0) = 0
      /\ \A k \in 0..Len(text) : Column(k) \in Nat
      /\ \A k \in 1..Len(text) : Column(k) = Column(k - 1) + Width[text[k]]
  BY SumsNext, WeightsAreNumbers DEF Column
<1>3. \A k \in 1..Len(text) : k - 1 \in 0..Len(text)
  BY BytesNext
<1>4. \A k \in 1..Len(text) : Column(k - 1) \in Nat
  BY <1>2, <1>3
<1>5. ASSUME NEW k \in 1..Len(text) PROVE Column(k - 1) <= Column(k)
  BY <1>1, <1>2, <1>4
<1>6. QED
  BY <1>2, <1>5

LEMMA ColumnsGrow ==
  ASSUME text \in Seq(Char), NEW i \in 0..Len(text)
  PROVE  \A j \in i..Len(text) : Column(i) <= Column(j)
<1> DEFINE S == {j \in 0..Len(text) : i <= j => Column(i) <= Column(j)}
<1>1. Len(text) \in Nat
  BY BytesNext
<1>2. 0 \in S
  <2>1. i <= 0 => i = 0
    BY <1>1
  <2>2. Column(i) \in Nat
    BY ColumnsNext
  <2>3. QED
    BY <1>1, <2>1, <2>2
<1>3. ASSUME NEW k \in 0..(Len(text) - 1), k \in S PROVE k + 1 \in S
  <2>1. k + 1 \in 1..Len(text) /\ k + 1 \in 0..Len(text) /\ k \in 0..Len(text) /\ k + 1 - 1 = k
    BY <1>1
  <2>2. Column(k + 1 - 1) <= Column(k + 1)
    BY <2>1, ColumnsNext
  <2>3. Column(i) \in Nat /\ Column(k) \in Nat /\ Column(k + 1) \in Nat
    BY <2>1, ColumnsNext
  <2>4. i <= k + 1 => i = k + 1 \/ i <= k
    BY <1>1
  <2>5. QED
    BY <1>3, <2>1, <2>2, <2>3, <2>4
<1>4. 0..Len(text) \subseteq S
  <2> HIDE DEF S
  <2>1. QED
    BY <1>1, <1>2, <1>3, OneByOne
<1>5. \A j \in i..Len(text) : j \in 0..Len(text) /\ i <= j
  BY <1>1
<1>6. QED
  BY <1>4, <1>5

\* A scan counts in numbers.
LEMMA ScanType ==
  ASSUME text \in Seq(Char), NEW a \in 0..Len(text), NEW m \in 0..(Len(text) - a), NEW r,
         IsScan(a, m, r)
  PROVE  r \in [line : Nat, column : Nat]
<1>1. PICK f \in 1..(m + 1) :
        r = [line |-> Cardinality(Upto(Breaks(a), m)),
             column |-> Column(a + m) - Column(a + (f - 1))]
  BY DEF IsScan
<1>2. /\ Len(text) \in Nat /\ m \in Nat /\ a + (f - 1) \in 0..Len(text)
      /\ a + m \in (a + (f - 1))..Len(text) /\ a + m \in 0..Len(text)
  BY BytesNext
<1>3. Cardinality(Upto(Breaks(a), m)) \in Nat
  BY <1>2, UptoNext
<1>4. Column(a + m) - Column(a + (f - 1)) \in Nat
  <2>1. Column(a + (f - 1)) \in Nat /\ Column(a + m) \in Nat
    BY <1>2, ColumnsNext
  <2>2. Column(a + (f - 1)) <= Column(a + m)
    BY <1>2, ColumnsGrow
  <2>3. QED
    BY <2>1, <2>2
<1>5. QED
  BY <1>1, <1>3, <1>4

\* The loop begins.
LEMMA ReadsFirst ==
  ASSUME NEW a, NEW i, NEW c, NEW n, NEW f, i = 1, ~c, n = 0, f = 1
  PROVE  Reads(a, i, c, n, f)
<1>1. 1 - 1 = 0 /\ Upto(Breaks(a), 0) = {} /\ 1 \in 1..(0 + 1)
  BY DEF Upto
<1>2. Cardinality(Upto(Breaks(a), 0)) = 0
  BY <1>1, FS_EmptySet
<1>3. IsLast(a, 0, 1)
  BY <1>1 DEF IsLast
<1>4. QED
  BY <1>1, <1>2, <1>3 DEF Reads

\* One turn, at character x.
Turn(x, i, c, n, f, i2, c2, n2, f2) ==
  /\ i2 = i + 1 /\ (c2 <=> x = "CR")
  /\ IF x \in Counted /\ ~(x = "LF" /\ c) THEN n2 = n + 1 /\ f2 = i + 1
                                           ELSE n2 = n /\ f2 = f

LEMMA ReadsNext ==
  ASSUME text \in Seq(Char), NEW a \in 0..Len(text), NEW i \in 1..(Len(text) - a),
         NEW c, NEW n, NEW f, Reads(a, i, c, n, f), NEW x, x = text[a + i],
         NEW i2, NEW c2, NEW n2, NEW f2, Turn(x, i, c, n, f, i2, c2, n2, f2)
  PROVE  Reads(a, i2, c2, n2, f2)
<1>0. /\ i2 = i + 1 /\ (c2 <=> x = "CR")
      /\ IF x \in Counted /\ ~(x = "LF" /\ c) THEN n2 = n + 1 /\ f2 = i + 1
                                               ELSE n2 = n /\ f2 = f
  BY DEF Turn
<1>1. Len(text) \in Nat /\ i - 1 \in Nat /\ i - 1 + 1 = i /\ i + 1 - 1 = i /\ i + 1 > 1
  BY BytesNext
<1>2. i \in Breaks(a) <=> x \in Counted /\ ~(x = "LF" /\ c)
  BY <1>1 DEF Breaks, Reads
<1>3. /\ Cardinality(Upto(Breaks(a), i - 1)) \in Nat
      /\ Cardinality(Upto(Breaks(a), i - 1 + 1)) =
           Cardinality(Upto(Breaks(a), i - 1)) + IF i - 1 + 1 \in Breaks(a) THEN 1 ELSE 0
  BY <1>1, UptoNext
<1>4. n = Cardinality(Upto(Breaks(a), i - 1)) /\ IsLast(a, i - 1, f)
  BY DEF Reads
<1>5. n2 = Cardinality(Upto(Breaks(a), i))
  BY <1>0, <1>1, <1>2, <1>3, <1>4
<1>6. \A h : h \in Upto(Breaks(a), i) <=> \/ h \in Upto(Breaks(a), i - 1)
                                          \/ h = i /\ i \in Breaks(a)
  <2>1. \A h : h \in 1..i <=> h \in 1..(i - 1) \/ h = i
    BY <1>1
  <2>2. QED
    BY <2>1 DEF Upto
<1>7. \A h \in Upto(Breaks(a), i - 1) : h < i
  BY <1>1 DEF Upto
<1>8. IsLast(a, i, f2)
  <2>1. CASE i \in Breaks(a)
    <3>1. f2 = i + 1
      BY <1>0, <1>2, <2>1
    <3>2. \A h \in Upto(Breaks(a), i) : h < f2
      BY <1>1, <3>1 DEF Upto
    <3>3. QED
      BY <1>1, <2>1, <3>1, <3>2 DEF IsLast
  <2>2. CASE i \notin Breaks(a)
    <3>1. f2 = f
      BY <1>0, <1>2, <2>2
    <3>2. f \in 1..(i + 1)
      BY <1>1, <1>4 DEF IsLast
    <3>3. QED
      BY <1>4, <1>6, <2>2, <3>1, <3>2 DEF IsLast
  <2>3. QED
    BY <2>1, <2>2
<1>9. c2 <=> i2 > 1 /\ text[a + (i2 - 1)] = "CR"
  BY <1>0, <1>1
<1>10. QED
  BY <1>0, <1>1, <1>5, <1>8, <1>9 DEF Reads

\* The loop ends.
LEMMA ReadsAll ==
  ASSUME text \in Seq(Char), NEW a \in 0..Len(text), NEW m \in 0..(Len(text) - a),
         NEW c, NEW n, NEW f, Reads(a, m + 1, c, n, f)
  PROVE  IsScan(a, m, [line |-> n, column |-> Columns(SubSeq(SubSeq(text, a + 1, a + m),
                                                             f, m))])
<1> DEFINE slice == SubSeq(text, a + 1, a + m)
<1>1. /\ Len(text) \in Nat /\ a \in Nat /\ m \in Nat /\ m + 1 - 1 = m
      /\ a + m \in a..Len(text) /\ a + m - a = m
  BY BytesNext
<1>2. /\ n = Cardinality(Upto(Breaks(a), m)) /\ IsLast(a, m, f) /\ f \in 1..(m + 1)
  BY <1>1 DEF Reads, IsLast
<1>3. /\ slice \in Seq(Char) /\ Len(slice) = m
      /\ \A h \in 1..m : slice[h] = text[a + h]
  BY <1>1, SliceIs
<1> HIDE DEF slice
<1>4. /\ f - 1 \in 0..Len(slice) /\ m \in (f - 1)..Len(slice) /\ f - 1 + 1 = f
      /\ f \in 1..(m + 1)
  BY <1>1, <1>2, <1>3
<1>5. Columns(SubSeq(slice, f, m)) = Sums(slice, Width)[m] - Sums(slice, Width)[f - 1]
  <2>1. LET part == SubSeq(slice, f - 1 + 1, m)
        IN  Sums(part, Width)[Len(part)] = Sums(slice, Width)[m] - Sums(slice, Width)[f - 1]
    BY <1>3, <1>4, SumsOfSlice, WeightsAreNumbers
  <2>2. QED
    BY <1>4, <2>1 DEF Columns
<1>6. ASSUME NEW k \in 0..m
      PROVE  Sums(slice, Width)[k] = Column(a + k) - Column(a)
  <2>1. a + k \in a..Len(text) /\ k \in 0..(a + m - a)
    BY <1>1
  <2>2. ASSUME NEW b \in a..Len(text), b = a + m
        PROVE  Sums(SubSeq(text, a + 1, b), Width)[k] =
                 Sums(text, Width)[a + k] - Sums(text, Width)[a]
    <3>1. k \in 0..(b - a)
      BY <2>1, <2>2
    <3>2. Width \in [Char -> Nat]
      BY WeightsAreNumbers
    <3>3. \A j \in 0..(b - a) : Sums(SubSeq(text, a + 1, b), Width)[j] =
                                 Sums(text, Width)[a + j] - Sums(text, Width)[a]
      BY <3>2, SumsOfPrefix
    <3>4. QED
      BY <3>1, <3>3
  <2>3. QED
    BY <1>1, <2>2 DEF Column, slice
<1>7. m \in 0..m /\ f - 1 \in 0..m
  BY <1>1, <1>4
<1>8. Columns(SubSeq(slice, f, m)) = Column(a + m) - Column(a + (f - 1))
  <2>1. a + m \in 0..Len(text) /\ a + (f - 1) \in 0..Len(text)
    BY <1>1, <1>4
  <2>2. Column(a + m) \in Nat /\ Column(a + (f - 1)) \in Nat /\ Column(a) \in Nat
    BY <2>1, ColumnsNext
  <2>3. QED
    BY <1>5, <1>6, <1>7, <2>2
<1>9. QED
  BY <1>2, <1>8 DEF IsScan, slice

LEMMA ScansPrimed ==
  ASSUME UNCHANGED text
  PROVE  \A a, b :
           Scanning(a, b)' <=>
             /\ a \in 0..Len(text) /\ b \in a..Len(text) /\ span' = <<Byte(a), Byte(b)>>
             /\ stage' = "prefix" => it' \in 1..(a + 1) /\ Reads(0, it', caret', line', last')
             /\ stage' # "prefix" =>
                  it' \in 1..(b - a + 1) /\ Reads(a, it', caret', line', last')
             /\ stage' # "prefix" => IsScan(0, a, start')
             /\ stage' = "done" =>
                  \E r : /\ IsScan(a, b - a, r)
                         /\ end' = [line   |-> start'.line + r.line,
                                    column |-> IF r.line = 0 THEN start'.column + r.column
                                                             ELSE r.column]
  BY DEF Scanning, Reads, IsScan, IsLast, Upto, Breaks, Counted, Column, Byte

\* What is scanned: the text before the span, or inside it.
LEMMA ScannedIs ==
  ASSUME text \in Seq(Char), Tiled, Len(spans) = Len(text), NEW a, NEW b, Scanning(a, b)
  PROVE  /\ Len(text) \in Nat /\ a \in 0..Len(text) /\ b \in a..Len(text)
         /\ b - a \in 0..(Len(text) - a) /\ 0 \in 0..Len(text) /\ a \in 0..(Len(text) - 0)
         /\ stage = "prefix" => /\ Scanned = SubSeq(text, 0 + 1, 0 + a)
                                /\ DOMAIN Scanned = 1..a /\ Len(Scanned) = a
                                /\ \A h \in 1..a : Scanned[h] = text[0 + h]
         /\ stage # "prefix" => /\ Scanned = SubSeq(text, a + 1, a + (b - a))
                                /\ DOMAIN Scanned = 1..(b - a) /\ Len(Scanned) = b - a
                                /\ \A h \in 1..(b - a) : Scanned[h] = text[a + h]
<1>1. Len(text) \in Nat /\ a \in 0..Len(text) /\ b \in a..Len(text)
  BY BytesNext DEF Scanning
<1>2. /\ b - a \in 0..(Len(text) - a) /\ 0 \in 0..Len(text) /\ a \in 0..(Len(text) - 0)
      /\ b \in 0..Len(text) /\ a \in 0..Len(text) /\ a + (b - a) = b /\ 0 + a = a
      /\ a - 0 = a /\ a \in 0..Len(text) /\ b - 0 = b
  BY <1>1
<1>3. CharsBefore(0) = 0 /\ CharsBefore(Byte(a)) = a /\ CharsBefore(Byte(b)) = b
  <2>1. Byte(0) = 0
    BY BytesNext
  <2>2. QED
    BY <1>2, <2>1, CharsBeforeByte
<1>4. span[1] = Byte(a) /\ span[2] = Byte(b)
  BY DEF Scanning
<1>5. ASSUME stage = "prefix"
      PROVE  /\ Scanned = SubSeq(text, 0 + 1, 0 + a)
             /\ DOMAIN Scanned = 1..a /\ Len(Scanned) = a
             /\ \A h \in 1..a : Scanned[h] = text[0 + h]
  <2>1. Scanned = SubSeq(text, 0 + 1, a)
    BY <1>3, <1>4, <1>5 DEF Scanned, Slice
  <2>2. /\ Len(SubSeq(text, 0 + 1, a)) = a - 0
        /\ DOMAIN SubSeq(text, 0 + 1, a) = 1..(a - 0)
        /\ \A h \in 1..(a - 0) : SubSeq(text, 0 + 1, a)[h] = text[0 + h]
    BY <1>2, SliceIs
  <2>3. QED
    BY <1>2, <2>1, <2>2
<1>6. ASSUME stage # "prefix"
      PROVE  /\ Scanned = SubSeq(text, a + 1, a + (b - a))
             /\ DOMAIN Scanned = 1..(b - a) /\ Len(Scanned) = b - a
             /\ \A h \in 1..(b - a) : Scanned[h] = text[a + h]
  <2>1. Scanned = SubSeq(text, a + 1, b)
    BY <1>3, <1>4, <1>6 DEF Scanned, Slice
  <2>2. /\ Len(SubSeq(text, a + 1, b)) = b - a
        /\ DOMAIN SubSeq(text, a + 1, b) = 1..(b - a)
        /\ \A h \in 1..(b - a) : SubSeq(text, a + 1, b)[h] = text[a + h]
    BY <1>1, SliceIs
  <2>3. QED
    BY <1>2, <2>1, <2>2
<1>7. QED
  BY <1>1, <1>2, <1>5, <1>6

LEMMA MakeSpanScans ==
  ASSUME text \in Seq(Char), Tiled, Scans, MakeSpan
  PROVE  Scans'
<1>1. /\ stage = "span" /\ stage' = "prefix" /\ UNCHANGED <<text, tracker, scan, start, end>>
      /\ it = 1 /\ caret = FALSE /\ line = 0 /\ last = 1 /\ start = Unset /\ end = Unset
      /\ Len(spans) = Len(text)
  BY DEF MakeSpan, Scans, Tiled
<1>2. Len(text) \in Nat /\ DOMAIN spans = 1..Len(text)
  BY <1>1, BytesNext DEF Tiled
<1>3. \E a \in 0..Len(text) : \E b \in a..Len(text) : span' = <<Byte(a), Byte(b)>>
  <2>1. ASSUME NEW i \in DOMAIN spans, NEW j \in i..Len(spans),
               span' = <<spans[i][1], spans[j][2]>>
        PROVE  \E a \in 0..Len(text) : \E b \in a..Len(text) : span' = <<Byte(a), Byte(b)>>
    <3>1. i \in 1..Len(spans) /\ j \in 1..Len(spans)
      BY <1>1, <1>2
    <3>2. spans[i] = <<Byte(i - 1), Byte(i)>> /\ spans[j] = <<Byte(j - 1), Byte(j)>>
      BY <3>1 DEF Tiled
    <3>3. span' = <<Byte(i - 1), Byte(j)>>
      BY <2>1, <3>2
    <3>4. i - 1 \in 0..Len(text) /\ j \in (i - 1)..Len(text)
      BY <1>1, <1>2
    <3>5. QED
      BY <3>3, <3>4
  <2>2. CASE span' = <<TextLen, TextLen>>
    <3>1. span' = <<Byte(Len(text)), Byte(Len(text))>>
      BY <2>2 DEF TextLen, Byte
    <3>2. Len(text) \in 0..Len(text) /\ Len(text) \in Len(text)..Len(text)
      BY <1>2
    <3>3. QED
      BY <3>1, <3>2
  <2>3. QED
    BY <2>1, <2>2 DEF MakeSpan
<1>4. PICK a \in 0..Len(text) : \E b \in a..Len(text) : span' = <<Byte(a), Byte(b)>>
  BY <1>3
<1>5. PICK b \in a..Len(text) : span' = <<Byte(a), Byte(b)>>
  BY <1>4
<1>6. Reads(0, it', caret', line', last') /\ it' \in 1..(a + 1)
  <2>1. it' = 1 /\ caret' = FALSE /\ line' = 0 /\ last' = 1
    BY <1>1 DEF scan
  <2>2. QED
    BY <1>2, <2>1, ReadsFirst
<1>7. Scanning(a, b)'
  BY <1>1, <1>5, <1>6, ScansPrimed
<1>8. QED
  BY <1>1, <1>7 DEF Scans, scan, Unset

LEMMA ScanCharScans ==
  ASSUME text \in Seq(Char), Tiled, Scans, ScanChar
  PROVE  Scans'
<1> DEFINE x == Scanned[it]
<1>1. /\ stage \in {"prefix", "inside"} /\ it \in DOMAIN Scanned
      /\ UNCHANGED <<text, stage, tracker, span, start, end>>
      /\ it' = it + 1 /\ caret' = (x = "CR") /\ caret \in BOOLEAN
      /\ IF x \in {"CR", "LF", "FF", "NEL", "LS"} /\ ~(x = "LF" /\ caret)
         THEN line' = line + 1 /\ last' = it + 1 ELSE UNCHANGED <<line, last>>
  BY DEF ScanChar, Scans
<1>2. PICK a, b : Scanning(a, b)
  BY <1>1 DEF Scans
<1>3. Len(spans) = Len(text)
  BY <1>1 DEF Tiled
<1>4. Counted = {"CR", "LF", "FF", "NEL", "LS"}
  BY DEF Counted, Break
<1> HIDE DEF x
<1>5. Turn(x, it, caret, line, last, it', caret', line', last')
  BY <1>1, <1>4 DEF Turn
<1>6. CASE stage = "prefix"
  <2>1. /\ Len(text) \in Nat /\ a \in 0..Len(text) /\ 0 \in 0..Len(text)
        /\ it \in 1..a /\ x = text[0 + it]
    BY <1>1, <1>2, <1>3, <1>6, ScannedIs DEF x
  <2>2. it \in 1..(Len(text) - 0) /\ it + 1 \in 1..(a + 1)
    BY <2>1
  <2>3. Reads(0, it, caret, line, last)
    BY <1>2, <1>6 DEF Scanning
  <2>5. Reads(0, it', caret', line', last')
    BY <1>5, <2>1, <2>2, <2>3, ReadsNext
  <2>6. Scanning(a, b)'
    BY <1>1, <1>2, <1>6, <2>2, <2>5, ScansPrimed DEF Scanning
  <2>7. QED
    BY <1>1, <1>6, <2>6 DEF Scans, Unset
<1>7. CASE stage = "inside"
  <2>1. /\ Len(text) \in Nat /\ a \in 0..Len(text) /\ b \in a..Len(text)
        /\ it \in 1..(b - a) /\ x = text[a + it]
    BY <1>1, <1>2, <1>3, <1>7, ScannedIs DEF x
  <2>2. it \in 1..(Len(text) - a) /\ it + 1 \in 1..(b - a + 1)
    BY <2>1
  <2>3. Reads(a, it, caret, line, last)
    BY <1>2, <1>7 DEF Scanning
  <2>5. Reads(a, it', caret', line', last')
    BY <1>5, <2>1, <2>2, <2>3, ReadsNext
  <2>6. Scanning(a, b)'
    BY <1>1, <1>2, <1>7, <2>2, <2>5, ScansPrimed DEF Scanning
  <2>7. QED
    BY <1>1, <1>7, <2>6 DEF Scans, Unset
<1>8. QED
  BY <1>1, <1>6, <1>7

LEMMA StartScannedScans ==
  ASSUME text \in Seq(Char), Tiled, Scans, StartScanned
  PROVE  Scans'
<1>1. /\ stage = "prefix" /\ it \notin DOMAIN Scanned /\ start' = Scan /\ stage' = "inside"
      /\ it' = 1 /\ caret' = FALSE /\ line' = 0 /\ last' = 1
      /\ UNCHANGED <<text, tracker, span, end>> /\ Len(spans) = Len(text)
  BY DEF StartScanned, Tiled
<1>2. PICK a, b : Scanning(a, b)
  BY <1>1 DEF Scans
<1>3. /\ Len(text) \in Nat /\ a \in 0..Len(text) /\ b \in a..Len(text)
      /\ 0 \in 0..Len(text) /\ a \in 0..(Len(text) - 0)
      /\ Scanned = SubSeq(text, 0 + 1, 0 + a) /\ DOMAIN Scanned = 1..a /\ Len(Scanned) = a
  BY <1>1, <1>2, ScannedIs
<1>4. it = a + 1 /\ Reads(0, a + 1, caret, line, last)
  <2>1. it \in 1..(a + 1) /\ Reads(0, it, caret, line, last)
    BY <1>1, <1>2 DEF Scanning
  <2>2. QED
    BY <1>1, <1>3, <2>1
<1>5. IsScan(0, a, Scan)
  <2>1. Scan = [line |-> line,
                column |-> Columns(SubSeq(SubSeq(text, 0 + 1, 0 + a), last, a))]
    BY <1>3 DEF Scan
  <2>2. QED
    BY <1>3, <1>4, <2>1, ReadsAll
<1>6. Reads(a, it', caret', line', last') /\ it' \in 1..(b - a + 1)
  BY <1>1, <1>3, ReadsFirst
<1>7. Scanning(a, b)'
  BY <1>1, <1>2, <1>5, <1>6, ScansPrimed DEF Scanning
<1>8. QED
  BY <1>1, <1>7 DEF Scans, Unset

LEMMA EndScannedScans ==
  ASSUME text \in Seq(Char), Tiled, Scans, EndScanned
  PROVE  Scans'
<1>1. /\ stage = "inside" /\ it \notin DOMAIN Scanned /\ stage' = "done"
      /\ end' = [line   |-> start.line + Scan.line,
                 column |-> IF Scan.line = 0 THEN start.column + Scan.column
                                             ELSE Scan.column]
      /\ UNCHANGED <<text, tracker, span, scan, start>> /\ Len(spans) = Len(text)
      /\ caret \in BOOLEAN
  BY DEF EndScanned, Tiled, Scans
<1>2. PICK a, b : Scanning(a, b)
  BY <1>1 DEF Scans
<1>3. /\ Len(text) \in Nat /\ a \in 0..Len(text) /\ b \in a..Len(text)
      /\ b - a \in 0..(Len(text) - a)
      /\ Scanned = SubSeq(text, a + 1, a + (b - a))
      /\ DOMAIN Scanned = 1..(b - a) /\ Len(Scanned) = b - a
  BY <1>1, <1>2, ScannedIs
<1>4. /\ it \in 1..(b - a + 1) /\ Reads(a, it, caret, line, last) /\ IsScan(0, a, start)
      /\ span = <<Byte(a), Byte(b)>>
  BY <1>1, <1>2 DEF Scanning
<1>5. it = b - a + 1
  BY <1>1, <1>3, <1>4
<1>6. IsScan(a, b - a, Scan)
  <2>1. Scan = [line |-> line,
                column |-> Columns(SubSeq(SubSeq(text, a + 1, a + (b - a)), last, b - a))]
    BY <1>3 DEF Scan
  <2>2. Reads(a, b - a + 1, caret, line, last)
    BY <1>4, <1>5
  <2>3. QED
    BY <1>3, <2>1, <2>2, ReadsAll
<1>7. Reads(a, it', caret', line', last') /\ it' \in 1..(b - a + 1)
      /\ start' = start /\ span' = span
  BY <1>1, <1>4 DEF scan
<1>8. \E r : /\ IsScan(a, b - a, r)
             /\ end' = [line   |-> start'.line + r.line,
                        column |-> IF r.line = 0 THEN start'.column + r.column
                                                 ELSE r.column]
  BY <1>1, <1>6, <1>7
<1>9. Scanning(a, b)'
  BY <1>1, <1>3, <1>4, <1>7, <1>8, ScansPrimed
<1>10. QED
  BY <1>1, <1>9 DEF Scans, scan

LEMMA NextKeepsScans == text \in Seq(Char) /\ Tiled /\ Scans /\ [Next]_vars => Scans'
<1> SUFFICES ASSUME text \in Seq(Char), Tiled, Scans, [Next]_vars PROVE Scans'
  OBVIOUS
<1>1. CASE NextSpan \/ EndOfInput
  <2>1. /\ stage \in {"stream", "span"} /\ stage' \in {"stream", "span"}
        /\ UNCHANGED <<text, span, scan, start, end>>
    BY <1>1 DEF NextSpan, EndOfInput
  <2>2. QED
    BY <2>1 DEF Scans, scan, Unset
<1>2. CASE UNCHANGED vars
  <2>1. UNCHANGED <<text, stage, span, it, caret, line, last, start, end>>
    BY <1>2 DEF vars, scan
  <2>2. ASSUME NEW a, NEW b, Scanning(a, b) PROVE Scanning(a, b)'
    <3>1. UNCHANGED <<text, stage>> /\ UNCHANGED <<span, start, end>>
      BY <2>1
    <3>2. Reads(0, it, caret, line, last) => Reads(0, it', caret', line', last')
      BY <2>1, Zenon
    <3>3. Reads(a, it, caret, line, last) => Reads(a, it', caret', line', last')
      BY <2>1, Zenon
    <3>4. QED
      BY <2>1, <2>2, <3>1, <3>2, <3>3, ScansPrimed DEF Scanning
  <2>3. (\E a, b : Scanning(a, b)) => \E a, b : Scanning(a, b)'
    BY <2>2
  <2>4. QED
    BY <2>1, <2>3 DEF Scans, Unset
<1>3. QED
  BY <1>1, <1>2, MakeSpanScans, ScanCharScans, StartScannedScans, EndScannedScans DEF Next

LEMMA InitScans == Init => Scans
  BY DEF Init, Scans

LEMMA InductiveInvariant == Spec => [](text \in Seq(Char) /\ Tiled /\ Scans)
<1>1. Init => text \in Seq(Char) /\ Tiled /\ Scans
  BY InitTiled, InitScans
<1>2. /\ text \in Seq(Char) /\ Tiled /\ Scans /\ [Next]_vars
      => (text \in Seq(Char) /\ Tiled /\ Scans)'
  BY TextStays, NextKeepsTiled, NextKeepsScans
<1>3. QED
  BY <1>1, <1>2, PTL DEF Spec

\* What has been found when both scans are over.
LEMMA EndedIs ==
  ASSUME text \in Seq(Char), Tiled, Scans, stage = "done"
  PROVE  \E a \in 0..Len(text) : \E b \in a..Len(text) : \E r :
           /\ CharsBefore(span[1]) = a /\ CharsBefore(span[2]) = b
           /\ IsScan(0, a, start) /\ IsScan(a, b - a, r)
           /\ start \in [line : Nat, column : Nat] /\ r \in [line : Nat, column : Nat]
           /\ end = [line   |-> start.line + r.line,
                     column |-> IF r.line = 0 THEN start.column + r.column ELSE r.column]
<1>1. PICK a, b : Scanning(a, b)
  BY DEF Scans
<1>2. /\ a \in 0..Len(text) /\ b \in a..Len(text) /\ span = <<Byte(a), Byte(b)>>
      /\ IsScan(0, a, start)
      /\ \E r : /\ IsScan(a, b - a, r)
                /\ end = [line   |-> start.line + r.line,
                          column |-> IF r.line = 0 THEN start.column + r.column
                                                   ELSE r.column]
  BY <1>1 DEF Scanning
<1>3. PICK r : /\ IsScan(a, b - a, r)
               /\ end = [line   |-> start.line + r.line,
                         column |-> IF r.line = 0 THEN start.column + r.column
                                                  ELSE r.column]
  BY <1>2
<1>4. /\ Len(text) \in Nat /\ 0 \in 0..Len(text) /\ b \in 0..Len(text)
      /\ a \in 0..(Len(text) - 0) /\ b - a \in 0..(Len(text) - a) /\ Len(spans) = Len(text)
  BY <1>2, BytesNext DEF Tiled
<1>5. CharsBefore(span[1]) = a /\ CharsBefore(span[2]) = b
  <2>1. span[1] = Byte(a) /\ span[2] = Byte(b)
    BY <1>2
  <2>2. CharsBefore(Byte(a)) = a /\ CharsBefore(Byte(b)) = b
    BY <1>2, <1>4, CharsBeforeByte
  <2>3. QED
    BY <2>1, <2>2
<1>6. start \in [line : Nat, column : Nat] /\ r \in [line : Nat, column : Nat]
  BY <1>2, <1>3, <1>4, ScanType
<1>7. QED
  BY <1>2, <1>3, <1>5, <1>6

\* An end is never before its start (span.rs, to_line_column).
THEOREM EndsComeAfterStarts == Spec => []EndIsNotBeforeStart
<1>1. ASSUME text \in Seq(Char), Tiled, Scans, stage = "done"
      PROVE  \/ start.line < end.line
             \/ start.line = end.line /\ start.column <= end.column
  <2>1. PICK r : /\ start \in [line : Nat, column : Nat] /\ r \in [line : Nat, column : Nat]
                 /\ end = [line   |-> start.line + r.line,
                           column |-> IF r.line = 0 THEN start.column + r.column
                                                    ELSE r.column]
    BY <1>1, EndedIs
  <2>2. start.line \in Nat /\ start.column \in Nat /\ r.line \in Nat /\ r.column \in Nat
    BY <2>1
  <2>3. CASE r.line = 0
    <3>1. end.line = start.line + r.line /\ end.column = start.column + r.column
      BY <2>1, <2>3
    <3>2. QED
      BY <2>2, <2>3, <3>1
  <2>4. CASE r.line # 0
    <3>1. end.line = start.line + r.line
      BY <2>1
    <3>2. QED
      BY <2>2, <2>4, <3>1
  <2>5. QED
    BY <2>3, <2>4
<1>2. text \in Seq(Char) /\ Tiled /\ Scans => EndIsNotBeforeStart
  BY <1>1 DEF EndIsNotBeforeStart, Ended
<1>3. QED
  BY <1>2, InductiveInvariant, PTL

LEMMA UptoAtMost ==
  ASSUME NEW S, NEW k \in Nat
  PROVE  Cardinality(Upto(S, k)) <= k
<1>1. IsFiniteSet(1..k) /\ Cardinality(1..k) = k
  <2>1. Cardinality(1..k) = IF 1 > k THEN 0 ELSE k - 1 + 1
    BY FS_Interval
  <2>2. QED
    BY <2>1, FS_Interval
<1>2. Upto(S, k) \subseteq 1..k
  BY DEF Upto
<1>3. QED
  BY <1>1, <1>2, FS_Subset

LEMMA ReadsType ==
  ASSUME NEW a, NEW i \in Nat, i >= 1, NEW c, NEW n, NEW f, Reads(a, i, c, n, f)
  PROVE  n \in Nat /\ n < i /\ f \in 1..i
<1>1. i - 1 \in Nat /\ i - 1 + 1 = i
  OBVIOUS
<1>2. /\ Cardinality(Upto(Breaks(a), i - 1)) \in Nat
      /\ Cardinality(Upto(Breaks(a), i - 1)) <= i - 1
  BY <1>1, UptoNext, UptoAtMost
<1>3. n = Cardinality(Upto(Breaks(a), i - 1)) /\ f \in 1..i
  BY <1>1 DEF Reads, IsLast
<1>4. QED
  BY <1>2, <1>3

LEMMA TypesFit ==
  ASSUME text \in Seq(Char), Tiled, Scans
  PROVE  TypeOK
<1>1. Len(text) \in Nat /\ Len(spans) \in 0..Len(text) /\ Byte(0) = 0
  BY BytesNext DEF Tiled
<1>2. offset \in Nat
  BY <1>1, BytesNext DEF Tiled
<1>3. Unset \in [line : Nat, column : Nat]
  BY DEF Unset
<1>4. CASE stage \in {"stream", "span"}
  <2>1. /\ it = 1 /\ line = 0 /\ last = 1
        /\ span = <<0, 0>> /\ start = Unset /\ end = Unset
    BY <1>4 DEF Scans
  <2>2. caret \in BOOLEAN
    BY DEF Scans
  <2>3. span[1] <= span[2] /\ it \in 1..(Len(text) + 1) /\ last \in 1..it /\ line < it
    BY <1>1, <2>1
  <2>4. {start, end} \subseteq [line : Nat, column : Nat]
    BY <1>3, <2>1
  <2>5. QED
    BY <1>1, <1>2, <1>4, <2>2, <2>3, <2>4 DEF TypeOK
<1>5. CASE stage \notin {"stream", "span"}
  <2>1. PICK a, b : Scanning(a, b)
    BY <1>5 DEF Scans
  <2>2. a \in 0..Len(text) /\ b \in a..Len(text) /\ span = <<Byte(a), Byte(b)>>
    BY <2>1 DEF Scanning
  <2>3. span[1] <= span[2]
    <3>1. a \in Nat /\ b \in 0..Len(text) /\ (a = b \/ a < b)
      BY <1>1, <2>2
    <3>2. a < b => Byte(a) < Byte(b)
      BY <2>2, <3>1, BytesGrow
    <3>3. Byte(a) \in Nat /\ Byte(b) \in Nat
      BY <2>2, <3>1, BytesNext
    <3>4. Byte(a) <= Byte(b)
      BY <3>1, <3>2, <3>3
    <3>5. QED
      BY <2>2, <3>4
  <2>4. it \in 1..(Len(text) + 1) /\ last \in 1..it /\ line < it
    <3>1. CASE stage = "prefix"
      <4>1. it \in 1..(a + 1) /\ Reads(0, it, caret, line, last)
        BY <2>1, <3>1 DEF Scanning
      <4>2. it \in Nat /\ it >= 1 /\ it \in 1..(Len(text) + 1)
        BY <1>1, <2>2, <4>1
      <4>3. QED
        BY <4>1, <4>2, ReadsType
    <3>2. CASE stage # "prefix"
      <4>1. it \in 1..(b - a + 1) /\ Reads(a, it, caret, line, last)
        BY <2>1, <3>2 DEF Scanning
      <4>2. it \in Nat /\ it >= 1 /\ it \in 1..(Len(text) + 1)
        BY <1>1, <2>2, <4>1
      <4>3. QED
        BY <4>1, <4>2, ReadsType
    <3>3. QED
      BY <3>1, <3>2
  <2>5. start \in [line : Nat, column : Nat]
    <3>1. CASE stage = "prefix"
      BY <1>3, <3>1 DEF Scans
    <3>2. CASE stage # "prefix"
      <4>1. IsScan(0, a, start)
        BY <2>1, <3>2 DEF Scanning
      <4>2. 0 \in 0..Len(text) /\ a \in 0..(Len(text) - 0)
        BY <1>1, <2>2
      <4>3. QED
        BY <4>1, <4>2, ScanType
    <3>3. QED
      BY <3>1, <3>2
  <2>6. end \in [line : Nat, column : Nat]
    <3>1. CASE stage = "done"
      <4>1. PICK r : /\ start \in [line : Nat, column : Nat]
                     /\ r \in [line : Nat, column : Nat]
                     /\ end = [line   |-> start.line + r.line,
                               column |-> IF r.line = 0 THEN start.column + r.column
                                                        ELSE r.column]
        BY <3>1, EndedIs
      <4>2. start.line \in Nat /\ start.column \in Nat /\ r.line \in Nat /\ r.column \in Nat
        BY <4>1
      <4>3. start.line + r.line \in Nat /\ start.column + r.column \in Nat
        BY <4>2
      <4>4. QED
        BY <4>1, <4>2, <4>3
    <3>2. CASE stage # "done"
      BY <1>3, <3>2 DEF Scans
    <3>3. QED
      BY <3>1, <3>2
  <2>7. QED
    BY <1>1, <1>2, <2>3, <2>4, <2>5, <2>6 DEF TypeOK, Scans
<1>6. QED
  BY <1>4, <1>5

\* The variables have their types (span.rs), for every text.
THEOREM TypeCorrect == Spec => []TypeOK
  BY TypesFit, InductiveInvariant, PTL

----------------------------------------------------------------------------
(***************************************************************************)
(* Two scans are one: what is found inside the span goes on from what was  *)
(* found before it, unless the span begins between a CR and its LF.        *)
(***************************************************************************)

Split(k) == k \in 1..(Len(text) - 1) /\ text[k] = "CR" /\ text[k + 1] = "LF"

LEMMA BreaksShift ==
  ASSUME text \in Seq(Char), NEW a \in 0..Len(text), ~Split(a)
  PROVE  \A h \in 1..(Len(text) - a) : a + h \in Breaks(0) <=> h \in Breaks(a)
<1>1. Len(text) \in Nat /\ a \in Nat
  BY BytesNext
<1>2. SUFFICES ASSUME NEW h \in 1..(Len(text) - a)
               PROVE  a + h \in Breaks(0) <=> h \in Breaks(a)
  OBVIOUS
<1>3. /\ a + h \in 1..(Len(text) - 0) /\ 0 + (a + h) = a + h
      /\ 0 + (a + h - 1) = a + (h - 1) /\ h \in Nat
  BY <1>1
<1>4. CASE h > 1
  <2>1. a + h > 1
    BY <1>1, <1>4
  <2>2. QED
    BY <1>3, <1>4, <2>1 DEF Breaks
<1>5. CASE h = 1
  <2>1. a + h > 1 => a \in 1..(Len(text) - 1)
    BY <1>1, <1>5
  <2>2. a + h = a + 1 /\ a + (h - 1) = a /\ ~(h > 1)
    BY <1>1, <1>5
  <2>3. ~(a + h > 1 /\ text[a + h] = "LF" /\ text[a + (h - 1)] = "CR")
    BY <2>1, <2>2 DEF Split
  <2>4. QED
    BY <1>3, <2>2, <2>3 DEF Breaks
<1>6. QED
  BY <1>3, <1>4, <1>5

LEMMA CountsAddUp ==
  ASSUME text \in Seq(Char), NEW a \in 0..Len(text), ~Split(a),
         NEW m \in 0..(Len(text) - a)
  PROVE  Cardinality(Upto(Breaks(0), a + m)) =
           Cardinality(Upto(Breaks(0), a)) + Cardinality(Upto(Breaks(a), m))
<1> DEFINE C(k) == Cardinality(Upto(Breaks(0), k))
           D(k) == Cardinality(Upto(Breaks(a), k))
           S == {k \in 0..m : C(a + k) = C(a) + D(k)}
<1>1. Len(text) \in Nat /\ a \in Nat /\ m \in Nat
  BY BytesNext
<1>2. /\ \A k \in Nat : C(k) \in Nat /\ D(k) \in Nat
      /\ D(0) = 0
      /\ \A k \in Nat : /\ C(k + 1) = C(k) + IF k + 1 \in Breaks(0) THEN 1 ELSE 0
                        /\ D(k + 1) = D(k) + IF k + 1 \in Breaks(a) THEN 1 ELSE 0
  BY UptoNext
<1> HIDE DEF C, D
<1>3. 0 \in S
  BY <1>1, <1>2
<1>4. ASSUME NEW k \in 0..(m - 1), k \in S PROVE k + 1 \in S
  <2>1. /\ k + 1 \in 1..(Len(text) - a) /\ a + k \in Nat /\ k \in Nat /\ k + 1 \in 0..m
        /\ a + k + 1 = a + (k + 1)
    BY <1>1
  <2>2. a + (k + 1) \in Breaks(0) <=> k + 1 \in Breaks(a)
    BY <2>1, BreaksShift
  <2>3. C(a + k + 1) = C(a + k) + IF a + k + 1 \in Breaks(0) THEN 1 ELSE 0
    BY <1>2, <2>1
  <2>4. D(k + 1) = D(k) + IF k + 1 \in Breaks(a) THEN 1 ELSE 0
    BY <1>2, <2>1
  <2>5. C(a) \in Nat /\ D(k) \in Nat /\ C(a + k) = C(a) + D(k)
    BY <1>1, <1>2, <1>4, <2>1
  <2>6. C(a + (k + 1)) = C(a) + D(k + 1)
    <3>1. CASE k + 1 \in Breaks(a)
      BY <2>1, <2>2, <2>3, <2>4, <2>5, <3>1
    <3>2. CASE k + 1 \notin Breaks(a)
      BY <2>1, <2>2, <2>3, <2>4, <2>5, <3>2
    <3>3. QED
      BY <3>1, <3>2
  <2>7. QED
    BY <2>1, <2>6
<1>5. 0..m \subseteq S
  <2> HIDE DEF S
  <2>1. QED
    BY <1>1, <1>3, <1>4, OneByOne
<1>6. QED
  BY <1>1, <1>5 DEF C, D

LEMMA EndIsScan ==
  ASSUME text \in Seq(Char), NEW a \in 0..Len(text), NEW b \in a..Len(text), ~Split(a),
         NEW s \in [line : Nat, column : Nat], IsScan(0, a, s),
         NEW r \in [line : Nat, column : Nat], IsScan(a, b - a, r)
  PROVE  IsScan(0, b, [line   |-> s.line + r.line,
                       column |-> IF r.line = 0 THEN s.column + r.column ELSE r.column])
<1> DEFINE m == b - a
           e == [line   |-> s.line + r.line,
                 column |-> IF r.line = 0 THEN s.column + r.column ELSE r.column]
<1>1. /\ Len(text) \in Nat /\ a \in Nat /\ b \in Nat /\ m \in 0..(Len(text) - a)
      /\ m \in Nat /\ a + m = b /\ b \in 0..Len(text)
  BY BytesNext
<1>2. PICK f \in 1..(a + 1) :
        /\ IsLast(0, a, f)
        /\ s = [line |-> Cardinality(Upto(Breaks(0), a)),
                column |-> Column(0 + a) - Column(0 + (f - 1))]
  BY DEF IsScan
<1>3. PICK g \in 1..(m + 1) :
        /\ IsLast(a, m, g)
        /\ r = [line |-> Cardinality(Upto(Breaks(a), m)),
                column |-> Column(a + m) - Column(a + (g - 1))]
  BY DEF IsScan
<1> HIDE DEF m
<1>4. e.line = Cardinality(Upto(Breaks(0), b))
  <2>1. Cardinality(Upto(Breaks(0), a + m)) =
          Cardinality(Upto(Breaks(0), a)) + Cardinality(Upto(Breaks(a), m))
    BY <1>1, CountsAddUp
  <2>2. QED
    BY <1>1, <1>2, <1>3, <2>1
\* A break up to b is one of the first scan or one of the second.
<1>5. \A h \in Upto(Breaks(0), b) : \/ h \in Upto(Breaks(0), a)
                                    \/ h - a \in Upto(Breaks(a), m)
  <2>1. ASSUME NEW h \in Upto(Breaks(0), b), ~(h \in 1..a)
        PROVE  h - a \in Upto(Breaks(a), m)
    <3>1. h \in 1..b /\ h \in Breaks(0)
      BY DEF Upto
    <3>2. h - a \in 1..m /\ a + (h - a) = h /\ h - a \in 1..(Len(text) - a)
      BY <1>1, <2>1, <3>1
    <3>3. h - a \in Breaks(a)
      <4>1. ASSUME NEW d \in 1..(Len(text) - a), a + d = h PROVE d \in Breaks(a)
        BY <3>1, <4>1, BreaksShift
      <4>2. QED
        BY <3>2, <4>1
    <3>4. QED
      BY <3>2, <3>3 DEF Upto
  <2>2. QED
    BY <2>1 DEF Upto
<1>6. /\ Cardinality(Upto(Breaks(a), m)) = r.line
      /\ r.line = 0 <=> Upto(Breaks(a), m) = {}
  BY <1>1, <1>3, UptoNext
<1>7. /\ s.column = Column(a) - Column(f - 1) /\ r.column = Column(b) - Column(a + (g - 1))
      /\ Column(a) \in Nat /\ Column(f - 1) \in Nat /\ Column(b) \in Nat
      /\ f \in Nat /\ g \in Nat /\ f - 1 \in 0..Len(text)
  <2>1. 0 + a = a /\ 0 + (f - 1) = f - 1 /\ f - 1 \in 0..Len(text) /\ f \in Nat /\ g \in Nat
    BY <1>1
  <2>2. QED
    BY <1>1, <1>2, <1>3, <2>1, ColumnsNext
<1>8. CASE r.line = 0
  <2>1. g = 1
    <3>1. ASSUME g # 1 PROVE FALSE
      <4>1. g - 1 \in Breaks(a) /\ g - 1 \in 1..m
        BY <1>1, <1>3, <3>1 DEF IsLast
      <4>2. g - 1 \in Upto(Breaks(a), m)
        BY <4>1 DEF Upto
      <4>3. QED
        BY <1>6, <1>8, <4>2
    <3>2. QED
      BY <3>1
  <2>2. e.column = Column(b) - Column(f - 1)
    <3>1. a + (g - 1) = a
      BY <1>1, <2>1
    <3>2. QED
      BY <1>7, <1>8, <3>1
  <2>3. IsLast(0, b, f)
    <3>1. f \in 1..(b + 1)
      BY <1>1, <1>2
    <3>2. \A h \in Upto(Breaks(0), b) : h \in Upto(Breaks(0), a)
      BY <1>5, <1>6, <1>8
    <3>3. QED
      BY <1>2, <3>1, <3>2 DEF IsLast
  <2>4. f \in 1..(b + 1) /\ 0 + b = b /\ 0 + (f - 1) = f - 1
    BY <1>1, <1>2
  <2>5. QED
    BY <1>4, <2>2, <2>3, <2>4 DEF IsScan
<1>9. CASE r.line # 0
  <2>1. g - 1 \in Breaks(a) /\ g - 1 \in 1..m
    <3>1. PICK h \in Upto(Breaks(a), m) : TRUE
      BY <1>6, <1>9
    <3>2. h < g /\ h \in 1..m
      BY <1>3 DEF IsLast, Upto
    <3>3. g # 1 /\ g - 1 \in 1..m
      BY <1>1, <1>3, <3>2
    <3>4. QED
      BY <1>3, <3>3 DEF IsLast
  <2>2. PICK j \in 1..(b + 1) : j = a + g
    <3>1. a + g \in 1..(b + 1)
      BY <1>1
    <3>2. QED
      BY <3>1
  <2>3. j - 1 = a + (g - 1) /\ 0 + b = b /\ 0 + (j - 1) = a + (g - 1)
    BY <1>1, <1>7, <2>2
  <2>4. j - 1 \in Breaks(0)
    <3>1. g - 1 \in 1..(Len(text) - a)
      BY <1>1, <2>1
    <3>2. a + (g - 1) \in Breaks(0)
      <4>1. ASSUME NEW d \in 1..(Len(text) - a), d = g - 1 PROVE a + d \in Breaks(0)
        BY <2>1, <4>1, BreaksShift
      <4>2. QED
        BY <3>1, <4>1
    <3>3. QED
      BY <2>3, <3>2
  <2>5. \A h \in Upto(Breaks(0), b) : h < j
    <3>1. ASSUME NEW h \in Upto(Breaks(0), a) PROVE h < j
      <4>1. h \in 1..a
        BY DEF Upto
      <4>2. QED
        BY <1>1, <1>3, <2>2, <4>1
    <3>2. ASSUME NEW h \in Upto(Breaks(0), b), h - a \in Upto(Breaks(a), m) PROVE h < j
      <4>1. h - a < g /\ h \in 1..b
        BY <1>3, <3>2 DEF IsLast, Upto
      <4>2. QED
        BY <1>1, <1>7, <2>2, <4>1
    <3>3. QED
      BY <1>5, <3>1, <3>2
  <2>6. IsLast(0, b, j)
    BY <2>2, <2>4, <2>5 DEF IsLast
  <2>7. e.column = Column(0 + b) - Column(0 + (j - 1))
    BY <1>7, <1>9, <2>3
  <2>8. QED
    BY <1>4, <2>2, <2>6, <2>7 DEF IsScan
<1>10. QED
  BY <1>8, <1>9

----------------------------------------------------------------------------
(***************************************************************************)
(* What a scan finds and what the positions are.                           *)
(***************************************************************************)

\* Without a CR LF, the position of the last character: the same lines, the
\* same column.
LEMMA ScanIsPosition ==
  ASSUME text \in Seq(Char), ~HasCrLf, NEW k \in 0..Len(text), NEW r, IsScan(0, k, r)
  PROVE  r = Position(k, Break \ {"VT"})
<1> DEFINE ends == {h \in 1..k : EndsLine(h, Break \ {"VT"})}
           first == 1 + IF ends = {} THEN 0 ELSE Max(ends)
<1>1. /\ Len(text) \in Nat /\ k \in Nat /\ 0 + k = k /\ Len(text) - 0 = Len(text)
      /\ 0 \in 0..Len(text)
  BY BytesNext
<1>2. PICK f \in 1..(k + 1) :
        /\ IsLast(0, k, f)
        /\ r = [line |-> Cardinality(Upto(Breaks(0), k)),
                column |-> Column(0 + k) - Column(0 + (f - 1))]
  BY DEF IsScan
<1>3. ends = Upto(Breaks(0), k)
  <2>1. ASSUME NEW h \in 1..k
        PROVE  EndsLine(h, Break \ {"VT"}) <=> h \in Breaks(0)
    <3>1. /\ h \in 1..Len(text) /\ 0 + h = h /\ 0 + (h - 1) = h - 1
          /\ h > 1 => h - 1 \in 1..(Len(text) - 1) /\ h - 1 + 1 = h
          /\ h < Len(text) => h \in 1..(Len(text) - 1)
      BY <1>1
    <3>2. ~(text[h] = "CR" /\ h < Len(text) /\ text[h + 1] = "LF")
      BY <3>1 DEF HasCrLf
    <3>3. ~(h > 1 /\ text[h] = "LF" /\ text[h - 1] = "CR")
      BY <3>1 DEF HasCrLf
    <3>4. QED
      BY <1>1, <3>1, <3>2, <3>3 DEF EndsLine, Breaks, Counted
  <2>2. QED
    BY <2>1 DEF Upto
<1> HIDE DEF ends
<1>4. first = f
  <2>1. CASE f = 1
    <3>1. ends = {}
      <4>1. ASSUME NEW h \in ends PROVE FALSE
        <5>1. h < f /\ h \in 1..k
          BY <1>2, <1>3 DEF IsLast, Upto
        <5>2. QED
          BY <1>1, <2>1, <5>1
      <4>2. QED
        BY <4>1
    <3>2. QED
      BY <2>1, <3>1
  <2>2. CASE f # 1
    <3>1. f - 1 \in 1..k
      BY <1>1, <2>2
    <3>2. f - 1 \in ends
      BY <1>2, <1>3, <2>2, <3>1 DEF IsLast, Upto
    <3>3. \A h \in ends : h \in Nat /\ f - 1 >= h
      <4>1. ASSUME NEW h \in ends PROVE h \in Nat /\ f - 1 >= h
        <5>1. h < f /\ h \in 1..k
          BY <1>2, <1>3 DEF IsLast, Upto
        <5>2. QED
          BY <1>1, <5>1
      <4>2. QED
        BY <4>1
    <3>4. Max(ends) = f - 1
      <4>1. f - 1 \in Nat
        BY <3>1
      <4>2. \E x \in ends : \A y \in ends : x >= y
        BY <3>2, <3>3
      <4>3. Max(ends) \in ends /\ \A y \in ends : Max(ends) >= y
        BY <4>2 DEF Max
      <4>4. Max(ends) \in Nat /\ Max(ends) >= f - 1 /\ f - 1 >= Max(ends)
        BY <3>2, <3>3, <4>3
      <4>5. QED
        BY <4>1, <4>4
    <3>5. 1 + (f - 1) = f
      BY <1>1
    <3>6. QED
      BY <3>2, <3>4, <3>5
  <2>3. QED
    BY <2>1, <2>2
<1> HIDE DEF first
<1>5. Columns(SubSeq(text, first, k)) = Column(k) - Column(f - 1)
  <2>1. f - 1 \in 0..Len(text) /\ k \in (f - 1)..Len(text) /\ f - 1 + 1 = f
    BY <1>1
  <2>2. ASSUME NEW d \in 0..Len(text), k \in d..Len(text)
        PROVE  Columns(SubSeq(text, d + 1, k)) = Column(k) - Column(d)
    <3>1. LET slice == SubSeq(text, d + 1, k)
          IN  Sums(slice, Width)[Len(slice)] = Sums(text, Width)[k] - Sums(text, Width)[d]
      BY <2>2, SumsOfSlice, WeightsAreNumbers
    <3>2. QED
      BY <3>1 DEF Columns, Column
  <2>3. Columns(SubSeq(text, f - 1 + 1, k)) = Column(k) - Column(f - 1)
    BY <2>1, <2>2
  <2>4. QED
    BY <1>4, <2>1, <2>3
<1>6. 0 + (f - 1) = f - 1
  BY <1>1
<1>7. Position(k, Break \ {"VT"}) =
        [line |-> Cardinality(ends), column |-> Columns(SubSeq(text, first, k))]
  BY DEF Position, ends, first
<1>8. QED
  BY <1>1, <1>2, <1>3, <1>5, <1>6, <1>7

\* Without a vertical tab, the line, except between a CR and its LF: the scan
\* counts the pair at its CR and the grammar at its LF.
LEMMA ScanIsLine ==
  ASSUME text \in Seq(Char), ~Has("VT"), NEW k \in 0..Len(text), ~Split(k),
         NEW r, IsScan(0, k, r)
  PROVE  r.line = Position(k, Break).line
<1> DEFINE Ends == {h \in 1..Len(text) : EndsLine(h, Break)}
           C(j) == Cardinality(Upto(Breaks(0), j))
           E(j) == Cardinality(Upto(Ends, j))
           S == {j \in 0..k : C(j) = E(j) + IF Split(j) THEN 1 ELSE 0}
<1>1. Len(text) \in Nat /\ k \in Nat /\ DOMAIN text = 1..Len(text)
  BY TextIsFinite
<1>2. \A h \in 1..Len(text) : text[h] # "VT"
  BY <1>1 DEF Has, Range
<1>3. /\ \A j \in Nat : C(j) \in Nat /\ E(j) \in Nat
      /\ C(0) = 0 /\ E(0) = 0
      /\ \A j \in Nat : /\ C(j + 1) = C(j) + IF j + 1 \in Breaks(0) THEN 1 ELSE 0
                        /\ E(j + 1) = E(j) + IF j + 1 \in Ends THEN 1 ELSE 0
  BY UptoNext
<1> HIDE DEF C, E
<1>4. 0 \in S
  BY <1>1, <1>3 DEF Split
<1>5. ASSUME NEW j \in 0..(k - 1), j \in S PROVE j + 1 \in S
  <2>1. /\ j + 1 \in 1..Len(text) /\ j \in Nat /\ j + 1 \in 0..k /\ 0 + (j + 1) = j + 1
        /\ 0 + (j + 1 - 1) = j /\ j + 1 \in 1..(Len(text) - 0)
        /\ j + 1 > 1 <=> j \in 1..(Len(text) - 1)
        /\ j + 1 < Len(text) <=> j + 1 \in 1..(Len(text) - 1)
    BY <1>1
  <2>2. j + 1 \in Breaks(0) <=> text[j + 1] \in Break /\ ~Split(j)
    BY <1>2, <2>1 DEF Breaks, Counted, Split
  <2>3. j + 1 \in Ends <=> text[j + 1] \in Break /\ ~Split(j + 1)
    BY <2>1 DEF EndsLine, Split
  <2>4. /\ Split(j) => text[j + 1] \in Break /\ ~Split(j + 1)
        /\ Split(j + 1) => text[j + 1] \in Break
    BY DEF Split, Break
  <2>5. /\ C(j) \in Nat /\ E(j) \in Nat /\ C(j) = E(j) + IF Split(j) THEN 1 ELSE 0
        /\ C(j + 1) = C(j) + IF j + 1 \in Breaks(0) THEN 1 ELSE 0
        /\ E(j + 1) = E(j) + IF j + 1 \in Ends THEN 1 ELSE 0
    BY <1>3, <1>5, <2>1
  <2>6. C(j + 1) = E(j + 1) + IF Split(j + 1) THEN 1 ELSE 0
    <3> HIDE DEF Ends
    <3>1. CASE Split(j)
      BY <2>2, <2>3, <2>4, <2>5, <3>1
    <3>2. CASE ~Split(j) /\ Split(j + 1)
      BY <2>2, <2>3, <2>4, <2>5, <3>2
    <3>3. CASE ~Split(j) /\ ~Split(j + 1)
      BY <2>2, <2>3, <2>4, <2>5, <3>3
    <3>4. QED
      BY <3>1, <3>2, <3>3
  <2>7. QED
    BY <2>1, <2>6
<1>6. C(k) = E(k)
  <2>1. 0..k \subseteq S
    <3> HIDE DEF S
    <3>1. QED
      BY <1>1, <1>4, <1>5, OneByOne
  <2>2. C(k) = E(k) + 0
    BY <1>1, <2>1
  <2>3. QED
    BY <1>1, <1>3, <2>2
<1>7. r.line = C(k)
  BY DEF IsScan, C
<1>8. Upto(Ends, k) = {h \in 1..k : EndsLine(h, Break)}
  <2>1. \A h \in 1..k : h \in 1..Len(text)
    BY <1>1
  <2>2. QED
    BY <2>1 DEF Upto
<1>9. Position(k, Break).line = Cardinality({h \in 1..k : EndsLine(h, Break)})
  BY DEF Position
<1>10. QED
  BY <1>6, <1>7, <1>8, <1>9 DEF E

\* Both ends are scans from the start of the text.
LEMMA EndedScans ==
  ASSUME text \in Seq(Char), Tiled, Scans, stage = "done"
  PROVE  \E a \in 0..Len(text) : \E b \in 0..Len(text) :
           /\ CharsBefore(span[1]) = a /\ CharsBefore(span[2]) = b
           /\ IsScan(0, a, start) /\ (~Split(a) => IsScan(0, b, end))
<1>1. PICK a \in 0..Len(text) : \E b \in a..Len(text) : \E r :
        /\ CharsBefore(span[1]) = a /\ CharsBefore(span[2]) = b
        /\ IsScan(0, a, start) /\ IsScan(a, b - a, r)
        /\ start \in [line : Nat, column : Nat] /\ r \in [line : Nat, column : Nat]
        /\ end = [line   |-> start.line + r.line,
                  column |-> IF r.line = 0 THEN start.column + r.column ELSE r.column]
  BY EndedIs
<1>2. PICK b \in a..Len(text) : \E r :
        /\ CharsBefore(span[1]) = a /\ CharsBefore(span[2]) = b
        /\ IsScan(0, a, start) /\ IsScan(a, b - a, r)
        /\ start \in [line : Nat, column : Nat] /\ r \in [line : Nat, column : Nat]
        /\ end = [line   |-> start.line + r.line,
                  column |-> IF r.line = 0 THEN start.column + r.column ELSE r.column]
  BY <1>1
<1>3. b \in 0..Len(text)
  BY BytesNext
<1>4. ~Split(a) => IsScan(0, b, end)
  BY <1>2, EndIsScan
<1>5. QED
  BY <1>2, <1>3, <1>4

\* Both ends of a span are on the line the grammar puts them on (span.rs,
\* line_column_of_end; grammar.rs, newline), for every text without a vertical
\* tab and every span that does not cut a CR LF in two.
THEOREM LinesAgree == Spec => []LinesAreTheGrammars
<1>1. ASSUME text \in Seq(Char), Tiled, Scans, Ended, ~Has("VT"), ~Splits(span[1]),
             ~Splits(span[2])
      PROVE  /\ start.line = Position(CharsBefore(span[1]), Break).line
             /\ end.line = Position(CharsBefore(span[2]), Break).line
  <2>1. PICK a \in 0..Len(text), b \in 0..Len(text) :
          /\ CharsBefore(span[1]) = a /\ CharsBefore(span[2]) = b
          /\ IsScan(0, a, start) /\ (~Split(a) => IsScan(0, b, end))
    BY <1>1, EndedScans DEF Ended
  <2>2. ~Split(a) /\ ~Split(b)
    BY <1>1, <2>1 DEF Splits, Split
  <2>3. QED
    BY <1>1, <2>1, <2>2, ScanIsLine
<1>2. text \in Seq(Char) /\ Tiled /\ Scans => LinesAreTheGrammars
  BY <1>1 DEF LinesAreTheGrammars
<1>3. QED
  BY <1>2, InductiveInvariant, PTL

\* Line and column of both ends are counted from the start of the text and of
\* the line, although the end is computed from the characters inside the span
\* alone (span.rs, to_line_column), for every text without a CR LF.
THEOREM BothEndsCounted == Spec => []BothEndsAreCounted
<1>1. ASSUME text \in Seq(Char), Tiled, Scans, Ended, ~HasCrLf
      PROVE  /\ start = Position(CharsBefore(span[1]), Break \ {"VT"})
             /\ end = Position(CharsBefore(span[2]), Break \ {"VT"})
  <2>1. PICK a \in 0..Len(text), b \in 0..Len(text) :
          /\ CharsBefore(span[1]) = a /\ CharsBefore(span[2]) = b
          /\ IsScan(0, a, start) /\ (~Split(a) => IsScan(0, b, end))
    BY <1>1, EndedScans DEF Ended
  <2>2. ~Split(a)
    BY <1>1 DEF HasCrLf, Split
  <2>3. QED
    BY <1>1, <2>1, <2>2, ScanIsPosition
<1>2. text \in Seq(Char) /\ Tiled /\ Scans => BothEndsAreCounted
  BY <1>1 DEF BothEndsAreCounted
<1>3. QED
  BY <1>2, InductiveInvariant, PTL
=============================================================================
