---------------------------- MODULE LexerProofs ----------------------------
(***************************************************************************)
(* Theorems about Lexer, for texts of any length.                          *)
(***************************************************************************)
EXTENDS Lexer, FiniteSetTheorems, SequenceTheorems, WellFoundedInduction, TLAPS

----------------------------------------------------------------------------
\* Positions

LEMMA TextIsFinite ==
  ASSUME text \in Seq(Char)
  PROVE  Len(text) \in Nat /\ DOMAIN text = 1..Len(text)
  OBVIOUS

\* A run begins at p and does not go past the end of the text.
LEMMA RunEndBounds ==
  ASSUME text \in Seq(Char), NEW p \in 1..(Len(text) + 1), NEW chars
  PROVE  RunEnd(p, chars) \in p..(Len(text) + 1)
<1> DEFINE run == {q \in p..Len(text) : \A r \in p..q : text[r] \in chars}
<1>1. Len(text) \in Nat
  BY TextIsFinite
<1>2. IsFiniteSet(p..Len(text)) /\ Cardinality(p..Len(text)) <= Len(text) + 1 - p
  <2>1. p \in Int /\ Len(text) \in Int
    BY <1>1
  <2>2. /\ IsFiniteSet(p..Len(text))
        /\ Cardinality(p..Len(text)) = IF p > Len(text) THEN 0 ELSE Len(text) - p + 1
    BY <2>1, FS_Interval
  <2>3. QED
    BY <1>1, <2>2
<1>3. run \in SUBSET (p..Len(text))
  OBVIOUS
<1> HIDE DEF run
<1>4. Cardinality(run) \in Nat /\ Cardinality(run) <= Cardinality(p..Len(text))
  BY <1>2, <1>3, FS_Subset, FS_CardinalityType
<1>5. IsFiniteSet(p..Len(text)) /\ Cardinality(p..Len(text)) \in Nat
  BY <1>2, FS_CardinalityType
<1>6. p + Cardinality(run) \in p..(Len(text) + 1)
  BY <1>1, <1>2, <1>4, <1>5
<1>7. QED
  BY <1>6 DEF RunEnd, run

\* A run is made of the characters of its class: if one between p and the end
\* were not in `run`, that had too few members.
LEMMA RunIsOfItsClass ==
  ASSUME text \in Seq(Char), NEW p \in 1..(Len(text) + 1), NEW chars
  PROVE  \A r \in p..(RunEnd(p, chars) - 1) : At(r, chars)
<1> DEFINE run == {q \in p..Len(text) : \A r \in p..q : text[r] \in chars}
<1> SUFFICES ASSUME NEW r \in p..(RunEnd(p, chars) - 1) PROVE At(r, chars)
  OBVIOUS
<1>1. Len(text) \in Nat /\ DOMAIN text = 1..Len(text) /\ p \in Int /\ r \in Int
  BY TextIsFinite
<1>2. RunEnd(p, chars) = p + Cardinality(run)
  BY DEF RunEnd
<1>3. RunEnd(p, chars) \in p..(Len(text) + 1)
  BY RunEndBounds
<1>4. r \in run
  <2>1. SUFFICES ASSUME r \notin run PROVE FALSE
    OBVIOUS
  <2>2. run \subseteq p..(r - 1)
    BY <1>1, <2>1
  <2>3. IsFiniteSet(p..(r - 1)) /\ Cardinality(p..(r - 1)) = r - p
    <3>1. r - 1 \in Int /\ ~(p > r)
      BY <1>1
    <3>2. /\ IsFiniteSet(p..(r - 1))
          /\ Cardinality(p..(r - 1)) = IF p > r - 1 THEN 0 ELSE r - 1 - p + 1
      BY <1>1, <3>1, FS_Interval
    <3>3. QED
      BY <1>1, <3>1, <3>2
  <2> HIDE DEF run
  <2>4. Cardinality(run) \in Nat /\ Cardinality(run) <= r - p
    BY <2>2, <2>3, FS_Subset, FS_CardinalityType
  <2>5. QED
    BY <1>1, <1>2, <1>3, <2>4
<1>5. QED
  BY <1>1, <1>4 DEF At

\* It ends at a character of another class, or at the end of the text.
LEMMA RunIsWhole ==
  ASSUME text \in Seq(Char), NEW p \in 1..(Len(text) + 1), NEW chars
  PROVE  ~At(RunEnd(p, chars), chars)
<1> DEFINE run == {q \in p..Len(text) : \A r \in p..q : text[r] \in chars}
           end == RunEnd(p, chars)
<1>1. SUFFICES ASSUME At(end, chars) PROVE FALSE
  OBVIOUS
<1>2. Len(text) \in Nat /\ DOMAIN text = 1..Len(text) /\ p \in Int
  BY TextIsFinite
<1>3. end = p + Cardinality(run)
  BY DEF RunEnd
<1>4. end \in p..(Len(text) + 1) /\ end \in 1..Len(text)
  BY <1>1, <1>2, RunEndBounds DEF At
<1>5. \A r \in p..(end - 1) : At(r, chars)
  BY RunIsOfItsClass
<1> HIDE DEF end
<1>6. p..end \subseteq run
  <2>1. \A r \in p..end : text[r] \in chars
    <3> SUFFICES ASSUME NEW r \in p..end PROVE text[r] \in chars
      OBVIOUS
    <3>1. r = end \/ r \in p..(end - 1)
      BY <1>2, <1>4
    <3>2. QED
      BY <1>1, <1>5, <3>1 DEF At
  <2>2. QED
    BY <1>2, <1>4, <2>1
<1>7. IsFiniteSet(run)
  <2>1. IsFiniteSet(p..Len(text))
    BY <1>2, FS_Interval
  <2>2. run \subseteq p..Len(text)
    OBVIOUS
  <2>3. QED
    BY <2>1, <2>2, FS_Subset
<1>8. Cardinality(p..end) = end - p + 1
  <2>1. ~(p > end) /\ end \in Int
    BY <1>2, <1>4
  <2>2. Cardinality(p..end) = IF p > end THEN 0 ELSE end - p + 1
    BY <1>2, <2>1, FS_Interval
  <2>3. QED
    BY <2>1, <2>2
<1> HIDE DEF run
<1>9. Cardinality(p..end) <= Cardinality(run) /\ Cardinality(run) \in Nat
  BY <1>6, <1>7, FS_Subset, FS_CardinalityType
<1>10. QED
  BY <1>2, <1>3, <1>4, <1>8, <1>9

\* Behind a character of the class it is longer than none.
LEMMA RunGoesOn ==
  ASSUME text \in Seq(Char), NEW p, NEW chars, At(p, chars)
  PROVE  RunEnd(p, chars) \in (p + 1)..(Len(text) + 1)
<1>1. p \in 1..Len(text) /\ p \in 1..(Len(text) + 1) /\ Len(text) \in Nat
  BY TextIsFinite DEF At
<1>2. RunEnd(p, chars) \in p..(Len(text) + 1)
  BY <1>1, RunEndBounds
<1>3. RunEnd(p, chars) # p
  BY <1>1, RunIsWhole
<1>4. QED
  BY <1>1, <1>2, <1>3

LEMMA AtBounds ==
  ASSUME text \in Seq(Char), NEW p, NEW chars, At(p, chars)
  PROVE  p \in 1..Len(text) /\ p + 1 \in 1..(Len(text) + 1)
  BY TextIsFinite DEF At

LEMMA SkipBounds ==
  ASSUME text \in Seq(Char), NEW p \in 1..(Len(text) + 1), NEW chars
  PROVE  Skip(p, chars) \in p..(Len(text) + 1)
  BY TextIsFinite DEF Skip, At

----------------------------------------------------------------------------
\* Numbers

\* Where a digit is there are digits to read.
LEMMA DigitsBounds ==
  ASSUME text \in Seq(Char), NEW p \in 1..(Len(text) + 1), NEW digits
  PROVE  /\ DigitsEnd(p, digits) \in p..(Len(text) + 1)
         /\ At(p, digits) => DigitsEnd(p, digits) # p
<1>1. p \in Int /\ Len(text) \in Nat
  BY TextIsFinite
<1>2. CASE At(p, digits)
  <2>1. At(p, digits \cup {"_"})
    BY <1>2 DEF At
  <2> DEFINE end == RunEnd(p, digits \cup {"_"})
  <2>2. end \in (p + 1)..(Len(text) + 1)
    BY <2>1, RunGoesOn
  <2>3. DigitsEnd(p, digits) = end
    BY <1>2 DEF DigitsEnd
  <2> HIDE DEF end
  <2>4. end \in p..(Len(text) + 1) /\ end # p
    BY <1>1, <2>2
  <2>5. QED
    BY <2>3, <2>4
<1>3. CASE ~At(p, digits)
  BY <1>1, <1>3 DEF DigitsEnd
<1>4. QED
  BY <1>2, <1>3

LEMMA RadixBounds ==
  ASSUME text \in Seq(Char), NEW p \in 1..(Len(text) + 1)
  PROVE  RadixEnd(p) \in p..(Len(text) + 1)
<1> DEFINE zero == Skip(p, Sign)
           end  == DigitsEnd(zero + 2, Digit \cup {"e"})
<1>1. p \in Int /\ Len(text) \in Nat /\ zero \in p..(Len(text) + 1)
  BY TextIsFinite, SkipBounds
<1>2. CASE At(zero, {"0"}) /\ At(zero + 1, {"x"}) /\ end # zero + 2
  <2>1. zero + 2 \in 1..(Len(text) + 1)
    BY <1>1, <1>2, AtBounds
  <2>2. end \in (zero + 2)..(Len(text) + 1)
    BY <2>1, DigitsBounds
  <2>3. RadixEnd(p) = end
    BY <1>2 DEF RadixEnd
  <2> HIDE DEF zero, end
  <2>4. QED
    BY <1>1, <2>2, <2>3
<1>3. CASE ~(At(zero, {"0"}) /\ At(zero + 1, {"x"}) /\ end # zero + 2)
  <2>1. RadixEnd(p) = p
    BY <1>3 DEF RadixEnd
  <2>2. QED
    BY <1>1, <2>1
<1>4. QED
  BY <1>2, <1>3

\* Behind a sign or none there is no digit, or a number is read.
LEMMA DecimalBounds ==
  ASSUME text \in Seq(Char), NEW p \in 1..(Len(text) + 1)
  PROVE  /\ DecimalEnd(p) \in p..(Len(text) + 1)
         /\ DecimalEnd(p) = p => ~At(Skip(p, Sign), Digit)
<1> DEFINE first == Skip(p, Sign)
           whole == DigitsEnd(first, Digit)
           point == IF At(whole, {"."}) /\ At(whole + 1, Digit)
                    THEN DigitsEnd(whole + 1, Digit) ELSE whole
           power == IF At(point, {"e"})
                    THEN RunEnd(Skip(point + 1, Sign), Digit \cup {"_"}) ELSE point
<1>1. p \in Int /\ Len(text) \in Nat /\ p >= 1
  BY TextIsFinite
<1>2. DecimalEnd(p) = IF whole = first THEN p ELSE power
  BY DEF DecimalEnd
<1>3. first \in p..(Len(text) + 1)
  BY SkipBounds
<1>4. first \in 1..(Len(text) + 1)
  BY <1>1, <1>3
<1>5. whole \in first..(Len(text) + 1) /\ (At(first, Digit) => whole # first)
  BY <1>4, DigitsBounds
<1> HIDE DEF first
<1>6. point \in whole..(Len(text) + 1)
  <2>1. CASE At(whole, {"."}) /\ At(whole + 1, Digit)
    <3>1. whole + 1 \in 1..(Len(text) + 1)
      BY <2>1, AtBounds
    <3>2. point \in (whole + 1)..(Len(text) + 1)
      BY <2>1, <3>1, DigitsBounds
    <3> HIDE DEF point, whole
    <3>3. QED
      BY <1>1, <1>3, <1>5, <3>2
  <2>2. CASE ~(At(whole, {"."}) /\ At(whole + 1, Digit))
    <3>1. point = whole
      BY <2>2
    <3> HIDE DEF point, whole
    <3>2. QED
      BY <1>1, <1>3, <1>5, <3>1
  <2>3. QED
    BY <2>1, <2>2
<1> HIDE DEF whole, point
<1>7. power \in point..(Len(text) + 1)
  <2>1. CASE At(point, {"e"})
    <3>1. point + 1 \in 1..(Len(text) + 1)
      BY <2>1, AtBounds
    <3>2. Skip(point + 1, Sign) \in (point + 1)..(Len(text) + 1)
      BY <3>1, SkipBounds
    <3>3. Skip(point + 1, Sign) \in 1..(Len(text) + 1)
      BY <1>1, <3>1, <3>2
    <3>4. power \in Skip(point + 1, Sign)..(Len(text) + 1)
      BY <2>1, <3>3, RunEndBounds
    <3> HIDE DEF power
    <3>5. QED
      BY <1>1, <1>3, <1>5, <1>6, <3>2, <3>4
  <2>2. CASE ~At(point, {"e"})
    BY <1>1, <1>3, <1>5, <1>6, <2>2
  <2>3. QED
    BY <2>1, <2>2
<1> HIDE DEF power
<1>8. CASE whole = first
  <2>1. DecimalEnd(p) = p /\ ~At(first, Digit)
    BY <1>2, <1>5, <1>8
  <2>2. QED
    BY <1>1, <2>1 DEF first
<1>9. CASE whole # first
  <2>1. DecimalEnd(p) = power /\ power \in (p + 1)..(Len(text) + 1)
    BY <1>1, <1>2, <1>3, <1>5, <1>6, <1>7, <1>9
  <2>2. QED
    BY <1>1, <2>1
<1>10. QED
  BY <1>8, <1>9

LEMMA NumberBounds ==
  ASSUME text \in Seq(Char), NEW p \in 1..(Len(text) + 1)
  PROVE  /\ NumberEnd(p) \in 1..(Len(text) + 1)
         /\ NumberEnd(p) = p => ~At(Skip(p, Sign), Digit)
<1>1. Len(text) \in Nat /\ p \in Int
  BY TextIsFinite
<1>2. NumberEnd(p) \in p..(Len(text) + 1)
  BY RadixBounds, DecimalBounds DEF NumberEnd
<1>3. NumberEnd(p) = p => DecimalEnd(p) = p
  BY DEF NumberEnd
<1>4. QED
  BY <1>1, <1>2, <1>3, DecimalBounds

----------------------------------------------------------------------------
\* Identifiers

LEMMA BareBounds ==
  ASSUME text \in Seq(Char)
  PROVE  /\ BareEnd(1) \in 1..(Len(text) + 1)
         /\ BareEnd(1) # 1 /\ ~At(Skip(1, Sign), Digit) =>
              \/ ~At(BareEnd(1), IdChar)
              \/ BareEnd(1) = 2 /\ At(1, Sign) /\ At(2, {"."})
<1>1. Len(text) \in Nat
  BY TextIsFinite
<1>2. CASE At(1, IdSansSignDigPoint)
  <2>1. 2 \in 1..(Len(text) + 1) /\ BareEnd(1) = RunEnd(2, IdChar)
    BY <1>2, AtBounds DEF BareEnd
  <2>2. BareEnd(1) \in 2..(Len(text) + 1) /\ ~At(BareEnd(1), IdChar)
    BY <2>1, RunEndBounds, RunIsWhole
  <2>3. QED
    BY <1>1, <2>2
<1>3. CASE ~At(1, IdSansSignDigPoint) /\ At(1, Sign) /\ At(2, IdSansDigPoint)
  <2>1. 3 \in 1..(Len(text) + 1) /\ BareEnd(1) = RunEnd(3, IdChar)
    BY <1>3, AtBounds DEF BareEnd
  <2>2. BareEnd(1) \in 3..(Len(text) + 1) /\ ~At(BareEnd(1), IdChar)
    BY <2>1, RunEndBounds, RunIsWhole
  <2>3. QED
    BY <1>1, <2>2
<1>4. CASE ~At(1, IdSansSignDigPoint) /\ At(1, Sign) /\ ~At(2, IdSansDigPoint)
  <2>1. 2 \in 1..(Len(text) + 1) /\ BareEnd(1) = 2 /\ Skip(1, Sign) = 2
    BY <1>4, AtBounds DEF BareEnd, Skip
  <2>2. ~At(2, Digit) => ~At(2, IdChar) \/ At(2, {"."})
    BY <1>4 DEF At, IdSansDigPoint, IdSansDig
  <2>3. QED
    BY <1>4, <2>1, <2>2
<1>5. CASE ~At(1, IdSansSignDigPoint) /\ ~At(1, Sign)
  BY <1>1, <1>5 DEF BareEnd
<1>6. QED
  BY <1>2, <1>3, <1>4, <1>5

----------------------------------------------------------------------------
(***************************************************************************)
(* The variables keep their types.                                         *)
(***************************************************************************)

LEMMA InitTypes == Init => TypeOK
<1> SUFFICES ASSUME Init PROVE TypeOK
  OBVIOUS
<1>1. text \in Seq(Char)
  BY TextsAssumption DEF Init
<1>2. 1 \in 1..(Len(text) + 1)
  BY <1>1, TextIsFinite
<1>3. stage \in Stages /\ stage # "body"
  BY DEF Init, Stages, Alternatives
<1>4. QED
  BY <1>1, <1>2, <1>3 DEF Init, TypeOK

\* How most rules go on: outside of comments the position is free.
LEMMA EndsKeepsTypes ==
  ASSUME TypeOK, opened = <<>>, NEW kind \in Stages, kind # "body",
         NEW p \in 1..(Len(text) + 1), Ends(kind, p)
  PROVE  TypeOK'
  BY DEF TypeOK, Ends

LEMMA TriesKeepsTypes ==
  ASSUME TypeOK, opened = <<>>, NEW next \in Alternatives, Tries(next)
  PROVE  TypeOK'
<1>1. next \in Stages /\ next # "body"
  BY DEF Stages, Alternatives
<1>2. QED
  BY <1>1 DEF TypeOK, Tries

LEMMA OpensBounds ==
  ASSUME text \in Seq(Char), NEW p, Opens(p) \/ Closes(p)
  PROVE  p \in Nat /\ p + 2 \in 1..(Len(text) + 1)
<1>1. p \in 1..Len(text) /\ p + 1 \in 1..Len(text) /\ Len(text) \in Nat
  BY AtBounds, TextIsFinite DEF Opens, Closes
<1>2. QED
  BY <1>1

\* Opening, closing and leaving comments.
LEMMA PushKeepsTypes ==
  ASSUME TypeOK, NEW p, Opens(p),
         \A i \in DOMAIN opened : opened[i] + 1 < p,
         opened' = Append(opened, p), pos' = p + 2, stage' = "body",
         UNCHANGED <<text, rule>>
  PROVE  TypeOK'
<1>1. p \in Nat /\ p + 2 \in 1..(Len(text) + 1)
  BY OpensBounds DEF TypeOK
<1>2. /\ opened \in Seq(Nat) /\ Len(opened) \in Nat /\ DOMAIN opened = 1..Len(opened)
      /\ opened' \in Seq(Nat) /\ DOMAIN opened' = 1..(Len(opened) + 1)
      /\ opened'[Len(opened) + 1] = p
      /\ \A i \in DOMAIN opened : opened'[i] = opened[i]
  BY <1>1, AppendProperties DEF TypeOK
<1>3. \A i \in DOMAIN opened' : Opens(opened'[i]) /\ opened'[i] + 1 < pos'
  <2> SUFFICES ASSUME NEW i \in DOMAIN opened'
               PROVE  Opens(opened'[i]) /\ opened'[i] + 1 < pos'
    OBVIOUS
  <2>1. CASE i \in DOMAIN opened
    <3>1. opened'[i] \in Nat /\ opened'[i] + 1 < p /\ Opens(opened'[i])
      BY <1>2, <2>1 DEF TypeOK
    <3>2. QED
      BY <1>1, <3>1
  <2>2. CASE i = Len(opened) + 1
    BY <1>1, <1>2, <2>2
  <2>3. QED
    BY <1>2, <2>1, <2>2
<1>4. \A i, j \in DOMAIN opened' : i < j => opened'[i] + 1 < opened'[j]
  <2>1. \A i, j \in DOMAIN opened : i < j => opened[i] + 1 < opened[j]
    BY DEF TypeOK
  <2>2. QED
    BY <1>2, <2>1
<1>5. opened' # <<>>
  BY <1>2
<1>6. \A i : Opens(i)' <=> Opens(i)
  BY DEF Opens, At
<1>7. "body" \in Stages /\ "body" \notin {"start"} \cup Alternatives
  BY DEF Stages, Alternatives
<1>8. QED
  BY <1>1, <1>2, <1>3, <1>4, <1>5, <1>6, <1>7 DEF TypeOK

LEMMA PopKeepsTypes ==
  ASSUME TypeOK, opened # <<>>, opened' = Front(opened),
         pos' \in 1..(Len(text) + 1),
         \A i \in DOMAIN opened : i # Len(opened) => opened[i] + 1 < pos',
         stage' \in {"body", "comment"}, stage' = "body" => Len(opened) # 1,
         UNCHANGED <<text, rule>>
  PROVE  TypeOK'
<1>1. /\ opened \in Seq(Nat) /\ Len(opened) \in Nat /\ DOMAIN opened = 1..Len(opened)
      /\ Len(opened) # 0 /\ opened' = SubSeq(opened, 1, Len(opened) - 1)
  BY DEF TypeOK, Front
<1>2. /\ opened' \in Seq(Nat) /\ Len(opened') = Len(opened) - 1
      /\ DOMAIN opened' = 1..(Len(opened) - 1)
      /\ \A i \in 1..(Len(opened) - 1) : opened'[i] = opened[i]
  BY <1>1
<1>3. \A i \in DOMAIN opened' : i \in DOMAIN opened /\ i # Len(opened)
  BY <1>1, <1>2
<1>4. \A i \in DOMAIN opened' : Opens(opened'[i]) /\ opened'[i] + 1 < pos'
  BY <1>2, <1>3 DEF TypeOK
<1>5. \A i, j \in DOMAIN opened' : i < j => opened'[i] + 1 < opened'[j]
  <2>1. \A i, j \in DOMAIN opened : i < j => opened[i] + 1 < opened[j]
    BY DEF TypeOK
  <2>2. QED
    BY <1>2, <1>3, <2>1
<1>6. stage' = "body" => opened' # <<>>
  <2>1. stage' = "body" => Len(opened') # 0
    BY <1>1, <1>2
  <2>2. opened' = <<>> => Len(opened') = 0
    OBVIOUS
  <2>3. QED
    BY <2>1, <2>2
<1>7. \A i : Opens(i)' <=> Opens(i)
  BY DEF Opens, At
<1>8. stage' \in Stages /\ stage' \notin {"start"} \cup Alternatives
  BY DEF Stages, Kinds, Alternatives
<1>9. QED
  BY <1>2, <1>4, <1>5, <1>6, <1>7, <1>8 DEF TypeOK

LEMMA CommentKeepsTypes == TypeOK /\ Comment => TypeOK'
<1> SUFFICES ASSUME TypeOK, Comment PROVE TypeOK'
  OBVIOUS
<1>1. /\ text \in Seq(Char) /\ Len(text) \in Nat /\ pos \in 1..(Len(text) + 1)
      /\ opened \in Seq(Nat) /\ DOMAIN opened = 1..Len(opened) /\ Len(opened) \in Nat
  BY TextIsFinite DEF TypeOK
<1>2. CASE BeginComment
  <2>1. /\ opened = <<>> /\ Opens(1) /\ opened' = Append(opened, 1)
        /\ pos' = 1 + 2 /\ stage' = "body" /\ UNCHANGED <<text, rule>>
    BY <1>2 DEF BeginComment, TypeOK
  <2>2. QED
    BY <2>1, PushKeepsTypes
<1>3. CASE NoComment
  <2>1. opened = <<>> /\ Ends("failed", 1) /\ "failed" \in Stages
    BY <1>3 DEF NoComment, TypeOK, Stages
  <2>2. QED
    BY <1>1, <2>1, EndsKeepsTypes
<1>4. CASE NestComment
  <2>1. \A i \in DOMAIN opened : opened[i] + 1 < pos
    BY DEF TypeOK
  <2>2. QED
    BY <1>4, <2>1, PushKeepsTypes DEF NestComment
<1>5. CASE CommentChar
  <2>1. /\ pos' = pos + 1 /\ stage = "body" /\ UNCHANGED <<text, rule, stage, opened>>
        /\ pos' \in 1..(Len(text) + 1)
    BY <1>1, <1>5 DEF CommentChar, Stuck
  <2>2. \A i \in DOMAIN opened : Opens(opened[i]) /\ opened[i] + 1 < pos'
    <3> SUFFICES ASSUME NEW i \in DOMAIN opened
                 PROVE  Opens(opened[i]) /\ opened[i] + 1 < pos'
      OBVIOUS
    <3>1. Opens(opened[i]) /\ opened[i] + 1 < pos /\ opened[i] \in Nat
      BY <1>1 DEF TypeOK
    <3>2. QED
      BY <1>1, <2>1, <3>1
  <2>3. \A i : Opens(i)' <=> Opens(i)
    BY <2>1 DEF Opens, At
  <2>4. QED
    BY <2>1, <2>2, <2>3 DEF TypeOK
<1>6. CASE CloseComment
  <2>1. /\ opened # <<>> /\ Closes(pos) /\ pos' = pos + 2 /\ opened' = Front(opened)
        /\ stage' = IF Len(opened) = 1 THEN "comment" ELSE "body"
        /\ UNCHANGED <<text, rule>>
    BY <1>6 DEF CloseComment, TypeOK
  <2>2. pos' \in 1..(Len(text) + 1)
    BY <1>1, <2>1, OpensBounds
  <2>3. \A i \in DOMAIN opened : opened[i] + 1 < pos'
    <3> SUFFICES ASSUME NEW i \in DOMAIN opened PROVE opened[i] + 1 < pos'
      OBVIOUS
    <3>1. opened[i] + 1 < pos /\ opened[i] \in Nat
      BY <1>1 DEF TypeOK
    <3>2. QED
      BY <1>1, <2>1, <3>1
  <2>4. QED
    BY <2>1, <2>2, <2>3, PopKeepsTypes
<1>7. CASE Backtrack
  <2>1. /\ Len(opened) > 1 /\ pos' = Last(opened) + 1 /\ opened' = Front(opened)
        /\ stage' = "body" /\ UNCHANGED <<text, rule>>
    BY <1>7 DEF Backtrack
  <2>2. opened # <<>> /\ Last(opened) = opened[Len(opened)] /\ Len(opened) \in DOMAIN opened
    BY <1>1, <2>1 DEF Last
  <2>3. /\ Last(opened) \in Nat /\ Last(opened) + 1 \in 1..(Len(text) + 1)
        /\ \A i \in DOMAIN opened : i # Len(opened) => opened[i] + 1 < Last(opened)
    <3>1. Opens(Last(opened)) /\ Last(opened) \in Nat
      BY <1>1, <2>2 DEF TypeOK
    <3>2. Last(opened) + 1 \in 1..(Len(text) + 1)
      BY <1>1, <3>1, AtBounds DEF Opens
    <3>3. \A i \in DOMAIN opened : i # Len(opened) => i < Len(opened)
      BY <1>1
    <3>4. QED
      BY <2>2, <3>1, <3>2, <3>3 DEF TypeOK
  <2>4. \A i \in DOMAIN opened : i # Len(opened) => opened[i] + 1 < pos'
    BY <1>1, <2>1, <2>3
  <2>5. QED
    BY <1>1, <2>1, <2>2, <2>3, <2>4, PopKeepsTypes
<1>8. CASE Unclosed
  <2>1. /\ UNCHANGED <<text, rule, pos, opened>> /\ stage' = "failed"
        /\ "failed" \in Stages /\ "failed" \notin {"start"} \cup Alternatives
    BY <1>8 DEF Unclosed, Stages, Alternatives
  <2>2. \A i : Opens(i)' <=> Opens(i)
    BY <2>1 DEF Opens, At
  <2>3. QED
    BY <2>1, <2>2 DEF TypeOK
<1>9. QED
  BY <1>2, <1>3, <1>4, <1>5, <1>6, <1>7, <1>8 DEF Comment

LEMMA LiteralKeepsTypes == TypeOK /\ Literal => TypeOK'
<1> SUFFICES ASSUME TypeOK, Literal PROVE TypeOK'
  OBVIOUS
<1>1. /\ text \in Seq(Char) /\ Len(text) \in Nat /\ pos \in 1..(Len(text) + 1)
      /\ 1 \in 1..(Len(text) + 1)
  BY TextIsFinite DEF TypeOK
<1>2. stage \in Alternatives
  BY DEF Literal, Number, Bare, Raw, OpenString, TextChar, Escape, CloseString,
         NoString, Keyword, LastNumber, Alternatives
<1>3. opened = <<>>
  BY <1>2 DEF TypeOK
<1>4. {"failed"} \cup Alternatives \cup Kinds \subseteq Stages \ {"body"}
  BY DEF Stages, Alternatives, Kinds
<1>5. /\ {"bare", "raw", "escaped", "text", "keyword", "last"} \subseteq Alternatives
      /\ {"number", "ident", "string", "rawstring", "keyword"} \subseteq Kinds
  BY DEF Alternatives, Kinds
<1>6. ASSUME NEW kind \in {"failed"} \cup Alternatives \cup Kinds,
             NEW p \in 1..(Len(text) + 1), Ends(kind, p)
      PROVE  TypeOK'
  BY <1>3, <1>4, <1>6, EndsKeepsTypes
<1>7. CASE Number
  <2>1. Tries("last") \/ Tries("bare")
    BY <1>7 DEF Number
  <2>2. QED
    BY <1>3, <1>5, <2>1, TriesKeepsTypes
<1>8. CASE Bare
  <2>1. Tries("raw") \/ Ends("ident", BareEnd(1))
    BY <1>8 DEF Bare
  <2>2. QED
    BY <1>1, <1>3, <1>5, <1>6, <2>1, TriesKeepsTypes, BareBounds
<1>9. CASE Raw
  <2> DEFINE quote == RunEnd(1, {"#"})
  <2>1. CASE Tries("escaped")
    BY <1>3, <1>5, <2>1, TriesKeepsTypes
  <2>2. CASE \E q \in RawEnds(quote) : quote > 1 /\ Ends("rawstring", q + quote)
    <3>1. PICK q \in RawEnds(quote) : quote > 1 /\ Ends("rawstring", q + quote)
      BY <2>2
    <3>2. quote \in 1..(Len(text) + 1)
      BY <1>1, RunEndBounds
    <3> HIDE DEF quote
    <3>3. q \in (quote + 1)..Len(text) /\ At(q + (quote - 1), {"#"})
      BY <1>1, <3>1, <3>2 DEF RawEnds
    <3>4. q + quote \in 1..(Len(text) + 1)
      BY <1>1, <3>2, <3>3, AtBounds
    <3>5. QED
      BY <1>5, <1>6, <3>1, <3>4
  <2>3. QED
    BY <1>9, <2>1, <2>2 DEF Raw
<1>10. CASE OpenString
  <2>1. (At(1, {"quote"}) /\ Ends("text", 2)) \/ Tries("keyword")
    BY <1>10 DEF OpenString
  <2>2. At(1, {"quote"}) => 2 \in 1..(Len(text) + 1)
    BY <1>1 DEF At
  <2>3. QED
    BY <1>3, <1>5, <1>6, <2>1, <2>2, TriesKeepsTypes
<1>11. CASE TextChar
  <2>1. Ends("text", pos + 1) /\ pos + 1 \in 1..(Len(text) + 1)
    BY <1>1, <1>11 DEF TextChar
  <2>2. QED
    BY <1>5, <1>6, <2>1
<1>12. CASE Escape
  <2>1. PICK p : Ends("text", p) /\ p \in 1..(Len(text) + 1)
    <3>1. CASE At(pos + 1, {"quote", "\\", "n"}) /\ Ends("text", pos + 2)
      <4>1. pos + 2 \in 1..(Len(text) + 1)
        BY <1>1, <3>1 DEF At
      <4>2. QED
        BY <3>1, <4>1
    <3>2. CASE At(pos + 1, Blank) /\ Ends("text", RunEnd(pos + 1, Blank))
      <4>1. pos + 1 \in 1..(Len(text) + 1)
        BY <1>1, <3>2 DEF At
      <4>2. RunEnd(pos + 1, Blank) \in (pos + 1)..(Len(text) + 1)
        BY <1>1, <4>1, RunEndBounds
      <4>3. QED
        BY <1>1, <3>2, <4>2
    <3>3. QED
      BY <1>12, <3>1, <3>2 DEF Escape
  <2>2. QED
    BY <1>5, <1>6, <2>1
<1>13. CASE CloseString
  <2>1. Ends("string", pos + 1) /\ pos + 1 \in 1..(Len(text) + 1)
    BY <1>1, <1>13 DEF CloseString, At
  <2>2. QED
    BY <1>5, <1>6, <2>1
<1>14. CASE NoString
  <2>1. Ends("keyword", 1)
    BY <1>14 DEF NoString
  <2>2. QED
    BY <1>1, <1>5, <1>6, <2>1
<1>15. CASE Keyword
  <2>1. \/ 2 <= Len(text) /\ Ends("keyword", 3)
        \/ 3 <= Len(text) /\ Ends("keyword", 4)
        \/ Tries("last")
    BY <1>15 DEF Keyword
  <2>2. QED
    BY <1>1, <1>3, <1>5, <1>6, <2>1, TriesKeepsTypes
<1>16. CASE LastNumber
  <2>1. Ends("number", NumberEnd(1)) \/ Ends("failed", 1)
    BY <1>16 DEF LastNumber
  <2>2. QED
    BY <1>1, <1>5, <1>6, <2>1, NumberBounds
<1>17. QED
  BY <1>7, <1>8, <1>9, <1>10, <1>11, <1>12, <1>13, <1>14, <1>15, <1>16 DEF Literal

LEMMA NextKeepsTypes == TypeOK /\ [Next]_vars => TypeOK'
<1> SUFFICES ASSUME TypeOK, [Next]_vars PROVE TypeOK'
  OBVIOUS
<1>1. CASE UNCHANGED vars
  BY <1>1 DEF vars, TypeOK, Opens, At
<1>2. QED
  BY <1>1, CommentKeepsTypes, LiteralKeepsTypes DEF Next

\* The variables keep their types and no position goes past the end, whatever
\* the parser reads and however often it goes back (grammar.rs, ml_comment and
\* literal), for every text.
THEOREM TypeCorrect == Spec => []TypeOK
<1>1. QED
  BY InitTypes, NextKeepsTypes, PTL DEF Spec

----------------------------------------------------------------------------
(***************************************************************************)
(* Identifiers are no numbers, and whole.                                  *)
(***************************************************************************)

\* An identifier is read only where a number was tried before.
Named ==
  /\ stage = "bare" => NumberEnd(1) = 1
  /\ NumbersAreNeverNames
  /\ WordsAreReadWhole

LEMMA InitNamed == Init => Named
  BY DEF Init, Named, NumbersAreNeverNames, WordsAreReadWhole

LEMMA NumberEndIsOfTheText ==
  ASSUME UNCHANGED text
  PROVE  NumberEnd(1)' = NumberEnd(1)
<1>1. \A p, chars : At(p, chars)' <=> At(p, chars)
  BY DEF At
<1>2. \A p, chars : RunEnd(p, chars)' = RunEnd(p, chars)
  BY DEF RunEnd
<1>3. \A p, chars : Skip(p, chars)' = Skip(p, chars)
  BY <1>1 DEF Skip
<1>4. \A p, digits : DigitsEnd(p, digits)' = DigitsEnd(p, digits)
  BY <1>1, <1>2 DEF DigitsEnd
<1>5. RadixEnd(1)' = RadixEnd(1)
  BY <1>1, <1>3, <1>4 DEF RadixEnd
<1>6. DecimalEnd(1)' = DecimalEnd(1)
  BY <1>1, <1>2, <1>3, <1>4 DEF DecimalEnd
<1>7. QED
  BY <1>5, <1>6 DEF NumberEnd

LEMMA BareIsNamed ==
  ASSUME TypeOK, Named, Bare
  PROVE  Named'
<1>1. NumberEnd(1) = 1 /\ UNCHANGED text
  BY DEF Named, Bare, Ends, Tries
<1>2. text \in Seq(Char) /\ 1 \in 1..(Len(text) + 1)
  BY TextIsFinite DEF TypeOK
<1>3. ~At(Skip(1, Sign), Digit)
  BY <1>1, <1>2, NumberBounds
<1>4. CASE Tries("raw")
  BY <1>4 DEF Tries, Named, NumbersAreNeverNames, WordsAreReadWhole
<1>5. CASE Ends("ident", BareEnd(1)) /\ BareEnd(1) # 1
  <2>1. /\ \/ ~At(BareEnd(1), IdChar)
           \/ BareEnd(1) = 2 /\ At(1, Sign) /\ At(2, {"."})
        /\ pos' = BareEnd(1) /\ stage' = "ident"
    BY <1>2, <1>3, <1>5, BareBounds DEF Ends
  <2>2. QED
    BY <1>1, <1>3, <2>1 DEF Named, NumbersAreNeverNames, WordsAreReadWhole, At, Skip
<1>6. QED
  BY <1>4, <1>5 DEF Bare

LEMMA NextKeepsNamed == TypeOK /\ Named /\ [Next]_vars => Named'
<1> SUFFICES ASSUME TypeOK, Named, [Next]_vars PROVE Named'
  OBVIOUS
<1>1. CASE Bare
  BY <1>1, BareIsNamed
<1>2. CASE Number
  <2>1. UNCHANGED text /\ (stage' = "bare" => NumberEnd(1) = 1) /\ stage' # "ident"
    BY <1>2 DEF Number, Tries
  <2>2. (NumberEnd(1) = 1)' <=> NumberEnd(1) = 1
    BY <2>1, NumberEndIsOfTheText
  <2>3. QED
    BY <2>1, <2>2 DEF Named, NumbersAreNeverNames, WordsAreReadWhole
<1>3. CASE \/ Comment \/ Raw \/ OpenString \/ TextChar \/ Escape \/ CloseString
           \/ NoString \/ Keyword \/ LastNumber
  <2>1. stage' # "bare" /\ stage' # "ident"
    BY <1>3 DEF Comment, BeginComment, NoComment, NestComment, CommentChar,
                CloseComment, Backtrack, Unclosed, Raw, OpenString, TextChar, Escape,
                CloseString, NoString, Keyword, LastNumber, Ends, Tries
  <2>2. QED
    BY <2>1 DEF Named, NumbersAreNeverNames, WordsAreReadWhole
<1>4. CASE UNCHANGED vars
  <2>1. NumberEnd(1)' = NumberEnd(1)
    BY <1>4, NumberEndIsOfTheText DEF vars
  <2>2. (NumberEnd(1) = 1)' <=> NumberEnd(1) = 1
    BY <2>1
  <2>3. NumbersAreNeverNames' /\ WordsAreReadWhole'
    BY <1>4 DEF vars, Named, NumbersAreNeverNames, WordsAreReadWhole, At, Skip
  <2>4. stage' = stage
    BY <1>4 DEF vars
  <2>5. QED
    BY <2>2, <2>3, <2>4 DEF Named
<1>5. QED
  BY <1>1, <1>2, <1>3, <1>4 DEF Next, Literal

\* Nothing that begins like a number is read as an identifier (grammar.rs,
\* ident), for every text.
THEOREM NumbersStayNumbers == Spec => []NumbersAreNeverNames
<1>1. Named => NumbersAreNeverNames
  BY DEF Named
<1>2. QED
  BY InitTypes, NextKeepsTypes, InitNamed, NextKeepsNamed, <1>1, PTL DEF Spec

\* No identifier is cut in two but behind a sign before a dot (grammar.rs,
\* bare_ident), for every text.
THEOREM WordsStayWhole == Spec => []WordsAreReadWhole
<1>1. Named => WordsAreReadWhole
  BY DEF Named
<1>2. QED
  BY InitTypes, NextKeepsTypes, InitNamed, NextKeepsNamed, <1>1, PTL DEF Spec

----------------------------------------------------------------------------
(***************************************************************************)
(* A string ends at its first free quote.                                  *)
(***************************************************************************)

IsQuote(p) == At(p, {"quote"})
IsSlash(p) == At(p, {"\\"})

\* The character before q that is no backslash, if only backslashes follow it.
Before(q, m) == /\ m \in 1..(q - 1) /\ ~IsSlash(m)
                /\ \A p \in (m + 1)..(q - 1) : IsSlash(p)
Even(q) == \E m \in 1..(q - 1) : Before(q, m) /\ (q - 1 - m) % 2 = 0
Odd(q)  == \E m \in 1..(q - 1) : Before(q, m) /\ (q - 1 - m) % 2 = 1

\* Behind a string's characters none is half of an escape, and no quote before
\* them was free.
InString == stage = "text" =>
              /\ IsQuote(1) /\ Even(pos)
              /\ \A q \in 2..(pos - 1) : IsQuote(q) => Odd(q)

LEMMA CharsDiffer ==
  ASSUME NEW p
  PROVE  /\ IsQuote(p) => ~IsSlash(p)
         /\ At(p, Blank) => ~IsSlash(p) /\ ~IsQuote(p)
         /\ ~At(p, {"quote", "\\"}) => ~IsSlash(p) /\ ~IsQuote(p)
  BY DEF IsQuote, IsSlash, At, Blank

LEMMA ParityOf ==
  ASSUME NEW n \in Nat
  PROVE  /\ n % 2 = 0 => (n + 1) % 2 = 1
         /\ n % 2 = 0 => (n + 2) % 2 = 0
         /\ 0 % 2 = 0
  OBVIOUS

\* Counting the backslashes before q finds the character before them.
LEMMA SlashesCounted ==
  ASSUME NEW q \in Nat, NEW m, Before(q, m)
  PROVE  Max({p \in 1..(q - 1) : ~At(p, {"\\"})}) = m
<1> DEFINE S == {p \in 1..(q - 1) : ~At(p, {"\\"})}
<1>1. m \in S /\ m \in Int
  BY DEF Before, IsSlash
<1>2. \A x \in S : m >= x
  <2>1. SUFFICES ASSUME NEW x \in S, ~(m >= x) PROVE FALSE
    OBVIOUS
  <2>2. x \in (m + 1)..(q - 1) /\ ~IsSlash(x)
    BY <1>1, <2>1 DEF IsSlash
  <2>3. QED
    BY <2>2 DEF Before
<1>3. \A x \in S : x \in Int
  OBVIOUS
<1> HIDE DEF S
<1>4. \A x \in S : (\A y \in S : x >= y) => x = m
  BY <1>1, <1>2, <1>3
<1>5. Max(S) = m
  <2>1. Max(S) \in S /\ \A y \in S : Max(S) >= y
    BY <1>1, <1>2 DEF Max
  <2>2. QED
    BY <2>1, <1>4
<1>6. QED
  BY <1>5 DEF S

LEMMA EvenAndOdd ==
  ASSUME NEW q \in Nat
  PROVE  LET count == q - 1 - Max({p \in 1..(q - 1) : ~At(p, {"\\"})})
         IN  (Even(q) => count % 2 = 0) /\ (Odd(q) => count % 2 # 0)
<1> DEFINE count == q - 1 - Max({p \in 1..(q - 1) : ~At(p, {"\\"})})
<1>1. ASSUME NEW m, Before(q, m) PROVE count = q - 1 - m
  BY <1>1, SlashesCounted
<1> HIDE DEF count
<1>2. Even(q) => count % 2 = 0
  BY <1>1 DEF Even
<1>3. Odd(q) => count % 2 # 0
  BY <1>1 DEF Odd
<1>4. QED
  BY <1>2, <1>3 DEF count

\* A backslash makes it odd, and a second one even again.
LEMMA SlashIsOdd ==
  ASSUME NEW q \in Nat, Even(q), IsSlash(q)
  PROVE  /\ Odd(q + 1)
         /\ IsSlash(q + 1) => Even(q + 2)
<1>1. PICK m \in 1..(q - 1) : Before(q, m) /\ (q - 1 - m) % 2 = 0
  BY DEF Even
<1>2. q - 1 - m \in Nat /\ m \in Int
  OBVIOUS
<1>3. (q - 1 - m + 1) % 2 = 1 /\ (q - 1 - m + 2) % 2 = 0
  BY <1>1, <1>2, ParityOf
<1>4. q + 1 - 1 - m = q - 1 - m + 1 /\ q + 2 - 1 - m = q - 1 - m + 2
  BY <1>2
<1>5. m \in 1..(q + 1 - 1) /\ m \in 1..(q + 2 - 1)
  OBVIOUS
<1>6. Before(q + 1, m)
  BY <1>1, <1>2, <1>5 DEF Before
<1>7. IsSlash(q + 1) => Before(q + 2, m)
  BY <1>1, <1>2, <1>5 DEF Before
<1>8. QED
  BY <1>3, <1>4, <1>5, <1>6, <1>7 DEF Odd, Even

\* Behind any other character it is even.
LEMMA EvenBehind ==
  ASSUME NEW q \in Nat, q >= 1, ~IsSlash(q)
  PROVE  Even(q + 1)
<1>1. Before(q + 1, q) /\ q \in 1..(q + 1 - 1) /\ q + 1 - 1 - q = 0
  BY DEF Before
<1>2. QED
  BY <1>1, ParityOf DEF Even

LEMMA StringsAreOfTheText ==
  ASSUME UNCHANGED text
  PROVE  /\ \A p : IsQuote(p)' <=> IsQuote(p)
         /\ \A q : Even(q)' <=> Even(q)
         /\ \A q : Odd(q)' <=> Odd(q)
<1>1. \A p : (IsQuote(p)' <=> IsQuote(p)) /\ (IsSlash(p)' <=> IsSlash(p))
  BY DEF IsQuote, IsSlash, At
<1>2. \A q, m : Before(q, m)' <=> Before(q, m)
  BY <1>1 DEF Before
<1>3. QED
  BY <1>1, <1>2 DEF Even, Odd

\* How the characters of a string go on.
LEMMA StringGoesOn ==
  ASSUME InString, stage = "text", UNCHANGED text, pos \in Nat,
         NEW next \in Nat, pos' = next, Even(next),
         \A q \in pos..(next - 1) : IsQuote(q) => Odd(q)
  PROVE  InString'
<1>1. IsQuote(1)' /\ Even(pos')
  BY StringsAreOfTheText DEF InString
<1>2. Even(next)'
  BY StringsAreOfTheText
<1>3. ASSUME NEW q \in 2..(next - 1), IsQuote(q) PROVE Odd(q)
  <2>1. q \in 2..(pos - 1) \/ q \in pos..(next - 1)
    OBVIOUS
  <2>2. QED
    BY <1>3, <2>1 DEF InString
<1>4. \A q \in 2..(next - 1) : IsQuote(q)' => Odd(q)'
  BY <1>3, StringsAreOfTheText
<1>5. Even(pos)'
  BY <1>2 DEF Even, Before, IsSlash, At
<1>6. QED
  BY <1>1, <1>4, <1>5 DEF InString

LEMMA NextKeepsInString == TypeOK /\ InString /\ [Next]_vars => InString'
<1> SUFFICES ASSUME TypeOK, InString, [Next]_vars PROVE InString'
  OBVIOUS
<1>1. text \in Seq(Char) /\ pos \in Nat /\ Len(text) \in Nat /\ pos >= 1
  BY TextIsFinite DEF TypeOK
<1>2. CASE OpenString
  <2>1. CASE IsQuote(1) /\ Ends("text", 2)
    <3>1. Even(1 + 1)
      BY <2>1, CharsDiffer, EvenBehind
    <3>2. Even(2) /\ UNCHANGED text /\ pos' = 2 /\ IsQuote(1)
      BY <2>1, <3>1 DEF Ends
    <3>3. Even(pos)' /\ IsQuote(1)'
      BY <3>2 DEF Even, Before, IsSlash, IsQuote, At
    <3>4. QED
      BY <3>2, <3>3 DEF InString
  <2>2. CASE Tries("keyword")
    BY <2>2 DEF Tries, InString
  <2>3. QED
    BY <1>2, <2>1, <2>2 DEF OpenString, IsQuote
<1>3. CASE TextChar
  <2>1. /\ stage = "text" /\ UNCHANGED text /\ pos' = pos + 1
        /\ ~IsSlash(pos) /\ ~IsQuote(pos)
    BY <1>3, CharsDiffer DEF TextChar, Ends
  <2>2. Even(pos + 1)
    BY <1>1, <2>1, EvenBehind
  <2>3. \A q \in pos..(pos + 1 - 1) : q = pos
    BY <1>1
  <2>4. QED
    BY <1>1, <2>1, <2>2, <2>3, StringGoesOn
<1>4. CASE Escape
  <2>1. stage = "text" /\ UNCHANGED text /\ IsSlash(pos) /\ ~IsQuote(pos) /\ Even(pos)
    BY <1>4, CharsDiffer DEF Escape, Ends, IsSlash, InString
  <2>2. Odd(pos + 1) /\ (IsSlash(pos + 1) => Even(pos + 2))
    BY <1>1, <2>1, SlashIsOdd
  <2>3. CASE pos' = pos + 2
    <3>1. Even(pos + 2)
      <4>1. CASE ~IsSlash(pos + 1)
        <5>1. Even(pos + 1 + 1) /\ pos + 1 + 1 = pos + 2
          BY <1>1, <4>1, EvenBehind
        <5>2. QED
          BY <5>1
      <4>2. QED
        BY <2>2, <4>1
    <3>2. \A q \in pos..(pos + 2 - 1) : q = pos \/ q = pos + 1
      BY <1>1
    <3>3. QED
      BY <1>1, <2>1, <2>2, <2>3, <3>1, <3>2, StringGoesOn
  <2>4. CASE At(pos + 1, Blank) /\ pos' = RunEnd(pos + 1, Blank)
    <3> DEFINE end == RunEnd(pos + 1, Blank)
    <3>1. pos + 1 \in 1..(Len(text) + 1) /\ end \in (pos + 1 + 1)..(Len(text) + 1)
      BY <1>1, <2>4, RunGoesOn, AtBounds
    <3>2. \A r \in (pos + 1)..(end - 1) : At(r, Blank)
      BY <1>1, <3>1, RunIsOfItsClass
    <3> HIDE DEF end
    <3>3. /\ end - 1 \in Nat /\ end \in Nat /\ end - 1 >= 1
          /\ end - 1 \in (pos + 1)..(end - 1)
      BY <1>1, <3>1
    <3>4. ~IsSlash(end - 1)
      BY <3>2, <3>3, CharsDiffer
    <3>5. Even(end - 1 + 1) /\ end - 1 + 1 = end
      BY <3>3, <3>4, EvenBehind
    <3>6. \A q \in pos..(end - 1) : ~IsQuote(q)
      <4>1. \A q \in pos..(end - 1) : q = pos \/ q \in (pos + 1)..(end - 1)
        BY <1>1, <3>3
      <4>2. QED
        BY <2>1, <3>2, <4>1, CharsDiffer
    <3>7. QED
      BY <1>1, <2>1, <2>4, <3>3, <3>5, <3>6, StringGoesOn DEF end
  <2>5. QED
    BY <1>4, <2>3, <2>4 DEF Escape, Ends
<1>5. CASE \/ Comment \/ Number \/ Bare \/ Raw \/ CloseString \/ NoString \/ Keyword
           \/ LastNumber
  <2>1. stage' # "text"
    BY <1>5 DEF Comment, BeginComment, NoComment, NestComment, CommentChar,
                CloseComment, Backtrack, Unclosed, Number, Bare, Raw, CloseString,
                NoString, Keyword, LastNumber, Ends, Tries
  <2>2. QED
    BY <2>1 DEF InString
<1>6. CASE UNCHANGED vars
  <2>1. UNCHANGED <<text, pos, stage>>
    BY <1>6 DEF vars
  <2>2. QED
    BY <2>1 DEF InString, IsQuote, Even, Odd, Before, IsSlash, At
<1>7. QED
  BY <1>2, <1>3, <1>4, <1>5, <1>6 DEF Next, Literal

LEMMA StringStep ==
  TypeOK /\ InString /\ StringsEndAtAnUnescapedQuote /\ [Next]_vars
    => StringsEndAtAnUnescapedQuote'
<1> SUFFICES ASSUME TypeOK, InString, StringsEndAtAnUnescapedQuote, [Next]_vars
             PROVE  StringsEndAtAnUnescapedQuote'
  OBVIOUS
<1>1. text \in Seq(Char) /\ pos \in Nat /\ Len(text) \in Nat /\ pos >= 1
  BY TextIsFinite DEF TypeOK
<1>2. CASE CloseString
  <2>1. stage = "text" /\ IsQuote(pos) /\ pos' = pos + 1 /\ UNCHANGED text
    BY <1>2 DEF CloseString, Ends, IsQuote
  <2>2. /\ Even(pos) /\ \A q \in 2..(pos - 1) : IsQuote(q) => Odd(q)
    BY <2>1 DEF InString
  <2>3. pos \in 2..Len(text)
    <3>1. pos \in 1..Len(text)
      BY <1>1, <2>1 DEF IsQuote, At
    <3>2. 1..(pos - 1) # {}
      BY <2>2 DEF Even
    <3>3. QED
      BY <1>1, <3>1, <3>2
  <2> DEFINE Slashes(q) == q - 1 - Max({p \in 1..(q - 1) : ~At(p, {"\\"})})
             Free == {q \in 2..Len(text) : At(q, {"quote"}) /\ Slashes(q) % 2 = 0}
  <2>4. \A q \in Nat : (Even(q) => Slashes(q) % 2 = 0) /\ (Odd(q) => Slashes(q) % 2 # 0)
    BY EvenAndOdd
  <2> HIDE DEF Slashes
  <2>5. pos \in Free
    BY <1>1, <2>1, <2>2, <2>3, <2>4 DEF IsQuote
  <2>6. \A q \in Free : pos <= q
    <3>1. SUFFICES ASSUME NEW q \in Free, ~(pos <= q) PROVE FALSE
      OBVIOUS
    <3>2. q \in 2..(pos - 1) /\ q \in Nat /\ IsQuote(q) /\ Slashes(q) % 2 = 0
      BY <1>1, <3>1 DEF IsQuote
    <3>3. QED
      BY <2>2, <2>4, <3>2
  <2>7. pos' - 1 = pos
    BY <1>1, <2>1
  <2>8. pos' - 1 \in Free /\ \A q \in Free : pos' - 1 <= q
    BY <2>5, <2>6, <2>7
  <2>9. QED
    BY <2>1, <2>8 DEF StringsEndAtAnUnescapedQuote, At, Slashes
<1>3. CASE \/ Comment \/ Number \/ Bare \/ Raw \/ OpenString \/ TextChar \/ Escape
           \/ NoString \/ Keyword \/ LastNumber
  <2>1. stage' # "string"
    BY <1>3 DEF Comment, BeginComment, NoComment, NestComment, CommentChar,
                CloseComment, Backtrack, Unclosed, Number, Bare, Raw, OpenString,
                TextChar, Escape, NoString, Keyword, LastNumber, Ends, Tries
  <2>2. QED
    BY <2>1 DEF StringsEndAtAnUnescapedQuote
<1>4. CASE UNCHANGED vars
  <2>1. UNCHANGED <<text, pos, stage>>
    BY <1>4 DEF vars
  <2>2. QED
    BY <2>1 DEF StringsEndAtAnUnescapedQuote, At
<1>5. QED
  BY <1>2, <1>3, <1>4 DEF Next, Literal

\* A string ends at the first quote with an even number of backslashes before
\* it, the blanks behind a backslash being skipped as one (grammar.rs,
\* escaped_string), for every text.
THEOREM StringsEndWhereTheyShould == Spec => []StringsEndAtAnUnescapedQuote
<1>1. Init => InString /\ StringsEndAtAnUnescapedQuote
  BY DEF Init, InString, StringsEndAtAnUnescapedQuote
<1>2. QED
  BY <1>1, InitTypes, NextKeepsTypes, NextKeepsInString, StringStep, PTL DEF Spec

----------------------------------------------------------------------------
(***************************************************************************)
(* A comment ends where its beginnings and ends add up.                    *)
(***************************************************************************)

\* The least of a set of numbers.
LEMMA LeastOf ==
  ASSUME NEW B \in SUBSET Nat, B # {}
  PROVE  \E x \in B : \A y \in B : ~(y < x)
<1> DEFINE R == OpToRel(<, Nat)
<1>1. PICK x \in B : \A y \in B : ~(<<y, x>> \in R)
  <2>1. B \subseteq Nat /\ B # {}
    OBVIOUS
  <2>2. IsWellFoundedOn(R, Nat)
    BY NatLessThanWellFounded
  <2> HIDE DEF R
  <2>3. QED
    BY <2>1, <2>2, WFMin
<1>2. QED
  BY <1>1 DEF OpToRel

\* What counting the ends makes of a character, given what it made of the
\* characters before.
Counted(f, i) ==
  IF i = 0 THEN [depth |-> 0, within |-> FALSE]
  ELSE IF f[i - 1].within THEN [depth |-> f[i - 1].depth, within |-> FALSE]
  ELSE IF Opens(i) THEN [depth |-> f[i - 1].depth + 1, within |-> TRUE]
  ELSE IF Closes(i) THEN [depth |-> f[i - 1].depth - 1, within |-> TRUE]
  ELSE f[i - 1]

\* Nesting is what its recursive function says.  (The function exists up to the
\* first position, and from each position up to the next.)
LEMMA NestingUnfold ==
  ASSUME text \in Seq(Char)
  PROVE  \A i \in 0..Len(text) : Nesting[i] = Counted(Nesting, i)
<1> DEFINE n == Len(text)
           Start == [depth |-> 0, within |-> FALSE]
           Solves(g, m) ==
             g = [i \in 0..m |->
                    IF i = 0 THEN Start
                    ELSE IF g[i - 1].within
                    THEN [depth |-> g[i - 1].depth, within |-> FALSE]
                    ELSE IF Opens(i) THEN [depth |-> g[i - 1].depth + 1, within |-> TRUE]
                    ELSE IF Closes(i) THEN [depth |-> g[i - 1].depth - 1, within |-> TRUE]
                    ELSE g[i - 1]]
           count == CHOOSE g : Solves(g, n)
<1>1. n \in Nat
  BY TextIsFinite
<1>2. \A m, g : Solves(g, m) <=> g = [i \in 0..m |-> Counted(g, i)]
  BY DEF Counted
<1>3. \E g : Solves(g, n)
  <2> DEFINE Open == {m \in 0..n : ~\E g : Solves(g, m)}
  <2>1. SUFFICES ASSUME Open # {} PROVE FALSE
    <3> HIDE DEF Solves
    <3>1. n \in 0..n
      BY <1>1
    <3>2. QED
      BY <3>1
  <2>2. PICK m \in Open : \A y \in Open : ~(y < m)
    <3> HIDE DEF Solves
    <3>1. Open \subseteq Nat
      BY <1>1
    <3> HIDE DEF Open
    <3>2. QED
      BY <2>1, <3>1, LeastOf
  <2>3. m \in Nat /\ m <= n
    BY <2>2, <1>1
  <2>4. CASE m = 0
    <3> DEFINE g == [i \in 0..0 |-> Start]
    <3>1. \A i \in 0..0 : Counted(g, i) = Start
      BY DEF Counted
    <3> HIDE DEF Start
    <3>2. g = [i \in 0..0 |-> Counted(g, i)]
      BY <3>1
    <3> HIDE DEF g, Solves
    <3>3. Solves(g, 0)
      BY <3>2, <1>2
    <3>4. QED
      BY <3>3, <2>2, <2>4
  <2>5. CASE m # 0
    <3>1. m - 1 \in 0..n /\ m - 1 < m
      BY <2>3, <2>5, <1>1
    <3>2. PICK h : Solves(h, m - 1)
      <4> HIDE DEF Solves
      <4>1. QED
        BY <3>1, <2>2
    <3> DEFINE g == [i \in 0..m |-> Counted(h, i)]
    <3>3. h = [i \in 0..(m - 1) |-> Counted(h, i)]
      <4> HIDE DEF Solves
      <4>1. QED
        BY <3>2, <1>2
    <3>4. \A i \in 0..(m - 1) : g[i] = h[i]
      <4>1. \A i \in 0..(m - 1) : i \in 0..m
        BY <2>3
      <4>2. QED
        BY <4>1, <3>3
    <3>5. \A i \in 0..m : Counted(g, i) = Counted(h, i)
      <4>1. ASSUME NEW i \in 0..m PROVE Counted(g, i) = Counted(h, i)
        <5>1. i # 0 => i - 1 \in 0..(m - 1)
          BY <2>3
        <5> HIDE DEF g
        <5>2. i # 0 => g[i - 1] = h[i - 1]
          BY <5>1, <3>4
        <5>3. QED
          BY <5>2 DEF Counted
      <4> HIDE DEF g
      <4>2. QED
        BY <4>1
    <3>6. g = [i \in 0..m |-> Counted(g, i)]
      <4>1. g = [i \in 0..m |-> Counted(h, i)]
        OBVIOUS
      <4> HIDE DEF g
      <4>2. QED
        BY <4>1, <3>5
    <3>7. Solves(g, m)
      <4> HIDE DEF g, Solves
      <4>1. QED
        BY <3>6, <1>2
    <3> HIDE DEF g, Solves
    <3>8. QED
      BY <3>7, <2>2
  <2>6. QED
    BY <2>4, <2>5
<1>4. Solves(count, n)
  BY <1>3
<1>5. Nesting = count
  BY DEF Nesting
<1> HIDE DEF count
<1>6. count = [i \in 0..n |-> Counted(count, i)]
  <2> HIDE DEF Solves
  <2>1. QED
    BY <1>4, <1>2
<1>7. \A i \in 0..n : count[i] = Counted(count, i)
  BY <1>6
<1>8. QED
  BY <1>5, <1>7

Depth(k)  == Nesting[k].depth
Within(k) == Nesting[k].within

LEMMA PlaceAt ==
  ASSUME NEW d \in Int, NEW w \in BOOLEAN, NEW r, r = [depth |-> d, within |-> w]
  PROVE  r.depth = d /\ r.within = w
<1>1. r.depth = d
  OBVIOUS
<1>2. r.within = w
  OBVIOUS
<1>3. QED
  BY <1>1, <1>2

\* Counting steps over the second character of a beginning or an end, and
\* changes the depth at the first.
LEMMA NestingStep ==
  ASSUME text \in Seq(Char)
  PROVE  /\ Depth(0) = 0 /\ ~Within(0)
         /\ \A i \in 0..Len(text) : Depth(i) \in Int /\ Within(i) \in BOOLEAN
         /\ \A i \in 1..Len(text) :
              /\ Within(i - 1) => Depth(i) = Depth(i - 1) /\ ~Within(i)
              /\ ~Within(i - 1) /\ Opens(i) => Depth(i) = Depth(i - 1) + 1 /\ Within(i)
              /\ ~Within(i - 1) /\ Closes(i) => Depth(i) = Depth(i - 1) - 1 /\ Within(i)
              /\ ~Within(i - 1) /\ ~Opens(i) /\ ~Closes(i) =>
                   Depth(i) = Depth(i - 1) /\ ~Within(i)
<1> DEFINE IsPlace(i) == \E d \in Int, w \in BOOLEAN :
                           Nesting[i] = [depth |-> d, within |-> w]
<1>1. Len(text) \in Nat
  BY TextIsFinite
<1>2. Nesting[0] = [depth |-> 0, within |-> FALSE]
  <2>1. 0 \in 0..Len(text)
    BY <1>1
  <2>2. Nesting[0] = Counted(Nesting, 0)
    BY <2>1, NestingUnfold
  <2>3. QED
    BY <2>2 DEF Counted
<1>3. ASSUME NEW i \in 1..Len(text)
      PROVE  /\ i - 1 \in 0..Len(text)
             /\ Nesting[i] = IF Nesting[i - 1].within
                             THEN [depth |-> Nesting[i - 1].depth, within |-> FALSE]
                             ELSE IF Opens(i)
                             THEN [depth |-> Nesting[i - 1].depth + 1, within |-> TRUE]
                             ELSE IF Closes(i)
                             THEN [depth |-> Nesting[i - 1].depth - 1, within |-> TRUE]
                             ELSE Nesting[i - 1]
  <2>1. i \in 0..Len(text) /\ i # 0 /\ i - 1 \in 0..Len(text)
    BY <1>1
  <2>2. Nesting[i] = Counted(Nesting, i)
    BY <2>1, NestingUnfold
  <2>3. QED
    BY <2>1, <2>2 DEF Counted
<1>6. \A i : ~(Opens(i) /\ Closes(i))
  BY DEF Opens, Closes, At
<1>4. ASSUME NEW i \in 1..Len(text), IsPlace(i - 1)
      PROVE  /\ IsPlace(i)
             /\ Within(i - 1) => Depth(i) = Depth(i - 1) /\ ~Within(i)
             /\ ~Within(i - 1) /\ Opens(i) => Depth(i) = Depth(i - 1) + 1 /\ Within(i)
             /\ ~Within(i - 1) /\ Closes(i) => Depth(i) = Depth(i - 1) - 1 /\ Within(i)
             /\ ~Within(i - 1) /\ ~Opens(i) /\ ~Closes(i) =>
                  Depth(i) = Depth(i - 1) /\ ~Within(i)
  <2>1. PICK d \in Int, w \in BOOLEAN : Nesting[i - 1] = [depth |-> d, within |-> w]
    BY <1>4
  <2>2. /\ Depth(i - 1) = d /\ Within(i - 1) = w
    BY <2>1, PlaceAt DEF Depth, Within
  <2>3. Nesting[i] = IF w THEN [depth |-> d, within |-> FALSE]
                     ELSE IF Opens(i) THEN [depth |-> d + 1, within |-> TRUE]
                     ELSE IF Closes(i) THEN [depth |-> d - 1, within |-> TRUE]
                     ELSE [depth |-> d, within |-> w]
    BY <1>3, <2>1, <2>2 DEF Depth, Within
  <2>4. CASE w
    <3>1. Nesting[i] = [depth |-> d, within |-> FALSE]
      BY <2>3, <2>4
    <3>2. Depth(i) = d /\ Within(i) = FALSE /\ IsPlace(i)
      BY <3>1, PlaceAt DEF Depth, Within
    <3> HIDE DEF IsPlace
    <3>3. QED
      BY <2>2, <2>4, <3>2
  <2>5. CASE ~w /\ Opens(i)
    <3>1. Nesting[i] = [depth |-> d + 1, within |-> TRUE] /\ d + 1 \in Int
      BY <2>3, <2>5
    <3>2. Depth(i) = d + 1 /\ Within(i) = TRUE /\ IsPlace(i)
      BY <3>1, PlaceAt DEF Depth, Within
    <3> HIDE DEF IsPlace
    <3>3. QED
      BY <1>6, <2>2, <2>5, <3>2
  <2>6. CASE ~w /\ ~Opens(i) /\ Closes(i)
    <3>1. Nesting[i] = [depth |-> d - 1, within |-> TRUE] /\ d - 1 \in Int
      BY <2>3, <2>6
    <3>2. Depth(i) = d - 1 /\ Within(i) = TRUE /\ IsPlace(i)
      BY <3>1, PlaceAt DEF Depth, Within
    <3> HIDE DEF IsPlace
    <3>3. QED
      BY <1>6, <2>2, <2>6, <3>2
  <2>7. CASE ~w /\ ~Opens(i) /\ ~Closes(i)
    <3>1. Nesting[i] = [depth |-> d, within |-> w]
      BY <2>3, <2>7
    <3>2. Depth(i) = d /\ Within(i) = w /\ IsPlace(i)
      BY <3>1, PlaceAt DEF Depth, Within
    <3> HIDE DEF IsPlace
    <3>3. QED
      BY <2>2, <2>7, <3>2
  <2>8. QED
    BY <2>4, <2>5, <2>6, <2>7
<1>5. \A i \in 0..Len(text) : IsPlace(i)
  <2> HIDE DEF IsPlace
  <2> DEFINE Bad == {i \in 0..Len(text) : ~IsPlace(i)}
  <2>1. SUFFICES ASSUME Bad # {} PROVE FALSE
    OBVIOUS
  <2>2. PICK i \in Bad : \A y \in Bad : ~(y < i)
    <3>1. Bad \subseteq Nat
      BY <1>1
    <3> HIDE DEF Bad
    <3>2. QED
      BY <2>1, <3>1, LeastOf
  <2>3. i # 0
    <3>1. 0 \in Int /\ FALSE \in BOOLEAN
      OBVIOUS
    <3>2. IsPlace(0)
      BY <1>2, <3>1, Zenon DEF IsPlace
    <3>3. QED
      BY <2>2, <3>2
  <2>4. i \in 1..Len(text) /\ i - 1 \in 0..Len(text) /\ i - 1 < i
    BY <1>1, <2>2, <2>3
  <2>5. IsPlace(i - 1)
    BY <2>2, <2>4
  <2>6. IsPlace(i)
    BY <1>4, <2>4, <2>5
  <2>7. QED
    BY <2>2, <2>6
<1>7. \A i \in 0..Len(text) : Depth(i) \in Int /\ Within(i) \in BOOLEAN
  <2>1. ASSUME NEW i \in 0..Len(text) PROVE Depth(i) \in Int /\ Within(i) \in BOOLEAN
    <3>1. PICK d \in Int, w \in BOOLEAN : Nesting[i] = [depth |-> d, within |-> w]
      BY <1>5
    <3>2. QED
      BY <3>1, PlaceAt DEF Depth, Within
  <2>2. QED
    BY <2>1
<1>8. Depth(0) = 0 /\ ~Within(0)
  BY <1>2, PlaceAt DEF Depth, Within
<1> HIDE DEF IsPlace
<1>9. QED
  BY <1>1, <1>3, <1>4, <1>5, <1>7, <1>8

LEMMA NestingIsOfTheText ==
  ASSUME UNCHANGED text
  PROVE  /\ \A k : Depth(k)' = Depth(k) /\ Within(k)' = Within(k)
         /\ \A k : (Opens(k)' <=> Opens(k)) /\ (Closes(k)' <=> Closes(k))
         /\ CountedEnds' = CountedEnds
<1>1. Nesting' = Nesting
  BY DEF Nesting, Opens, Closes, At
<1>2. QED
  BY <1>1 DEF Depth, Within, Opens, Closes, At, CountedEnds

\* The star of a beginning, but for the first, can also be that of an end.
Overlaps(p) == \E i \in 3..(p - 1) : Opens(i) /\ Closes(i + 1)

\* The ends that are counted behind q make up for the beginning at q.
Falls(q) == \E k \in (q + 1)..Len(text) : Depth(k) < Depth(q)

\* The i-th of n open comments begins at q, and the next character is at p.  If
\* it has an end that is counted, then no parse was given up since q, so the
\* parser is in step with the count and that end is ahead.
Kept(q, i, p, n) ==
  \/ Overlaps(q)
  \/ /\ Depth(q) >= i
     /\ Falls(q) => /\ ~Within(p - 1) /\ Depth(p - 1) - n = Depth(q) - i
                    /\ \A k \in q..(p - 1) : Depth(k) >= Depth(q)

\* The count is ahead of the parser by the comments that turned out to be none,
\* and these have no end that is counted.
Ahead(p, n) ==
  \/ Overlaps(p)
  \/ /\ Depth(p - 1) >= n
     /\ Depth(p - 1) > n =>
          \A k \in (p - 1)..Len(text) : Depth(k) > Depth(p - 1) - n
     /\ Within(p - 1) => 3 <= p - 1 /\ Opens(p - 1)

\* The comments that are open and the next character are in step with the count.
KeptNow  == \A i \in DOMAIN opened : Kept(opened[i], i, pos, Len(opened))
AheadNow == Ahead(pos, Len(opened))
InStep ==
  rule = "ml_comment" =>
    /\ stage \in {"start", "body", "comment", "failed"}
    /\ stage = "body" => Opens(1) /\ opened[1] = 1 /\ KeptNow /\ AheadNow

LEMMA InStepPrimed ==
  ASSUME UNCHANGED text
  PROVE  /\ KeptNow' <=> \A i \in DOMAIN opened' :
                           Kept(opened'[i], i, pos', Len(opened'))
         /\ AheadNow' <=> Ahead(pos', Len(opened'))
<1>1. Nesting' = Nesting
  BY DEF Nesting, Opens, Closes, At
<1>2. KeptNow' <=> \A i \in DOMAIN opened' : Kept(opened'[i], i, pos', Len(opened'))
  BY <1>1 DEF KeptNow, Kept, Overlaps, Falls, Depth, Within, Opens, Closes, At
<1>3. AheadNow' <=> Ahead(pos', Len(opened'))
  BY <1>1 DEF AheadNow, Ahead, Overlaps, Depth, Within, Opens, Closes, At
<1>4. QED
  BY <1>2, <1>3

----------------------------------------------------------------------------
\* How each rule goes on: the count

LEMMA DepthIsInt ==
  ASSUME text \in Seq(Char), NEW k \in 0..Len(text)
  PROVE  Depth(k) \in Int
  BY NestingStep

LEMMA PairCounted ==
  ASSUME text \in Seq(Char), NEW p, Opens(p) \/ Closes(p)
  PROVE  /\ p \in 1..Len(text) /\ p + 1 \in 1..Len(text) /\ p - 1 \in 0..Len(text)
         /\ Depth(p - 1) \in Int /\ Depth(p) \in Int /\ Depth(p + 1) \in Int
         /\ ~Within(p - 1) =>
              /\ Depth(p + 1) = Depth(p) /\ ~Within(p + 1)
              /\ Opens(p) => Depth(p) = Depth(p - 1) + 1
              /\ Closes(p) => Depth(p) = Depth(p - 1) - 1
<1>1. Len(text) \in Nat /\ p \in 1..Len(text) /\ p + 1 \in 1..Len(text)
  BY AtBounds, TextIsFinite DEF Opens, Closes
<1>2. /\ p \in 0..Len(text) /\ p - 1 \in 0..Len(text) /\ p + 1 \in 0..Len(text)
      /\ p + 1 - 1 = p
  BY <1>1
<1>3. Depth(p - 1) \in Int /\ Depth(p) \in Int /\ Depth(p + 1) \in Int
  BY <1>2, DepthIsInt
<1>4. ASSUME ~Within(p - 1)
      PROVE  /\ Within(p)
             /\ Opens(p) => Depth(p) = Depth(p - 1) + 1
             /\ Closes(p) => Depth(p) = Depth(p - 1) - 1
  BY <1>1, <1>4, NestingStep
<1>5. Within(p) => Depth(p + 1) = Depth(p) /\ ~Within(p + 1)
  <2>1. Within(p + 1 - 1) => Depth(p + 1) = Depth(p + 1 - 1) /\ ~Within(p + 1)
    BY <1>1, NestingStep
  <2>2. QED
    BY <1>2, <2>1
<1>6. QED
  BY <1>1, <1>2, <1>3, <1>4, <1>5

LEMMA CharCounted ==
  ASSUME text \in Seq(Char), NEW p \in 1..Len(text), ~Opens(p), ~Closes(p)
  PROVE  /\ p - 1 \in 0..Len(text)
         /\ Depth(p - 1) \in Int /\ Depth(p) \in Int
         /\ Depth(p) = Depth(p - 1) /\ ~Within(p)
<1>1. Len(text) \in Nat /\ p \in 0..Len(text) /\ p - 1 \in 0..Len(text)
  BY TextIsFinite
<1>2. Depth(p - 1) \in Int /\ Depth(p) \in Int
  BY <1>1, DepthIsInt
<1>3. QED
  BY <1>1, <1>2, NestingStep

LEMMA OverlapsGrow ==
  ASSUME NEW p \in Nat, NEW q \in Nat, p <= q, Overlaps(p)
  PROVE  Overlaps(q)
  BY DEF Overlaps

----------------------------------------------------------------------------
\* A comment is opened.

LEMMA OpenKeeps ==
  ASSUME text \in Seq(Char), NEW p \in Nat, Opens(p), NEW q \in 1..(p - 1),
         NEW n \in Nat, NEW i \in 1..n, Kept(q, i, p, n)
  PROVE  Kept(q, i, p + 2, n + 1)
<1>1. CASE Overlaps(q)
  BY <1>1 DEF Kept
<1>2. CASE ~Overlaps(q)
  <2>1. Depth(q) >= i
    BY <1>2 DEF Kept
  <2>2. ASSUME Falls(q)
        PROVE  /\ ~Within(p + 1) /\ Depth(p + 1) - (n + 1) = Depth(q) - i
               /\ \A k \in q..(p + 1) : Depth(k) >= Depth(q)
    <3>1. /\ ~Within(p - 1) /\ Depth(p - 1) - n = Depth(q) - i
          /\ \A k \in q..(p - 1) : Depth(k) >= Depth(q)
      BY <1>2, <2>2 DEF Kept
    <3>2. /\ p \in 1..Len(text) /\ Len(text) \in Nat
          /\ Depth(p - 1) \in Int /\ Depth(p) \in Int /\ Depth(p + 1) \in Int
          /\ Depth(p + 1) = Depth(p) /\ ~Within(p + 1) /\ Depth(p) = Depth(p - 1) + 1
      BY <3>1, PairCounted, TextIsFinite
    <3>3. Depth(q) \in Int
      <4>1. q \in 0..Len(text)
        BY <3>2
      <4>2. QED
        BY <4>1, DepthIsInt
    <3>4. Depth(p - 1) >= Depth(q)
      <4>1. p - 1 \in q..(p - 1)
        OBVIOUS
      <4>2. QED
        BY <3>1, <4>1
    <3>5. \A k \in q..(p + 1) : k \in q..(p - 1) \/ k = p \/ k = p + 1
      OBVIOUS
    <3>6. QED
      BY <3>1, <3>2, <3>3, <3>4, <3>5
  <2>3. p + 2 - 1 = p + 1
    OBVIOUS
  <2>4. QED
    BY <2>1, <2>2, <2>3 DEF Kept
<1>3. QED
  BY <1>1, <1>2

\* The next character is in step, so this is no star of a beginning.
LEMMA AheadAtPair ==
  ASSUME text \in Seq(Char), NEW p \in Nat, NEW n \in Nat, Opens(p) \/ Closes(p),
         Ahead(p, n), ~Overlaps(p), Closes(p) => ~Overlaps(p + 2)
  PROVE  /\ ~Within(p - 1) /\ Depth(p - 1) >= n
         /\ Depth(p - 1) > n =>
              \A k \in (p - 1)..Len(text) : Depth(k) > Depth(p - 1) - n
<1>1. /\ Depth(p - 1) >= n
      /\ Depth(p - 1) > n =>
           \A k \in (p - 1)..Len(text) : Depth(k) > Depth(p - 1) - n
      /\ Within(p - 1) => 3 <= p - 1 /\ Opens(p - 1)
  BY DEF Ahead
<1>2. ~Within(p - 1)
  <2>1. SUFFICES ASSUME Within(p - 1) PROVE FALSE
    OBVIOUS
  <2>2. 3 <= p - 1 /\ Opens(p - 1) /\ p - 1 + 1 = p
    BY <1>1, <2>1
  <2>3. ~Opens(p)
    BY <2>2 DEF Opens, At
  <2>4. Closes(p)
    BY <2>3
  <2>5. p - 1 \in 3..(p + 2 - 1)
    BY <2>2
  <2>6. Overlaps(p + 2)
    BY <2>2, <2>4, <2>5 DEF Overlaps
  <2>7. QED
    BY <2>4, <2>6
<1>3. QED
  BY <1>1, <1>2

LEMMA OpenBegins ==
  ASSUME text \in Seq(Char), NEW p \in Nat, Opens(p), NEW n \in Nat, Ahead(p, n)
  PROVE  Kept(p, n + 1, p + 2, n + 1) /\ Ahead(p + 2, n + 1)
<1>1. CASE Overlaps(p)
  <2>1. Overlaps(p + 2)
    BY <1>1, OverlapsGrow
  <2>2. QED
    BY <1>1, <2>1 DEF Kept, Ahead
<1>2. CASE ~Overlaps(p)
  <2>1. /\ ~Within(p - 1) /\ Depth(p - 1) >= n
        /\ Depth(p - 1) > n =>
             \A k \in (p - 1)..Len(text) : Depth(k) > Depth(p - 1) - n
    <3>1. ~Closes(p)
      BY DEF Opens, Closes, At
    <3>2. QED
      BY <1>2, <3>1, AheadAtPair
  <2>2. /\ Len(text) \in Nat
        /\ Depth(p - 1) \in Int /\ Depth(p) \in Int /\ Depth(p + 1) \in Int
        /\ Depth(p + 1) = Depth(p) /\ ~Within(p + 1) /\ Depth(p) = Depth(p - 1) + 1
    BY <2>1, PairCounted, TextIsFinite
  <2>3. p + 2 - 1 = p + 1
    OBVIOUS
  <2>4. Kept(p, n + 1, p + 2, n + 1)
    <3>1. \A k \in p..(p + 1) : k = p \/ k = p + 1
      OBVIOUS
    <3>2. \A k \in p..(p + 1) : Depth(k) >= Depth(p)
      BY <2>2, <3>1
    <3>3. Depth(p) >= n + 1 /\ Depth(p + 1) - (n + 1) = Depth(p) - (n + 1)
      BY <2>1, <2>2
    <3>4. QED
      BY <2>2, <2>3, <3>2, <3>3 DEF Kept
  <2>5. Ahead(p + 2, n + 1)
    <3>1. Depth(p + 1) >= n + 1 /\ (Depth(p + 1) > n + 1 <=> Depth(p - 1) > n)
      BY <2>1, <2>2
    <3>2. Depth(p + 1) - (n + 1) = Depth(p - 1) - n
      BY <2>2
    <3>3. \A k \in (p + 1)..Len(text) : k \in (p - 1)..Len(text)
      BY <2>2
    <3>4. QED
      BY <2>1, <2>2, <2>3, <3>1, <3>2, <3>3 DEF Ahead
  <2>6. QED
    BY <2>4, <2>5
<1>3. QED
  BY <1>1, <1>2

----------------------------------------------------------------------------
\* A character of a comment.

LEMMA CharKeeps ==
  ASSUME text \in Seq(Char), NEW p \in 1..Len(text), ~Opens(p), ~Closes(p),
         NEW q \in 1..(p - 1), NEW n \in Nat, NEW i \in 1..n, Kept(q, i, p, n)
  PROVE  Kept(q, i, p + 1, n)
<1>1. CASE Overlaps(q)
  BY <1>1 DEF Kept
<1>2. CASE ~Overlaps(q)
  <2>1. Depth(q) >= i
    BY <1>2 DEF Kept
  <2>2. Depth(p) = Depth(p - 1) /\ ~Within(p)
    BY CharCounted
  <2>3. ASSUME Falls(q)
        PROVE  /\ ~Within(p) /\ Depth(p) - n = Depth(q) - i
               /\ \A k \in q..p : Depth(k) >= Depth(q)
    <3>1. /\ ~Within(p - 1) /\ Depth(p - 1) - n = Depth(q) - i
          /\ \A k \in q..(p - 1) : Depth(k) >= Depth(q)
      BY <1>2, <2>3 DEF Kept
    <3>2. p - 1 \in q..(p - 1)
      OBVIOUS
    <3>3. \A k \in q..p : k \in q..(p - 1) \/ k = p
      OBVIOUS
    <3>4. QED
      BY <2>2, <3>1, <3>2, <3>3
  <2>4. p + 1 - 1 = p
    OBVIOUS
  <2>5. QED
    BY <2>1, <2>3, <2>4 DEF Kept
<1>3. QED
  BY <1>1, <1>2

LEMMA CharAhead ==
  ASSUME text \in Seq(Char), NEW p \in 1..Len(text), ~Opens(p), ~Closes(p),
         NEW n \in Nat, Ahead(p, n)
  PROVE  Ahead(p + 1, n)
<1>1. CASE Overlaps(p)
  <2>1. p \in Nat /\ p + 1 \in Nat /\ p <= p + 1
    OBVIOUS
  <2>2. Overlaps(p + 1)
    BY <1>1, <2>1, OverlapsGrow
  <2>3. QED
    BY <2>2 DEF Ahead
<1>2. CASE ~Overlaps(p)
  <2>1. /\ Depth(p - 1) >= n
        /\ Depth(p - 1) > n =>
             \A k \in (p - 1)..Len(text) : Depth(k) > Depth(p - 1) - n
    BY <1>2 DEF Ahead
  <2>2. Depth(p) = Depth(p - 1) /\ ~Within(p)
    BY CharCounted
  <2>3. p + 1 - 1 = p /\ \A k \in p..Len(text) : k \in (p - 1)..Len(text)
    BY TextIsFinite
  <2>4. QED
    BY <2>1, <2>2, <2>3 DEF Ahead
<1>3. QED
  BY <1>1, <1>2

----------------------------------------------------------------------------
\* A comment is closed.

LEMMA CloseKeeps ==
  ASSUME text \in Seq(Char), NEW p \in Nat, Closes(p), NEW q \in 1..(p - 1),
         NEW n \in Nat, NEW i \in 1..(n - 1), Kept(q, i, p, n)
  PROVE  Kept(q, i, p + 2, n - 1)
<1>1. CASE Overlaps(q)
  BY <1>1 DEF Kept
<1>2. CASE ~Overlaps(q)
  <2>1. Depth(q) >= i
    BY <1>2 DEF Kept
  <2>2. ASSUME Falls(q)
        PROVE  /\ ~Within(p + 1) /\ Depth(p + 1) - (n - 1) = Depth(q) - i
               /\ \A k \in q..(p + 1) : Depth(k) >= Depth(q)
    <3>1. /\ ~Within(p - 1) /\ Depth(p - 1) - n = Depth(q) - i
          /\ \A k \in q..(p - 1) : Depth(k) >= Depth(q)
      BY <1>2, <2>2 DEF Kept
    <3>2. /\ p \in 1..Len(text) /\ Len(text) \in Nat
          /\ Depth(p - 1) \in Int /\ Depth(p) \in Int /\ Depth(p + 1) \in Int
          /\ Depth(p + 1) = Depth(p) /\ ~Within(p + 1) /\ Depth(p) = Depth(p - 1) - 1
      BY <3>1, PairCounted, TextIsFinite
    <3>3. Depth(q) \in Int
      <4>1. q \in 0..Len(text)
        BY <3>2
      <4>2. QED
        BY <4>1, DepthIsInt
    <3>4. Depth(p) >= Depth(q) /\ Depth(p + 1) - (n - 1) = Depth(q) - i
      BY <3>1, <3>2, <3>3
    <3>5. \A k \in q..(p + 1) : k \in q..(p - 1) \/ k = p \/ k = p + 1
      OBVIOUS
    <3>6. QED
      BY <3>1, <3>2, <3>4, <3>5
  <2>3. p + 2 - 1 = p + 1
    OBVIOUS
  <2>4. QED
    BY <2>1, <2>2, <2>3 DEF Kept
<1>3. QED
  BY <1>1, <1>2

LEMMA CloseAhead ==
  ASSUME text \in Seq(Char), NEW p \in Nat, Closes(p), NEW n \in Nat, n >= 1,
         Ahead(p, n)
  PROVE  Ahead(p + 2, n - 1)
<1>1. CASE Overlaps(p + 2)
  BY <1>1 DEF Ahead
<1>2. CASE ~Overlaps(p + 2)
  <2>1. /\ ~Within(p - 1) /\ Depth(p - 1) >= n
        /\ Depth(p - 1) > n =>
             \A k \in (p - 1)..Len(text) : Depth(k) > Depth(p - 1) - n
    <3>1. ~Overlaps(p)
      BY <1>2, OverlapsGrow
    <3>2. QED
      BY <1>2, <3>1, AheadAtPair
  <2>2. /\ Len(text) \in Nat
        /\ Depth(p - 1) \in Int /\ Depth(p) \in Int /\ Depth(p + 1) \in Int
        /\ Depth(p + 1) = Depth(p) /\ ~Within(p + 1) /\ Depth(p) = Depth(p - 1) - 1
    BY <2>1, PairCounted, TextIsFinite
  <2>3. p + 2 - 1 = p + 1 /\ n - 1 \in Nat
    OBVIOUS
  <2>4. Depth(p + 1) >= n - 1 /\ (Depth(p + 1) > n - 1 <=> Depth(p - 1) > n)
    BY <2>1, <2>2
  <2>5. Depth(p + 1) - (n - 1) = Depth(p - 1) - n
    BY <2>2
  <2>6. \A k \in (p + 1)..Len(text) : k \in (p - 1)..Len(text)
    BY <2>2
  <2>7. QED
    BY <2>1, <2>2, <2>3, <2>4, <2>5, <2>6 DEF Ahead
<1>3. QED
  BY <1>1, <1>2

\* The text begins with a comment, which is one deep.
LEMMA FirstCounted ==
  ASSUME text \in Seq(Char), Opens(1)
  PROVE  Depth(1) = 1 /\ ~Overlaps(1)
<1>1. Depth(0) = 0 /\ ~Within(0) /\ 1 - 1 = 0
  BY NestingStep
<1>2. Depth(1) = Depth(1 - 1) + 1
  BY <1>1, PairCounted
<1>3. QED
  BY <1>1, <1>2 DEF Overlaps

\* A counted end of the text's first comment is one where the count falls.
LEMMA CountedEndsFall ==
  ASSUME text \in Seq(Char), Opens(1), CountedEnds # {}
  PROVE  Falls(1)
<1>1. PICK k \in 2..Len(text) : Depth(k) = 0
  BY DEF CountedEnds, Depth
<1>2. k \in (1 + 1)..Len(text) /\ Depth(k) < Depth(1)
  BY <1>1, FirstCounted
<1>3. QED
  BY <1>2 DEF Falls

LEMMA CountedEndsAre ==
  ASSUME NEW e
  PROVE  e \in CountedEnds <=>
           \E k \in 2..Len(text) : e = k + 2 /\ Depth(k) = 0 /\ Depth(k - 1) = 1
  BY DEF CountedEnds, Depth

\* The first comment is closed at the first counted end, or at one that its
\* beginnings and ends do not add up to.
LEMMA CloseEnds ==
  ASSUME text \in Seq(Char), NEW p \in Nat, Closes(p), Opens(1), p > 1,
         Kept(1, 1, p, 1), Ahead(p, 1)
  PROVE  IF CountedEnds # {} THEN p + 2 = Min(CountedEnds) ELSE Overlaps(p + 2)
<1>1. /\ Len(text) \in Nat /\ p \in 2..Len(text)
      /\ Depth(p - 1) \in Int /\ Depth(p) \in Int
      /\ ~Within(p - 1) => Depth(p) = Depth(p - 1) - 1
  <2>1. /\ p \in 1..Len(text)
        /\ Depth(p - 1) \in Int /\ Depth(p) \in Int
        /\ ~Within(p - 1) => Depth(p) = Depth(p - 1) - 1
    BY PairCounted
  <2>2. QED
    BY <2>1, TextIsFinite
<1>2. Depth(1) = 1 /\ ~Overlaps(1)
  BY FirstCounted
<1>3. CASE CountedEnds # {}
  <2>1. /\ ~Within(p - 1) /\ Depth(p - 1) - 1 = Depth(1) - 1
        /\ \A k \in 1..(p - 1) : Depth(k) >= Depth(1)
    BY <1>2, <1>3, CountedEndsFall DEF Kept
  <2>2. Depth(p - 1) = 1 /\ Depth(p) = 0
    BY <1>1, <1>2, <2>1
  <2>3. p + 2 \in CountedEnds
    BY <1>1, <2>2, CountedEndsAre
  <2>4. ASSUME NEW e \in CountedEnds PROVE p + 2 <= e /\ e \in Int
    <3>1. PICK k \in 2..Len(text) : e = k + 2 /\ Depth(k) = 0
      BY CountedEndsAre
    <3>2. ~(k \in 1..(p - 1))
      BY <1>2, <2>1, <3>1
    <3>3. QED
      BY <1>1, <3>1, <3>2
  <2>5. p + 2 \in Int
    OBVIOUS
  <2>6. \A e \in CountedEnds : (\A y \in CountedEnds : e <= y) => e = p + 2
    BY <2>3, <2>4, <2>5
  <2>7. Min(CountedEnds) = p + 2
    <3>1. Min(CountedEnds) \in CountedEnds /\ \A y \in CountedEnds : Min(CountedEnds) <= y
      BY <2>3, <2>4 DEF Min
    <3>2. QED
      BY <2>6, <3>1
  <2>8. QED
    BY <1>3, <2>7
<1>4. CASE CountedEnds = {}
  <2>1. SUFFICES ASSUME ~Overlaps(p + 2) PROVE FALSE
    BY <1>4
  <2>2. /\ ~Within(p - 1) /\ Depth(p - 1) >= 1
        /\ Depth(p - 1) > 1 =>
             \A k \in (p - 1)..Len(text) : Depth(k) > Depth(p - 1) - 1
    <3>1. ~Overlaps(p)
      BY <2>1, OverlapsGrow
    <3>2. QED
      BY <2>1, <3>1, AheadAtPair
  <2>3. Depth(p) = Depth(p - 1) - 1
    BY <1>1, <2>2
  <2>4. p \in (p - 1)..Len(text)
    BY <1>1
  <2>5. Depth(p - 1) = 1 /\ Depth(p) = 0
    BY <1>1, <2>2, <2>3, <2>4
  <2>6. p + 2 \in CountedEnds
    BY <1>1, <2>5, CountedEndsAre
  <2>7. QED
    BY <1>4, <2>6
<1>5. QED
  BY <1>3, <1>4

----------------------------------------------------------------------------
\* A comment is given up.

\* Where the parser is stuck no counted end is ahead.
LEMMA StuckBeforeNoEnd ==
  ASSUME text \in Seq(Char), NEW p \in 1..(Len(text) + 1), Stuck(p),
         NEW q \in 1..(p - 1), NEW n \in Nat, NEW i \in 1..n, Kept(q, i, p, n)
  PROVE  Overlaps(q) \/ (Depth(q) >= i /\ ~Falls(q))
<1>1. SUFFICES ASSUME ~Overlaps(q), Falls(q) PROVE FALSE
  BY DEF Kept
<1>2. /\ ~Within(p - 1)
      /\ \A k \in q..(p - 1) : Depth(k) >= Depth(q)
  BY <1>1 DEF Kept
<1>3. PICK k \in (q + 1)..Len(text) : Depth(k) < Depth(q)
  BY <1>1 DEF Falls
<1>4. Len(text) \in Nat
  BY TextIsFinite
<1>5. k \in 0..Len(text) /\ q \in 0..Len(text) /\ p - 1 \in 0..Len(text)
  BY <1>4
<1>6. Depth(k) \in Int /\ Depth(q) \in Int /\ Depth(p - 1) \in Int
  BY <1>5, DepthIsInt
<1>7. ~(k \in q..(p - 1))
  BY <1>2, <1>3, <1>6
<1>8. k = p /\ p = Len(text) /\ At(p, {"*"})
  BY <1>4, <1>7 DEF Stuck
<1>9. ~Opens(p) /\ ~Closes(p)
  <2>1. ~At(p + 1, {"*"}) /\ ~At(p + 1, {"/"})
    BY <1>4, <1>8 DEF At
  <2>2. QED
    BY <2>1 DEF Opens, Closes
<1>10. Depth(p) = Depth(p - 1)
  BY <1>4, <1>8, <1>9, CharCounted
<1>11. Depth(p - 1) >= Depth(q)
  BY <1>2
<1>12. QED
  BY <1>3, <1>6, <1>8, <1>10, <1>11

LEMMA BackKeeps ==
  ASSUME NEW q, NEW i, NEW p, NEW n, Overlaps(q) \/ (Depth(q) >= i /\ ~Falls(q))
  PROVE  Kept(q, i, p, n)
  BY DEF Kept

LEMMA BackAhead ==
  ASSUME text \in Seq(Char), NEW q \in 3..Len(text), Opens(q), NEW n \in Nat, n >= 2,
         Overlaps(q) \/ (Depth(q) >= n /\ ~Falls(q))
  PROVE  Ahead(q + 1, n - 1)
<1>1. CASE Overlaps(q)
  <2>1. q \in Nat /\ q + 1 \in Nat /\ q <= q + 1
    OBVIOUS
  <2>2. Overlaps(q + 1)
    BY <1>1, <2>1, OverlapsGrow
  <2>3. QED
    BY <2>2 DEF Ahead
<1>2. CASE Depth(q) >= n /\ ~Falls(q)
  <2>1. Len(text) \in Nat /\ q + 1 - 1 = q
    BY TextIsFinite
  <2>2. \A k \in q..Len(text) : Depth(k) \in Int
    <3>1. \A k \in q..Len(text) : k \in 0..Len(text)
      BY <2>1
    <3>2. QED
      BY <3>1, DepthIsInt
  <2>3. \A k \in q..Len(text) : Depth(k) >= Depth(q)
    <3>1. \A k \in (q + 1)..Len(text) : ~(Depth(k) < Depth(q))
      BY <1>2 DEF Falls
    <3>2. \A k \in q..Len(text) : k = q \/ k \in (q + 1)..Len(text)
      OBVIOUS
    <3>3. q \in q..Len(text)
      BY <2>1
    <3>4. QED
      BY <2>2, <3>1, <3>2, <3>3
  <2>4. Depth(q) \in Int
    BY <2>1, <2>2
  <2>5. \A k \in q..Len(text) : Depth(k) > Depth(q) - (n - 1)
    BY <1>2, <2>2, <2>3, <2>4
  <2>6. Depth(q) >= n - 1
    BY <1>2, <2>4
  <2>7. QED
    BY <2>1, <2>5, <2>6 DEF Ahead
<1>3. QED
  BY <1>1, <1>2

----------------------------------------------------------------------------
\* The steps of a comment

LEMMA OpenedFacts ==
  ASSUME TypeOK
  PROVE  /\ text \in Seq(Char) /\ Len(text) \in Nat
         /\ pos \in Nat /\ pos \in 1..(Len(text) + 1)
         /\ opened \in Seq(Nat) /\ Len(opened) \in Nat /\ DOMAIN opened = 1..Len(opened)
         /\ \A i \in 1..Len(opened) : opened[i] \in 1..(pos - 1)
<1>1. /\ text \in Seq(Char) /\ Len(text) \in Nat /\ pos \in 1..(Len(text) + 1)
      /\ opened \in Seq(Nat) /\ Len(opened) \in Nat /\ DOMAIN opened = 1..Len(opened)
  BY TextIsFinite DEF TypeOK
<1>2. ASSUME NEW i \in 1..Len(opened) PROVE opened[i] \in 1..(pos - 1)
  <2>1. Opens(opened[i]) /\ opened[i] + 1 < pos /\ opened[i] \in Nat
    BY <1>1 DEF TypeOK
  <2>2. opened[i] \in 1..Len(text)
    BY <1>1, <2>1, AtBounds DEF Opens
  <2>3. QED
    BY <1>1, <2>1, <2>2
<1>3. QED
  BY <1>1, <1>2

\* A comment that is opened at the next character.
LEMMA PushInStep ==
  ASSUME TypeOK, NEW p \in Nat, Opens(p),
         \A i \in 1..Len(opened) : opened[i] \in 1..(p - 1),
         \A i \in 1..Len(opened) : Kept(opened[i], i, p, Len(opened)),
         Ahead(p, Len(opened)), opened' = Append(opened, p), pos' = p + 2, UNCHANGED text
  PROVE  KeptNow' /\ AheadNow'
<1> DEFINE n == Len(opened)
<1>1. /\ text \in Seq(Char) /\ opened \in Seq(Nat) /\ n \in Nat /\ DOMAIN opened = 1..n
  BY OpenedFacts
<1>2. /\ Len(opened') = n + 1 /\ DOMAIN opened' = 1..(n + 1)
      /\ opened'[n + 1] = p /\ \A i \in 1..n : opened'[i] = opened[i]
  BY <1>1, AppendProperties
<1>3. Kept(p, n + 1, p + 2, n + 1) /\ Ahead(p + 2, n + 1)
  BY <1>1, OpenBegins
<1>4. \A i \in 1..n : Kept(opened[i], i, p + 2, n + 1)
  BY <1>1, OpenKeeps
<1> HIDE DEF n
<1>5. \A i \in DOMAIN opened' : Kept(opened'[i], i, pos', Len(opened'))
  <2>1. \A i \in 1..(n + 1) : i \in 1..n \/ i = n + 1
    BY <1>1
  <2>2. QED
    BY <1>2, <1>3, <1>4, <2>1
<1>6. QED
  BY <1>2, <1>3, <1>5, InStepPrimed

LEMMA OpenedFirst ==
  ASSUME NEW s \in Seq(Nat), NEW x \in Nat
  PROVE  /\ s # <<>> => Append(s, x)[1] = s[1]
         /\ s = <<>> => Append(s, x)[1] = x
         /\ Len(s) > 1 => /\ Front(s)[1] = s[1] /\ Len(Front(s)) = Len(s) - 1
                          /\ DOMAIN Front(s) = 1..(Len(s) - 1)
                          /\ \A i \in 1..(Len(s) - 1) : Front(s)[i] = s[i]
<1>1. Len(s) \in Nat /\ (s # <<>> => Len(s) # 0)
  OBVIOUS
<1>2. s # <<>> => Append(s, x)[1] = s[1]
  BY <1>1, AppendProperties
<1>3. s = <<>> => Append(s, x)[1] = x
  OBVIOUS
<1>4. ASSUME Len(s) > 1
      PROVE  /\ Front(s)[1] = s[1] /\ Len(Front(s)) = Len(s) - 1
             /\ DOMAIN Front(s) = 1..(Len(s) - 1)
             /\ \A i \in 1..(Len(s) - 1) : Front(s)[i] = s[i]
  BY <1>1, <1>4 DEF Front
<1>5. QED
  BY <1>2, <1>3, <1>4

LEMMA CommentKeepsInStep ==
  ASSUME TypeOK, InStep, rule = "ml_comment", Comment
  PROVE  InStep'
<1> DEFINE n == Len(opened)
<1>1. /\ text \in Seq(Char) /\ Len(text) \in Nat
      /\ pos \in Nat /\ pos \in 1..(Len(text) + 1)
      /\ opened \in Seq(Nat) /\ n \in Nat /\ DOMAIN opened = 1..n
      /\ \A i \in 1..n : opened[i] \in 1..(pos - 1)
  BY OpenedFacts
<1>2. stage = "body" =>
        /\ Opens(1) /\ opened[1] = 1 /\ opened # <<>>
        /\ \A i \in 1..n : Kept(opened[i], i, pos, n)
        /\ Ahead(pos, n)
  BY <1>1 DEF InStep, TypeOK, KeptNow, AheadNow
<1>3. UNCHANGED text => (Opens(1)' <=> Opens(1))
  BY DEF Opens, At
<1>4. CASE BeginComment
  <2>1. /\ stage = "start" /\ opened = <<>> /\ Opens(1) /\ n = 0
        /\ opened' = Append(opened, 1) /\ pos' = 1 + 2 /\ stage' = "body"
        /\ UNCHANGED <<text, rule>>
    BY <1>4 DEF BeginComment, TypeOK
  <2>2. Ahead(1, n)
    <3>1. Depth(0) = 0 /\ ~Within(0) /\ 1 - 1 = 0
      BY <1>1, NestingStep
    <3>2. QED
      BY <2>1, <3>1 DEF Ahead
  <2>3. KeptNow' /\ AheadNow'
    BY <2>1, <2>2, PushInStep
  <2>4. opened'[1] = 1
    BY <2>1
  <2>5. QED
    BY <1>3, <2>1, <2>3, <2>4 DEF InStep
<1>5. CASE NoComment
  BY <1>5 DEF NoComment, Ends, InStep
<1>6. CASE NestComment
  <2>1. /\ stage = "body" /\ Opens(pos) /\ opened' = Append(opened, pos)
        /\ pos' = pos + 2 /\ UNCHANGED <<text, rule, stage>>
    BY <1>6 DEF NestComment
  <2>2. KeptNow' /\ AheadNow'
    BY <1>1, <1>2, <2>1, PushInStep
  <2>3. opened'[1] = 1
    BY <1>1, <1>2, <2>1, OpenedFirst
  <2>4. QED
    BY <1>2, <1>3, <2>1, <2>2, <2>3 DEF InStep
<1>7. CASE CommentChar
  <2>1. /\ stage = "body" /\ ~Opens(pos) /\ ~Closes(pos) /\ pos \in 1..Len(text)
        /\ pos' = pos + 1 /\ UNCHANGED <<text, rule, stage, opened>>
    BY <1>1, <1>7 DEF CommentChar, Stuck
  <2>2. \A i \in 1..n : Kept(opened[i], i, pos + 1, n)
    BY <1>1, <1>2, <2>1, CharKeeps
  <2>3. Ahead(pos + 1, n)
    BY <1>1, <1>2, <2>1, CharAhead
  <2>4. KeptNow' /\ AheadNow'
    BY <1>1, <2>1, <2>2, <2>3, InStepPrimed
  <2>5. QED
    BY <1>2, <1>3, <2>1, <2>4 DEF InStep
<1>8. CASE CloseComment
  <2>1. /\ stage = "body" /\ Closes(pos) /\ pos' = pos + 2 /\ opened' = Front(opened)
        /\ stage' = (IF n = 1 THEN "comment" ELSE "body") /\ UNCHANGED <<text, rule>>
    BY <1>8 DEF CloseComment
  <2>2. CASE n = 1
    BY <2>1, <2>2 DEF InStep
  <2>3. CASE n # 1
    <3>1. n > 1
      BY <1>1, <1>2, <2>1, <2>3
    <3>2. /\ opened'[1] = 1 /\ Len(opened') = n - 1 /\ DOMAIN opened' = 1..(n - 1)
          /\ \A i \in 1..(n - 1) : opened'[i] = opened[i]
      BY <1>1, <1>2, <2>1, <3>1, OpenedFirst
    <3>3. \A i \in 1..(n - 1) : i \in 1..n
      BY <1>1
    <3>4. \A i \in 1..(n - 1) : Kept(opened[i], i, pos + 2, n - 1)
      BY <1>1, <1>2, <2>1, <3>3, CloseKeeps
    <3>5. Ahead(pos + 2, n - 1)
      BY <1>1, <1>2, <2>1, <3>1, CloseAhead
    <3>6. KeptNow' /\ AheadNow'
      BY <2>1, <3>2, <3>4, <3>5, InStepPrimed
    <3>7. QED
      BY <1>2, <1>3, <2>1, <2>3, <3>2, <3>6 DEF InStep
  <2>4. QED
    BY <2>2, <2>3
<1>9. CASE Backtrack
  <2> DEFINE q == Last(opened)
  <2>1. /\ stage = "body" /\ Stuck(pos) /\ n > 1 /\ pos' = q + 1
        /\ opened' = Front(opened) /\ UNCHANGED <<text, rule, stage>>
    BY <1>9 DEF Backtrack
  <2>2. q = opened[n] /\ n \in 1..n /\ 1 \in 1..n
    BY <1>1, <2>1 DEF Last
  <2>3. /\ opened'[1] = 1 /\ Len(opened') = n - 1 /\ DOMAIN opened' = 1..(n - 1)
        /\ \A i \in 1..(n - 1) : opened'[i] = opened[i]
    BY <1>1, <1>2, <2>1, OpenedFirst
  <2>4. \A i \in 1..n : \/ Overlaps(opened[i])
                        \/ Depth(opened[i]) >= i /\ ~Falls(opened[i])
    BY <1>1, <1>2, <2>1, StuckBeforeNoEnd
  <2>5. \A i \in 1..(n - 1) : Kept(opened[i], i, q + 1, n - 1)
    <3>1. \A i \in 1..(n - 1) : i \in 1..n
      BY <1>1
    <3>2. QED
      BY <2>4, <3>1, BackKeeps
  <2>6. q \in 3..Len(text) /\ Opens(q)
    <3>1. \A i, j \in DOMAIN opened : i < j => opened[i] + 1 < opened[j]
      BY DEF TypeOK
    <3>2. opened[1] + 1 < opened[n] /\ Opens(opened[n])
      BY <1>1, <2>1, <2>2, <3>1 DEF TypeOK
    <3>3. q \in 1..(pos - 1)
      BY <1>1, <2>2
    <3>4. QED
      BY <1>1, <1>2, <2>1, <2>2, <3>2, <3>3
  <2>7. Ahead(q + 1, n - 1)
    <3>1. Overlaps(q) \/ (Depth(q) >= n /\ ~Falls(q))
      BY <2>2, <2>4
    <3> HIDE DEF q
    <3>2. QED
      BY <1>1, <2>1, <2>6, <3>1, BackAhead
  <2>8. KeptNow' /\ AheadNow'
    BY <2>1, <2>3, <2>5, <2>7, InStepPrimed
  <2>9. QED
    BY <1>2, <1>3, <2>1, <2>3, <2>8 DEF InStep
<1>10. CASE Unclosed
  BY <1>10 DEF Unclosed, InStep
<1>11. QED
  BY <1>4, <1>5, <1>6, <1>7, <1>8, <1>9, <1>10 DEF Comment

LEMMA NextKeepsInStep == TypeOK /\ InStep /\ [Next]_vars => InStep'
<1> SUFFICES ASSUME TypeOK, InStep, [Next]_vars PROVE InStep'
  OBVIOUS
<1>1. rule' = rule
  BY DEF Next, vars, Comment, BeginComment, NoComment, NestComment, CommentChar,
         CloseComment, Backtrack, Unclosed, Literal, Number, Bare, Raw, OpenString,
         TextChar, Escape, CloseString, NoString, Keyword, LastNumber, Ends, Tries
<1>2. CASE rule # "ml_comment"
  BY <1>1, <1>2 DEF InStep
<1>3. CASE rule = "ml_comment" /\ Comment
  BY <1>3, CommentKeepsInStep
<1>4. ~(rule = "ml_comment" /\ Literal)
  BY DEF InStep, Literal, Number, Bare, Raw, OpenString, TextChar, Escape, CloseString,
         NoString, Keyword, LastNumber
<1>5. CASE UNCHANGED vars
  <2>1. UNCHANGED <<text, rule, stage, pos, opened>>
    BY <1>5 DEF vars
  <2>2. KeptNow' <=> KeptNow
    BY <2>1, InStepPrimed DEF KeptNow
  <2>3. AheadNow' <=> AheadNow
    BY <2>1, InStepPrimed DEF AheadNow
  <2>4. Opens(1)' <=> Opens(1)
    BY <2>1 DEF Opens, At
  <2>5. QED
    BY <2>1, <2>2, <2>3, <2>4 DEF InStep
<1>6. QED
  BY <1>2, <1>3, <1>4, <1>5 DEF Next

\* Ending where the count does, told of the next state.
LEMMA CommentEnds ==
  ASSUME UNCHANGED text,
         rule' = "ml_comment" /\ Ended' =>
           IF Opens(1) /\ CountedEnds # {}
           THEN stage' = "comment" /\ pos' = Min(CountedEnds)
           ELSE stage' = "comment" => \E i \in 3..(pos') : Opens(i) /\ Closes(i + 1)
  PROVE  CommentsEndWhereTheyNest'
<1>1. Nesting' = Nesting
  BY DEF Nesting, Opens, Closes, At
<1>2. CountedEnds' = CountedEnds
  BY <1>1 DEF CountedEnds
<1>3. Min(CountedEnds)' = Min(CountedEnds)
  BY <1>2
<1>4. \A i : (Opens(i)' <=> Opens(i)) /\ (Closes(i)' <=> Closes(i))
  BY DEF Opens, Closes, At
<1>5. QED
  BY <1>2, <1>3, <1>4 DEF CommentsEndWhereTheyNest

LEMMA CommentStep ==
  TypeOK /\ InStep /\ CommentsEndWhereTheyNest /\ [Next]_vars => CommentsEndWhereTheyNest'
<1> SUFFICES ASSUME TypeOK, InStep, CommentsEndWhereTheyNest, [Next]_vars
             PROVE  CommentsEndWhereTheyNest'
  OBVIOUS
<1> DEFINE n == Len(opened)
<1>1. /\ text \in Seq(Char) /\ Len(text) \in Nat
      /\ pos \in Nat /\ pos \in 1..(Len(text) + 1)
      /\ opened \in Seq(Nat) /\ n \in Nat /\ DOMAIN opened = 1..n
      /\ \A i \in 1..n : opened[i] \in 1..(pos - 1)
  BY OpenedFacts
<1>2. UNCHANGED <<text, rule>>
  BY DEF Next, vars, Comment, BeginComment, NoComment, NestComment, CommentChar,
         CloseComment, Backtrack, Unclosed, Literal, Number, Bare, Raw, OpenString,
         TextChar, Escape, CloseString, NoString, Keyword, LastNumber, Ends, Tries
<1>3. CASE rule # "ml_comment"
  BY <1>2, <1>3, CommentEnds
<1>4. ASSUME stage = "body", rule = "ml_comment"
      PROVE  Opens(1) /\ opened[1] = 1 /\ Kept(1, 1, pos, n) /\ Ahead(pos, n) /\ n # 0
  <2>1. Opens(1) /\ opened[1] = 1 /\ KeptNow /\ Ahead(pos, n) /\ opened # <<>>
    BY <1>4 DEF InStep, AheadNow, TypeOK
  <2>2. n # 0 /\ 1 \in DOMAIN opened
    BY <1>1, <2>1
  <2>3. QED
    BY <2>1, <2>2 DEF KeptNow
<1>5. CASE rule = "ml_comment" /\ CloseComment
  <2>1. /\ stage = "body" /\ Closes(pos) /\ pos' = pos + 2
        /\ stage' = IF n = 1 THEN "comment" ELSE "body"
    BY <1>5 DEF CloseComment
  <2>2. CASE n = 1
    <3>1. pos > 1
      <4>1. opened[1] \in 1..(pos - 1)
        BY <1>1, <2>2
      <4>2. QED
        BY <1>1, <4>1
    <3>2. IF CountedEnds # {} THEN pos + 2 = Min(CountedEnds) ELSE Overlaps(pos + 2)
      BY <1>1, <1>4, <1>5, <2>1, <2>2, <3>1, CloseEnds
    <3>3. Overlaps(pos + 2) => \E i \in 3..(pos + 2) : Opens(i) /\ Closes(i + 1)
      BY <1>1 DEF Overlaps
    <3>4. QED
      BY <1>2, <1>4, <1>5, <2>1, <2>2, <3>2, <3>3, CommentEnds
  <2>3. CASE n # 1
    <3>1. ~Ended'
      BY <2>1, <2>3 DEF Ended, Kinds
    <3>2. QED
      BY <1>2, <3>1, CommentEnds
  <2>4. QED
    BY <2>2, <2>3
<1>6. CASE rule = "ml_comment" /\ Unclosed
  <2>1. stage = "body" /\ Stuck(pos) /\ n = 1 /\ stage' = "failed"
    BY <1>6 DEF Unclosed
  <2>2. Opens(1) /\ opened[1] = 1 /\ Kept(1, 1, pos, n)
    BY <1>4, <1>6, <2>1
  <2>3. 1 \in 1..(pos - 1)
    BY <1>1, <2>1, <2>2
  <2>4. ~Falls(1)
    <3>1. Overlaps(1) \/ (Depth(1) >= 1 /\ ~Falls(1))
      BY <1>1, <2>1, <2>2, <2>3, StuckBeforeNoEnd
    <3>2. QED
      BY <1>1, <2>2, <3>1, FirstCounted
  <2>5. CountedEnds = {}
    BY <1>1, <2>2, <2>4, CountedEndsFall
  <2>6. QED
    BY <1>2, <2>1, <2>5, CommentEnds
<1>7. CASE rule = "ml_comment" /\ NoComment
  <2>1. ~Opens(1) /\ stage' = "failed"
    BY <1>7 DEF NoComment, Ends
  <2>2. QED
    BY <1>2, <2>1, CommentEnds
<1>8. CASE BeginComment \/ NestComment \/ CommentChar \/ Backtrack
  <2>1. stage' = "body"
    BY <1>8 DEF BeginComment, NestComment, CommentChar, Backtrack
  <2>2. ~Ended'
    BY <2>1 DEF Ended, Kinds
  <2>3. QED
    BY <1>2, <2>2, CommentEnds
<1>9. ~(rule = "ml_comment" /\ Literal)
  BY DEF InStep, Literal, Number, Bare, Raw, OpenString, TextChar, Escape, CloseString,
         NoString, Keyword, LastNumber
<1>10. CASE UNCHANGED vars
  <2>1. UNCHANGED <<text, rule, stage, pos, opened>>
    BY <1>10 DEF vars
  <2>2. Ended' <=> Ended
    BY <2>1 DEF Ended
  <2>3. QED
    BY <2>1, <2>2, CommentEnds DEF CommentsEndWhereTheyNest
<1>11. QED
  BY <1>3, <1>5, <1>6, <1>7, <1>8, <1>9, <1>10 DEF Next, Comment

\* A comment ends where its beginnings and ends add up, however many of those
\* within it turn out not to be closed, and where they do not it is no comment,
\* unless the star of a beginning can also be that of an end (grammar.rs,
\* ml_comment), for every text.
THEOREM CommentsEndAsTheyNest == Spec => []CommentsEndWhereTheyNest
<1>1. Init => InStep /\ CommentsEndWhereTheyNest
  BY DEF Init, InStep, CommentsEndWhereTheyNest, Ended, Kinds
<1>2. QED
  BY <1>1, InitTypes, NextKeepsTypes, NextKeepsInStep, CommentStep, PTL DEF Spec
=============================================================================
