------------------------------- MODULE Lexer -------------------------------
(***************************************************************************)
(* The rules of the grammar that read characters (grammar.rs): a comment   *)
(* over several lines, which nests, and a literal, which is a number, an   *)
(* identifier, a string or a keyword.  A parser is an ordered choice: the  *)
(* first alternative that succeeds is taken, and one that fails puts the   *)
(* position back to where the choice began.                                *)
(***************************************************************************)
EXTENDS Integers, SequencesExt

CONSTANT Texts            \* sets of texts: one is picked, then a member of it

\* "e" is also a hexadecimal digit and the sign of an exponent, "n" also what
\* an escape may be; "inf" stands for the letters of a keyword.
Letter == {"e", "n", "x", "inf"}
Digit  == {"0", "1"}
Sign   == {"+", "-"}
Blank  == {"SP", "LF"}
Char   == Letter \cup Digit \cup Sign \cup Blank
            \cup {"_", ".", "!", "#", "quote", "\\", "/", "*", "="}

ASSUME TextsAssumption == \A group \in Texts : group \subseteq Seq(Char)

\* Which characters an identifier may have, and begin with.  An exclamation
\* mark may begin one and not go on with it; a dot is not kept out of the last.
IdChar == Letter \cup Digit \cup Sign \cup {"_", ".", "*"}
IdSansDig == (IdChar \ Digit) \cup {"!"}
IdSansDigPoint == IdSansDig \ {"."}
IdSansSignDigPoint == IdSansDig \ Sign

VARIABLES text,
          rule,      \* "ml_comment" or "literal"
          stage,     \* the alternative that is tried, or how it ended
          pos,       \* the next character; at the end, the one behind
          opened     \* where the comments that are open begin

vars == <<text, rule, stage, pos, opened>>

Alternatives == {"number", "bare", "raw", "escaped", "text", "keyword", "last"}
Kinds == {"comment", "number", "ident", "string", "rawstring", "keyword"}
Stages == {"start", "body", "failed"} \cup Alternatives \cup Kinds

Init == /\ \E group \in Texts : text \in group
        /\ rule \in {"ml_comment", "literal"}
        /\ stage = IF rule = "literal" THEN "number" ELSE "start"
        /\ pos = 1
        /\ opened = <<>>

At(p, chars) == p \in DOMAIN text /\ text[p] \in chars
\* Behind the characters of a class from p on.
RunEnd(p, chars) ==
  p + Cardinality({q \in p..Len(text) : \A r \in p..q : text[r] \in chars})
\* Behind one character of a class, if it is there.
Skip(p, chars) == IF At(p, chars) THEN p + 1 ELSE p

Ends(kind, p) == stage' = kind /\ pos' = p /\ UNCHANGED <<text, rule, opened>>
Tries(alternative) == stage' = alternative /\ UNCHANGED <<text, rule, pos, opened>>

----------------------------------------------------------------------------
\* ml_comment

Opens(p)  == At(p, {"/"}) /\ At(p + 1, {"*"})
Closes(p) == At(p, {"*"}) /\ At(p + 1, {"/"})
\* No alternative takes the character at p: none is left, or the last is a star.
Stuck(p) == p > Len(text) \/ (p = Len(text) /\ At(p, {"*"}))

BeginComment ==
  /\ stage = "start" /\ Opens(1)
  /\ opened' = <<1>> /\ pos' = 3 /\ stage' = "body"
  /\ UNCHANGED <<text, rule>>

NoComment == stage = "start" /\ ~Opens(1) /\ Ends("failed", 1)

\* The first alternative: a comment within the comment.
NestComment ==
  /\ stage = "body" /\ Opens(pos)
  /\ opened' = Append(opened, pos) /\ pos' = pos + 2
  /\ UNCHANGED <<text, rule, stage>>

\* Slip: the end of the text is no reason to stop.
CommentChar_PastEnd ==
  /\ stage = "body" /\ ~Opens(pos) /\ ~Closes(pos)
  /\ pos' = pos + 1
  /\ UNCHANGED <<text, rule, stage, opened>>

\* Slip: a star is skipped whatever follows it.
CommentChar_AnyStar ==
  /\ stage = "body" /\ ~Opens(pos) /\ ~Stuck(pos)
  /\ pos' = pos + 1
  /\ UNCHANGED <<text, rule, stage, opened>>

\* The other two: any character but a star, and a star if no slash follows.
CommentChar ==
  /\ stage = "body" /\ ~Opens(pos) /\ ~Closes(pos) /\ ~Stuck(pos)
  /\ pos' = pos + 1
  /\ UNCHANGED <<text, rule, stage, opened>>

\* Slip: the first end ends all.
CloseComment_All ==
  /\ stage = "body" /\ Closes(pos)
  /\ pos' = pos + 2
  /\ opened' = <<>>
  /\ stage' = "comment"
  /\ UNCHANGED <<text, rule>>

CloseComment ==
  /\ stage = "body" /\ Closes(pos)
  /\ pos' = pos + 2
  /\ opened' = Front(opened)
  /\ stage' = IF Len(opened) = 1 THEN "comment" ELSE "body"
  /\ UNCHANGED <<text, rule>>

\* Slip: the position is put back to the beginning of the comment.
Backtrack_Again ==
  /\ stage = "body" /\ Stuck(pos) /\ Len(opened) > 1
  /\ pos' = Last(opened)
  /\ opened' = Front(opened)
  /\ UNCHANGED <<text, rule, stage>>

\* The innermost comment is not closed, so it is none: its slash is taken for
\* any character.
Backtrack ==
  /\ stage = "body" /\ Stuck(pos) /\ Len(opened) > 1
  /\ pos' = Last(opened) + 1
  /\ opened' = Front(opened)
  /\ UNCHANGED <<text, rule, stage>>

Unclosed ==
  /\ stage = "body" /\ Stuck(pos) /\ Len(opened) = 1
  /\ stage' = "failed"
  /\ UNCHANGED <<text, rule, pos, opened>>

----------------------------------------------------------------------------
\* number

\* Where the digits of a number that begin at p end: one, then more digits and
\* underscores.  Its own p says that there are none.
DigitsEnd(p, digits) ==
  IF At(p, digits) THEN RunEnd(p, digits \cup {"_"}) ELSE p

\* `0x` stands for the three prefixes, before which there may be a sign.
RadixEnd(p) ==
  LET zero == Skip(p, Sign)
      end  == DigitsEnd(zero + 2, Digit \cup {"e"})
  IN  IF At(zero, {"0"}) /\ At(zero + 1, {"x"}) /\ end # zero + 2 THEN end ELSE p

\* The digits of an exponent may be missing, those behind a dot may not.
DecimalEnd(p) ==
  LET first == Skip(p, Sign)
      whole == DigitsEnd(first, Digit)
      point == IF At(whole, {"."}) /\ At(whole + 1, Digit)
               THEN DigitsEnd(whole + 1, Digit) ELSE whole
      power == IF At(point, {"e"})
               THEN RunEnd(Skip(point + 1, Sign), Digit \cup {"_"}) ELSE point
  IN  IF whole = first THEN p ELSE power

NumberEnd(p) == IF RadixEnd(p) # p THEN RadixEnd(p) ELSE DecimalEnd(p)

\* Slip: an identifier is tried before a number is ruled out.
Number_NotFirst == stage = "number" /\ Tries("bare")

\* An identifier begins with no number: where there is one none of the other
\* alternatives of `ident` is tried, and the keywords are next.
Number == stage = "number" /\ Tries(IF NumberEnd(1) # 1 THEN "last" ELSE "bare")

LastNumber ==
  /\ stage = "last"
  /\ IF NumberEnd(1) # 1 THEN Ends("number", NumberEnd(1)) ELSE Ends("failed", 1)

----------------------------------------------------------------------------
\* ident

\* The third alternative, a dotted identifier, is never reached: the first takes
\* the dot and the second the sign.
BareEnd(p) ==
  IF At(p, IdSansSignDigPoint) THEN RunEnd(p + 1, IdChar)
  ELSE IF At(p, Sign)
  THEN IF At(p + 1, IdSansDigPoint) THEN RunEnd(p + 2, IdChar) ELSE p + 1
  ELSE p

\* Only these of the keywords can be read as an identifier.
IsWord(from, to) == SubSeq(text, from, to - 1) \in {<<"inf">>, <<"-", "inf">>}

\* Slip: the word ends before its first digit or sign.
Bare_NoDigits ==
  /\ stage = "bare"
  /\ LET end == IF BareEnd(1) = 1 THEN 1 ELSE RunEnd(2, IdSansSignDigPoint)
     IN  IF end = 1 \/ IsWord(1, end) THEN Tries("raw") ELSE Ends("ident", end)

Bare == /\ stage = "bare"
        /\ IF BareEnd(1) = 1 \/ IsWord(1, BareEnd(1))
           THEN Tries("raw") ELSE Ends("ident", BareEnd(1))

\* The quotes that are followed by as many sharps as come before the one at p.
RawEnds(p) == {q \in (p + 1)..Len(text) :
                 At(q, {"quote"}) /\ \A i \in 1..(p - 1) : At(q + i, {"#"})}

\* A raw string goes on to the first of them.
Raw ==
  LET quote == RunEnd(1, {"#"})
      isRaw == quote > 1 /\ At(quote, {"quote"}) /\ RawEnds(quote) # {}
  IN  /\ stage = "raw"
      /\ \/ /\ isRaw
            /\ \E q \in RawEnds(quote) : /\ \A r \in RawEnds(quote) : q <= r
                                         /\ Ends("rawstring", q + quote)
         \/ ~isRaw /\ Tries("escaped")

----------------------------------------------------------------------------
\* escaped_string

OpenString ==
  /\ stage = "escaped"
  /\ IF At(1, {"quote"}) THEN Ends("text", 2) ELSE Tries("keyword")

TextChar == /\ stage = "text" /\ pos <= Len(text) /\ ~At(pos, {"quote", "\\"})
            /\ Ends("text", pos + 1)

\* Slip: a backslash is a character like any other.
Escape_Plain == stage = "text" /\ At(pos, {"\\"}) /\ Ends("text", pos + 1)

\* A character that may be escaped, or the blanks behind a backslash.  The
\* letter n stands for the other letters.
Escape ==
  /\ stage = "text" /\ At(pos, {"\\"})
  /\ \/ At(pos + 1, {"quote", "\\", "n"}) /\ Ends("text", pos + 2)
     \/ At(pos + 1, Blank) /\ Ends("text", RunEnd(pos + 1, Blank))

CloseString == stage = "text" /\ At(pos, {"quote"}) /\ Ends("string", pos + 1)

\* The text ends, or what is escaped may not be: all of it is put back.
NoString ==
  /\ stage = "text"
  /\ \/ pos > Len(text)
     \/ At(pos, {"\\"}) /\ ~At(pos + 1, {"quote", "\\", "n"} \cup Blank)
  /\ Ends("keyword", 1)

\* The first of the keywords that the text begins with.
Keyword ==
  LET Is(word) == Len(word) <= Len(text) /\ SubSeq(text, 1, Len(word)) = word
  IN  /\ stage = "keyword"
      /\ IF Is(<<"#", "inf">>) THEN Ends("keyword", 3)
         ELSE IF Is(<<"#", "-", "inf">>) THEN Ends("keyword", 4)
         ELSE Tries("last")

----------------------------------------------------------------------------
Comment == \/ BeginComment \/ NoComment \/ NestComment \/ CommentChar
           \/ CloseComment \/ Backtrack \/ Unclosed
Literal == \/ Number \/ Bare \/ Raw \/ OpenString \/ TextChar \/ Escape
           \/ CloseString \/ NoString \/ Keyword \/ LastNumber

Ended == stage \in Kinds \cup {"failed"}
Next == Comment \/ Literal

\* A parser is a function call: it goes on until it returns.
Spec == Init /\ [][Next]_vars /\ WF_vars(Next)

----------------------------------------------------------------------------
(***************************************************************************)
(* Properties.                                                             *)
(***************************************************************************)
\* The variables have their types; the comments that are open begin one within
\* the other, before the next character, and only a comment has any.
TypeOK ==
  /\ text \in Seq(Char) /\ rule \in {"ml_comment", "literal"} /\ stage \in Stages
  /\ pos \in 1..(Len(text) + 1) /\ opened \in Seq(Nat)
  /\ stage = "body" => opened # <<>>
  /\ stage \in {"start"} \cup Alternatives => opened = <<>>
  /\ \A i \in DOMAIN opened : Opens(opened[i]) /\ opened[i] + 1 < pos
  /\ \A i, j \in DOMAIN opened : i < j => opened[i] + 1 < opened[j]

\* How deep comments nest at each character if their ends are counted from the
\* left, where `within` says that it is the second of an end.
Nesting ==
  LET At0 == [depth |-> 0, within |-> FALSE]
      f[i \in 0..Len(text)] ==
        IF i = 0 THEN At0
        ELSE IF f[i - 1].within THEN [depth |-> f[i - 1].depth, within |-> FALSE]
        ELSE IF Opens(i) THEN [depth |-> f[i - 1].depth + 1, within |-> TRUE]
        ELSE IF Closes(i) THEN [depth |-> f[i - 1].depth - 1, within |-> TRUE]
        ELSE f[i - 1]
  IN  f
\* Behind the end that makes up for the first beginning, if there is one.
CountedEnds ==
  {i + 2 : i \in {k \in 2..Len(text) : Nesting[k].depth = 0 /\ Nesting[k - 1].depth = 1}}

\* A comment ends where its beginnings and ends add up; where they do not it is
\* no comment, unless the star of a beginning can also be that of an end.
CommentsEndWhereTheyNest ==
  rule = "ml_comment" /\ Ended =>
    IF Opens(1) /\ CountedEnds # {}
    THEN stage = "comment" /\ pos = Min(CountedEnds)
    ELSE stage = "comment" => \E i \in 3..pos : Opens(i) /\ Closes(i + 1)

\* Nothing that begins like a number is read as an identifier, not even its
\* sign alone (grammar.rs, the comment in `ident`).
NumbersAreNeverNames ==
  stage = "ident" => ~At(Skip(1, Sign), Digit)

\* An identifier ends before a character that it could not go on with, so no
\* word is cut in two; a sign before a dot is the exception.
WordsAreReadWhole ==
  stage = "ident" => \/ ~At(pos, IdChar)
                     \/ pos = 2 /\ At(1, Sign) /\ At(2, {"."})

\* A string ends at the first quote that is not escaped, that is with an even
\* number of backslashes before it.
StringsEndAtAnUnescapedQuote ==
  LET Slashes(q) == q - 1 - Max({p \in 1..(q - 1) : ~At(p, {"\\"})})
      Free == {q \in 2..Len(text) : At(q, {"quote"}) /\ Slashes(q) % 2 = 0}
  IN  stage = "string" => pos - 1 \in Free /\ \A q \in Free : pos - 1 <= q

\* Every parse ends, however many comments turn out not to be closed.
Terminates == <>Ended

=============================================================================
