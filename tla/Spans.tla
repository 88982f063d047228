------------------------------- MODULE Spans -------------------------------
(***************************************************************************)
(* From text to byte spans and back to lines (span.rs).  The characters of *)
(* the text are streamed to the parser, each with the span the             *)
(* OffsetTracker gives it; the parser makes a span out of consecutive ones *)
(* (or takes the empty span at the end of input); Span::to_line_column     *)
(* turns it into lines and columns, running line_column_of_end twice: over *)
(* the text before the span and over the text inside it.                   *)
(***************************************************************************)
EXTENDS Naturals, SequencesExt

\* The texts to consider.  A character is a letter, or the line break of the
\* name; what matters of a letter is how many bytes and columns it takes.
CONSTANT Texts

Break == {"LF", "CR", "VT", "FF", "NEL", "LS"}
Char  == {"a", "two-byte", "wide"} \cup Break
ASSUME TextsAssumption == Texts \subseteq Seq(Char)

\* char::len_utf8
Utf8Len == [c \in Char |-> CASE c \in {"two-byte", "NEL"} -> 2
                             [] c \in {"wide", "LS"}      -> 3
                             [] OTHER                     -> 1]

\* unicode_width 0.2 counts a control character as one column.
Width == [c \in Char |-> IF c = "wide" THEN 2 ELSE 1]

\* What the first characters of a text, as many as the argument says, add up to.
Sums(chars, weight) ==
  LET f[k \in 0..Len(chars)] == IF k = 0 THEN 0 ELSE f[k - 1] + weight[chars[k]]
  IN  f

VARIABLES text,
          stage,    \* "stream", "span", "prefix", "inside", "done"
          offset,   \* of the OffsetTracker
          spans,    \* of the characters streamed so far
          span,     \* the span to convert
          it, caret, line, last,    \* line_column_of_end: the iterator,
                    \* caret_return, the line, where last_line starts
          start, end                \* the results
tracker == <<offset, spans>>
scan    == <<it, caret, line, last>>
vars    == <<text, stage, tracker, span, scan, start, end>>

Unset == [line |-> 0, column |-> 0]

Init == /\ text \in Texts
        /\ stage = "stream"
        /\ offset = 0 /\ spans = <<>> /\ span = <<0, 0>>
        /\ it = 1 /\ caret = FALSE /\ line = 0 /\ last = 1
        /\ start = Unset /\ end = Unset

----------------------------------------------------------------------------

\* Slip: a character counts as one byte.
NextSpan_CountsChars ==
  /\ stage = "stream" /\ Len(spans) < Len(text)
  /\ offset' = offset + 1
  /\ spans' = Append(spans, <<offset, offset'>>)
  /\ UNCHANGED <<text, stage, span, scan, start, end>>

\* Iterator::next of Map, with OffsetTracker::next_span.
NextSpan ==
  /\ stage = "stream" /\ Len(spans) < Len(text)
  /\ offset' = offset + Utf8Len[text[Len(spans) + 1]]
  /\ spans' = Append(spans, <<offset, offset'>>)
  /\ UNCHANGED <<text, stage, span, scan, start, end>>

\* text.len()
TextLen == Sums(text, Utf8Len)[Len(text)]

\* Span::stream puts the end of input behind the text.
EndOfInput ==
  /\ stage = "stream" /\ Len(spans) = Len(text)
  /\ stage' = "span"
  /\ UNCHANGED <<text, tracker, span, scan, start, end>>

\* The parser spans characters i to j, or nothing at the end of input.
MakeSpan ==
  /\ stage = "span"
  /\ \/ \E i \in DOMAIN spans : \E j \in i..Len(spans) :
          span' = <<spans[i][1], spans[j][2]>>
     \/ span' = <<TextLen, TextLen>>
  /\ stage' = "prefix"
  /\ UNCHANGED <<text, tracker, scan, start, end>>

----------------------------------------------------------------------------

\* The characters of &text[from..to].
CharsBefore(off) == Cardinality({k \in DOMAIN spans : spans[k][2] <= off})
Slice(from, to) == SubSeq(text, CharsBefore(from) + 1, CharsBefore(to))

Scanned == IF stage = "prefix" THEN Slice(0, span[1]) ELSE Slice(span[1], span[2])

\* Slip: the line feed of a carriage return and line feed is another line.
ScanChar_CountsBoth ==
  /\ stage \in {"prefix", "inside"} /\ it \in DOMAIN Scanned
  /\ LET c == Scanned[it]
     IN /\ IF c \in {"CR", "LF", "FF", "NEL", "LS"}
           THEN line' = line + 1 /\ last' = it + 1
           ELSE UNCHANGED <<line, last>>
        /\ caret' = (c = "CR")
  /\ it' = it + 1
  /\ UNCHANGED <<text, stage, tracker, span, start, end>>

\* Slip: caret_return is never reset.
ScanChar_CaretStays ==
  /\ stage \in {"prefix", "inside"} /\ it \in DOMAIN Scanned
  /\ LET c == Scanned[it]
     IN /\ IF c \in {"CR", "LF", "FF", "NEL", "LS"} /\ ~(c = "LF" /\ caret)
           THEN line' = line + 1 /\ last' = it + 1
           ELSE UNCHANGED <<line, last>>
        /\ caret' = (caret \/ c = "CR")
  /\ it' = it + 1
  /\ UNCHANGED <<text, stage, tracker, span, start, end>>

\* One turn of the loop of line_column_of_end.
ScanChar ==
  /\ stage \in {"prefix", "inside"} /\ it \in DOMAIN Scanned
  /\ LET c == Scanned[it]
     IN /\ IF c \in {"CR", "LF", "FF", "NEL", "LS"} /\ ~(c = "LF" /\ caret)
           THEN line' = line + 1 /\ last' = it + 1
           ELSE UNCHANGED <<line, last>>
        /\ caret' = (c = "CR")
  /\ it' = it + 1
  /\ UNCHANGED <<text, stage, tracker, span, start, end>>

Columns(chars) == Sums(chars, Width)[Len(chars)]

\* What line_column_of_end returns.
Scan == [line |-> line, column |-> Columns(SubSeq(Scanned, last, Len(Scanned)))]

\* Slip: last_line is still that of the text before the span.
StartScanned_KeepsLastLine ==
  /\ stage = "prefix" /\ it \notin DOMAIN Scanned
  /\ start' = Scan
  /\ stage' = "inside"
  /\ it' = 1 /\ caret' = FALSE /\ line' = 0
  /\ UNCHANGED <<text, tracker, span, end, last>>

StartScanned ==
  /\ stage = "prefix" /\ it \notin DOMAIN Scanned
  /\ start' = Scan
  /\ stage' = "inside"
  /\ it' = 1 /\ caret' = FALSE /\ line' = 0 /\ last' = 1
  /\ UNCHANGED <<text, tracker, span, end>>

\* Slip: the column is always counted from the start of the span.
EndScanned_NoCarry ==
  /\ stage = "inside" /\ it \notin DOMAIN Scanned
  /\ end' = [line |-> start.line + Scan.line, column |-> Scan.column]
  /\ stage' = "done"
  /\ UNCHANGED <<text, tracker, span, scan, start>>

\* A span within one line goes on in the column it starts in.
EndScanned ==
  /\ stage = "inside" /\ it \notin DOMAIN Scanned
  /\ end' = [line   |-> start.line + Scan.line,
             column |-> IF Scan.line = 0 THEN start.column + Scan.column
                                         ELSE Scan.column]
  /\ stage' = "done"
  /\ UNCHANGED <<text, tracker, span, scan, start>>

Next == \/ NextSpan \/ EndOfInput \/ MakeSpan
        \/ ScanChar \/ StartScanned \/ EndScanned
Spec == Init /\ [][Next]_vars
----------------------------------------------------------------------------

(***************************************************************************)
(* The reference: lines as the grammar splits them (grammar.rs, newline).  *)
(***************************************************************************)
\* Character k ends a line; the carriage return of a CR LF does not.
EndsLine(k, breaks) ==
  text[k] \in breaks /\ ~(text[k] = "CR" /\ k < Len(text) /\ text[k + 1] = "LF")

\* The position behind the first k characters.
Position(k, breaks) ==
  LET ends   == {h \in 1..k : EndsLine(h, breaks)}
      first  == 1 + IF ends = {} THEN 0 ELSE Max(ends)
  IN [line |-> Cardinality(ends), column |-> Columns(SubSeq(text, first, k))]

\* The offset is between the two characters of a CR LF.
Splits(off) == LET k == CharsBefore(off)
               IN k \in 1..(Len(text) - 1) /\ text[k] = "CR" /\ text[k + 1] = "LF"
Has(c) == c \in Range(text)
HasCrLf == \E k \in 1..(Len(text) - 1) : text[k] = "CR" /\ text[k + 1] = "LF"
Ended == stage = "done"
----------------------------------------------------------------------------

(***************************************************************************)
(* Properties.                                                             *)
(***************************************************************************)
\* The variables have their types.
TypeOK ==
  /\ text \in Seq(Char)
  /\ stage \in {"stream", "span", "prefix", "inside", "done"}
  /\ offset \in Nat /\ Len(spans) <= Len(text)
  /\ span[1] <= span[2]
  /\ it \in 1..(Len(text) + 1) /\ last \in 1..it /\ line < it
  /\ caret \in BOOLEAN
  /\ {start, end} \subseteq [line : Nat, column : Nat]

\* The spans tile the text: each begins where the one before ends, the first
\* at 0, the last at text.len(), so a slice of the text by spans never cuts a
\* character (which would panic).
SpansTileTheText ==
  /\ offset = IF spans = <<>> THEN 0 ELSE Last(spans)[2]
  /\ \A k \in DOMAIN spans :
       spans[k] = <<IF k = 1 THEN 0 ELSE spans[k - 1][2], spans[k][1] + Utf8Len[text[k]]>>
  /\ stage # "stream" => offset = TextLen

\* Both ends of a span are on the line the grammar puts them on, if the text
\* has no vertical tab and the span does not cut a CR LF in two.
LinesAreTheGrammars ==
  Ended /\ ~Has("VT") /\ ~Splits(span[1]) /\ ~Splits(span[2]) =>
    /\ start.line = Position(CharsBefore(span[1]), Break).line
    /\ end.line = Position(CharsBefore(span[2]), Break).line

\* Line and column of both ends are counted from the start of the text and of
\* the line, although the end is computed from the characters inside the span
\* alone (lines as line_column_of_end splits them, and no CR LF).
BothEndsAreCounted ==
  Ended /\ ~HasCrLf =>
    /\ start = Position(CharsBefore(span[1]), Break \ {"VT"})
    /\ end   = Position(CharsBefore(span[2]), Break \ {"VT"})

\* An end is never before its start.
EndIsNotBeforeStart ==
  Ended => \/ start.line < end.line
           \/ start.line = end.line /\ start.column <= end.column

----------------------------------------------------------------------------

(***************************************************************************)
(* What the documentation says and the code does not do: span.rs:85, the   *)
(* byte offsets are converted to zero-based line/column pairs.             *)
(***************************************************************************)
\* A span at the start of a line starts in column 0.
LineStartsInColumnZero ==
  Ended /\ ~Has("VT") =>
    LET k == CharsBefore(span[1])
    IN k > 0 /\ EndsLine(k, Break) => start.column = 0
=============================================================================
