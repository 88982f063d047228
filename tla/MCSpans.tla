------------------------------ MODULE MCSpans ------------------------------
(***************************************************************************)
(* All texts of up to four characters, which is enough for a letter before *)
(* and after every pair of line breaks, and every span of each.            *)
(***************************************************************************)
EXTENDS Spans

TextsOver(chars, n) == UNION {[1..k -> chars] : k \in 0..n}

MCTexts == TextsOver({"a", "wide", "LF", "CR", "VT"}, 4)
             \cup TextsOver({"two-byte", "NEL", "LS", "FF", "CR"}, 3)
=============================================================================
