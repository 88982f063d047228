------------------------------ MODULE MCLexer ------------------------------
(***************************************************************************)
(* Comments of up to eight characters, which is room for three that begin  *)
(* one within the other with an end each or none, and literals of up to    *)
(* four; longer ones where only a few characters matter to a rule, numbers *)
(* with every part and strings with quotes, escapes and fences.            *)
(***************************************************************************)
EXTENDS Lexer

TextsOver(chars, n) == UNION {[1..k -> chars] : k \in 0..n}

MCTexts == {TextsOver({"/", "*", "n"}, 8),
            TextsOver(Char \ {"\\", "SP", "quote", "#"}, 3),
            TextsOver({"quote", "\\", "n", "SP"}, 6),
            TextsOver({"#", "quote", "n", "inf", "-"}, 5),
            TextsOver({"0", "x", "e", ".", "_", "-"}, 5)}
=============================================================================
