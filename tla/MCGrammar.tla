----------------------------- MODULE MCGrammar -----------------------------
(***************************************************************************)
(* All texts of four tokens, longer ones of the few tokens that matter to  *)
(* nesting, to slashdashes and to properties, and documents: one node with *)
(* two or three entries, and nodes nested three deep, each with and        *)
(* without a slashdash, in five styles.                                    *)
(***************************************************************************)
EXTENDS GrammarRules, Writing

TokensOver(tokens, n) == UNION {[1..k -> tokens] : k \in 0..n}

MCTexts == {TokensOver(Token, 4),
            TokensOver({"a", "sp", "{", "}", "/-"}, 7),
            TokensOver({"a", "v", "ty", "sp", "="}, 6),
            TokensOver({"a", "sp", "{", "/-", "nl", "ml"}, 5)}

Entries == {ItemOf("none", FALSE, "v", s) : s \in BOOLEAN}
           \cup {ItemOf("none", TRUE, "a", FALSE)}
           \cup {ItemOf("a", t, "v", s) : s, t \in BOOLEAN}
           \cup {ItemOf("b", FALSE, "a", FALSE)}
Leaves(items) == {NodeOf(t, "a", i, s, "none", <<>>) : t, s \in BOOLEAN, i \in items}

Plain == {NodeOf(FALSE, n, <<>>, FALSE, "none", <<>>) : n \in Word}
Parents(kids) ==
  {NodeOf(FALSE, "b", i, s, b, k) :
     i \in {<<>>, <<ItemOf("none", FALSE, "a", FALSE)>>}, s \in BOOLEAN,
     b \in {"shown", "hidden"}, k \in kids}
Lists(of) == TokensOver(of, 2)

Flat == Plain \cup Parents({<<>>})
Deep == Parents(Lists(Flat))
Style(gap, line, brace, equals, end) ==
  [gap |-> gap, line |-> line, brace |-> brace, equals |-> equals, end |-> end]
Styles == {Style(<<"sp">>, <<>>, <<>>, <<>>, <<"nl">>),
           Style(<<"sp">>, <<>>, <<"sp">>, <<"sp">>, <<>>),
           Style(<<"ml", "sp">>, <<"sp", "nl">>, <<>>, <<>>, <<";">>),
           Style(<<"esc">>, <<"lc">>, <<"ml", "esc">>, <<"sp">>, <<"lc">>),
           Style(<<"sp", "esc", "ml">>, <<"nl", "ml">>, <<"sp">>, <<>>, <<"sp", "nl">>)}

Trees == {Lists(Flat), {<<n>> : n \in Leaves(TokensOver(Entries, 2))},
          {<<n>> : n \in Leaves([1..3 -> {i \in Entries : i.key = "a"}])},
          {<<n, m>> : n \in Deep, m \in Plain},
          {<<n>> : n \in Parents({<<d>> : d \in Deep})}}
MCDocuments == {{Write(d, style) : d \in group, style \in Styles} : group \in Trees}
=============================================================================
