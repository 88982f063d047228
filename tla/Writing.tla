------------------------------ MODULE Writing ------------------------------
(***************************************************************************)
(* Documents as trees, and how they are written: the tokens of a document  *)
(* in a style, and where its nodes are in them.                            *)
(***************************************************************************)
EXTENDS Integers, SequencesExt

\* An entry is an argument if its key is "none".  `block` says whether a node
\* has no braces, braces, or braces behind a slashdash.
ItemOf(key, ty, literal, skip) == [key |-> key, ty |-> ty, literal |-> literal, skip |-> skip]
NodeOf(ty, name, items, skip, block, kids) ==
  [ty |-> ty, name |-> name, items |-> items, skip |-> skip, block |-> block, kids |-> kids]

\* A style says what comes between entries (`gap`), behind a slashdash, a brace
\* and a node (`line`), before braces (`brace`), round an equals sign (`equals`)
\* and at the end of a node (`end`).
Dash(skip, style) == IF skip THEN <<"/-">> \o style.line ELSE <<>>
Annotation(ty, style) == IF ty THEN <<"ty">> \o style.equals ELSE <<>>
Where(there, tokens) == IF there THEN Len(tokens) + 1 ELSE 0

\* Written so far: the tokens, and where the entries are.
WriteItem(acc, item, style) ==
  LET gap   == acc.text \o style.gap
      start == gap \o Dash(item.skip, style)
      named == item.key # "none"
      key   == IF named THEN start \o <<item.key>> \o style.equals ELSE start
      keyed == IF named THEN key \o <<"=">> \o style.equals ELSE start
      typed == keyed \o Annotation(item.ty, style)
  IN  [text  |-> Append(typed, item.literal),
       items |-> Append(acc.items,
                   [dash |-> Where(item.skip, gap), key |-> Where(named, start),
                    equals |-> Where(named, key), ty |-> Where(item.ty, keyed),
                    at |-> Len(typed) + 1])]

\* Written so far: the tokens, and where the nodes are.
RECURSIVE WriteNodes(_, _, _)
WriteNodes(acc, list, style) ==
  IF list = <<>> THEN acc
  ELSE
    LET n     == Head(list)
        start == acc.text \o Dash(n.skip, style)
        typed == start \o Annotation(n.ty, style)
        items == FoldLeft(LAMBDA a, item : WriteItem(a, item, style),
                          [text |-> Append(typed, n.name), items |-> <<>>], n.items)
        block == items.text \o style.brace
        brace == block \o Dash(n.block = "hidden", style)
        own   == Append(acc.places,
                   [dash |-> Where(n.skip, acc.text), ty |-> Where(n.ty, start),
                    name |-> Len(typed) + 1, items |-> items.items,
                    hide |-> Where(n.block = "hidden", block),
                    brace |-> Where(n.block # "none", brace), close |-> 0])
        inner == WriteNodes([text |-> brace \o <<"{">> \o style.line, places |-> own],
                            n.kids, style)
        whole == IF n.block = "none" THEN [text |-> items.text, places |-> own]
                 ELSE [text   |-> Append(inner.text, "}"),
                       places |-> [inner.places EXCEPT ![Len(own)].close = Len(inner.text) + 1]]
    IN  WriteNodes([whole EXCEPT !.text = @ \o style.end \o style.line], Tail(list), style)

\* The document begins with a line of nothing.
Write(document, style) == WriteNodes([text |-> style.line, places |-> <<>>], document, style)
=============================================================================
