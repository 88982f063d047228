--------------------------- MODULE MCStructDecode ---------------------------
(***************************************************************************)
(* The cases on which TLC runs StructDecode: all schemas of at most two    *)
(* fields in one section against all nodes of at most three items (two     *)
(* properties), and a few schemas that use every section at once.          *)
(***************************************************************************)
EXTENDS StructDecode

V(ty, kind, fault) == [ty |-> ty, kind |-> kind, fault |-> fault]
Text     == V("none", "String", "none")
Garbled  == V("none", "String", "text")
Null     == V("none", "Null", "none")
Number   == V("none", "Int", "none")
Typed    == V("custom", "String", "none")
Encoded  == V("base64", "String", "length")

F(mode, ty, opt) == [mode |-> mode, ty |-> ty, opt |-> opt]
Str     == F("normal", "String", FALSE)
OptStr  == F("normal", "String", TRUE)
AnEnum  == F("normal", "enum", FALSE)
Parsed  == F("str", "FromStr", FALSE)
OptArr  == F("bytes", "array", TRUE)

SeqsUpTo(set, n) == UNION {[1..k -> set] : k \in 0..n}

Empty == [nodeName |-> FALSE, typeName |-> "absent",
          args |-> <<>>, varArgs |-> FALSE, argVal |-> Str,
          props |-> <<>>, varProps |-> FALSE, propVal |-> Str,
          children |-> <<>>, varChildren |-> FALSE]
Bare == [nameOk |-> TRUE, ty |-> "none",
         args |-> <<>>, props |-> <<>>, children |-> <<>>]

Group(entry, schemas, nodes) ==
  [entry |-> entry, schema |-> schemas, node |-> nodes]

----------------------------------------------------------------------------

Specials ==
  Group({"node"},
        {[Empty EXCEPT !.nodeName = nn, !.typeName = tn] :
           nn \in BOOLEAN, tn \in {"absent", "option", "required"}},
        {[Bare EXCEPT !.nameOk = ok, !.ty = ty] :
           ok \in BOOLEAN, ty \in {"none", "ok", "bad"}})

\* A node with a type name where nothing looks at it.
TypeNames ==
  Group({"variant", "unwrap"}, {Empty},
        {[Bare EXCEPT !.ty = ty] : ty \in {"none", "ok"}})

MCArg(val, dflt) == [val |-> val, dflt |-> dflt]
ArgDefs == {MCArg(Str, FALSE), MCArg(OptStr, FALSE), MCArg(AnEnum, FALSE),
            MCArg(OptArr, FALSE), MCArg(OptStr, TRUE), MCArg(Parsed, TRUE)}
Arguments ==
  Group({"variant"},
        {[Empty EXCEPT !.args = a, !.varArgs = va, !.argVal = v] :
           a \in SeqsUpTo(ArgDefs, 2), va \in BOOLEAN, v \in {Str, Parsed}},
        {[Bare EXCEPT !.args = a] :
           a \in SeqsUpTo({Text, Garbled, Null, Encoded}, 3)})

Named(n, val, dflt) == [mode |-> "Named", name |-> n, val |-> val,
                        dflt |-> dflt, part |-> <<>>]
FlatProp(part) == [mode |-> "Flatten", name |-> "a", val |-> Str,
                   dflt |-> FALSE, part |-> part]
PP(n, val) == [name |-> n, val |-> val]
PropDefs == {Named("a", Str, FALSE), Named("a", AnEnum, TRUE),
             Named("a", OptStr, TRUE), Named("b", OptStr, FALSE),
             Named("b", Parsed, FALSE),
             FlatProp(<<PP("a", OptStr)>>),
             FlatProp(<<PP("b", OptArr), PP("a", OptStr)>>)}
PropLists ==
  LET one(n) == {[name |-> n, keyOk |-> ok, val |-> v] :
                   ok \in BOOLEAN, v \in {Text, Garbled, Null, Number}}
  IN {<<>>} \cup {<<p>> : p \in one("a") \cup one("b")}
            \cup {<<p, q>> : p \in one("a"), q \in one("b")}
Properties ==
  Group({"variant"},
        {[Empty EXCEPT !.props = p, !.varProps = vp] :
           p \in SeqsUpTo(PropDefs, 2), vp \in BOOLEAN},
        {[Bare EXCEPT !.props = l] : l \in PropLists})

Kid(mode, n, opt, dflt) == [mode |-> mode, name |-> n, opt |-> opt,
                            dflt |-> dflt, part |-> <<>>]
FlatKid(part) == [mode |-> "Flatten", name |-> "a", opt |-> FALSE,
                  dflt |-> FALSE, part |-> part]
PK(n, mode) == [name |-> n, mode |-> mode]
ChildDefs == {Kid("Normal", "a", FALSE, FALSE), Kid("Normal", "b", TRUE, FALSE),
              Kid("Normal", "b", FALSE, TRUE),
              Kid("Bool", "a", FALSE, FALSE), Kid("Multi", "a", TRUE, FALSE),
              Kid("Multi", "b", FALSE, TRUE),
              FlatKid(<<PK("a", "Normal")>>),
              FlatKid(<<PK("b", "Bool"), PK("a", "Normal")>>)}
C(n, own, extras) == [name |-> n, own |-> own, extras |-> extras]
Kids == {C("a", "good", 0), C("a", "soft", 2), C("a", "hard", 1),
         C("b", "good", 0), C("b", "hard", 1)}
Children(entries, n) ==
  Group(entries,
        {[Empty EXCEPT !.children = c, !.varChildren = vc] :
           c \in SeqsUpTo(ChildDefs, 2), vc \in BOOLEAN},
        {[Bare EXCEPT !.children = l] : l \in SeqsUpTo(Kids, n)})

\* Everything at once: a named struct with a field of each section.
Whole ==
  Group({"node"},
        {[nodeName |-> TRUE, typeName |-> "option",
          args |-> <<MCArg(Str, FALSE)>>, varArgs |-> TRUE, argVal |-> Parsed,
          props |-> <<Named("a", Parsed, FALSE)>>, varProps |-> TRUE, propVal |-> Str,
          children |-> <<Kid("Normal", "a", FALSE, FALSE), Kid("Multi", "b", FALSE, FALSE)>>,
          varChildren |-> FALSE]},
        {[nameOk |-> ok, ty |-> "ok", args |-> a, props |-> p, children |-> k] :
           ok \in BOOLEAN, a \in SeqsUpTo({Text, Number}, 2),
           p \in {<<>>} \cup {<<[name |-> "a", keyOk |-> TRUE, val |-> v]>> : v \in {Text, Number}},
           k \in SeqsUpTo({C("a", "good", 0), C("a", "soft", 0), C("b", "hard", 0)}, 2)})

MCInputs == {Specials, TypeNames, Arguments, Properties, Whole,
             Children({"unwrap"}, 3), Children({"children"}, 1)}
=============================================================================
