------------------------------ MODULE MCParse ------------------------------
(***************************************************************************)
(* Small documents: at most three nodes, into a list of structs or enum    *)
(* variants, a struct or a single node.  The schemas are few, StructDecode *)
(* having been checked with many; what matters here is what one node's     *)
(* errors and results do to the next.                                      *)
(***************************************************************************)
EXTENDS Parse

Text    == [ty |-> "none", kind |-> "String", fault |-> "none"]
Garbled == [ty |-> "none", kind |-> "String", fault |-> "text"]
Number  == [ty |-> "none", kind |-> "Int", fault |-> "none"]

Str    == [mode |-> "normal", ty |-> "String", opt |-> FALSE]
Parsed == [mode |-> "str", ty |-> "FromStr", opt |-> FALSE]

Empty == NoCase.schema
OneArg(val) == [Empty EXCEPT !.args = <<[val |-> val, dflt |-> FALSE]>>]
Mixed == [OneArg(Parsed) EXCEPT
            !.children = <<[mode |-> "Normal", name |-> "a", opt |-> FALSE,
                            dflt |-> FALSE, part |-> <<>>],
                           [mode |-> "Bool", name |-> "b", opt |-> FALSE,
                            dflt |-> FALSE, part |-> <<>>]>>]
Flagged == [Empty EXCEPT !.children = Tail(Mixed.children)]
Kids == [Mixed EXCEPT !.args = <<>>]

K(n, own, extras) == [name |-> n, own |-> own, extras |-> extras]
Bare == NoCase.node
N1(name, braces, args, children) ==
  [name |-> name, braces |-> braces,
   node |-> [Bare EXCEPT !.args = args, !.children = children]]

ArgLists == {<<>>, <<Text>>, <<Garbled>>, <<Number>>, <<Text, Text>>}
Small == {N1("a", FALSE, a, <<>>) : a \in ArgLists} \cup {N1("a", TRUE, <<>>, <<>>)}
Large  == {N1("b", TRUE, a, c) : a \in {<<Text>>, <<Garbled>>, <<Text, Text>>},
            c \in {<<K("a", "good", 0), K("b", "good", 2)>>,
                   <<K("a", "soft", 0)>>, <<K("a", "hard", 0)>>, <<>>}}

SeqsUpTo(set, n) == UNION {[1..k -> set] : k \in 0..n}

StructOf(schema)  == [kind |-> "Struct", schema |-> schema, variants |-> <<>>]
NewTypeOf(schema) == [kind |-> "NewType", schema |-> schema, variants |-> <<>>]
EnumOf(variants)  == [kind |-> "Enum", schema |-> Empty, variants |-> variants]
V(n, kind, schema) == [name |-> n, kind |-> kind, schema |-> schema]

List(form, nodes) == [readable |-> TRUE, root |-> "list", form |-> form, nodes |-> nodes]

MCDocs ==
  {List(StructOf(OneArg(Str)), l) : l \in SeqsUpTo(Small, 3)}
  \cup {List(StructOf(Mixed), l) : l \in SeqsUpTo(Large, 2)}
  \cup {List(StructOf(Flagged), l) :
          l \in SeqsUpTo({N1("a", TRUE, <<>>, c) :
                          c \in {<<>>, <<K("b", "good", 0)>>}}, 3)}
  \cup {List(NewTypeOf(OneArg(Parsed)), l) : l \in SeqsUpTo(Small, 2)}
  \cup {List(EnumOf(v), <<m, n>>) :
          v \in {<<V("a", "Unit", Empty), V("b", "Nested", Mixed)>>,
                 <<V("a", "NestedOption", OneArg(Str))>>,
                 <<V("a", "Tuple", OneArg(Parsed)), V("b", "NestedOption", Mixed)>>},
          m \in Small, n \in Small \cup Large}
  \cup {[readable |-> r, root |-> "struct", form |-> StructOf(Kids),
         nodes |-> <<N1("a", TRUE, <<>>, c)>>] :
          r \in BOOLEAN,
          c \in SeqsUpTo({K("a", "good", 0), K("a", "soft", 0),
                          K("a", "hard", 0), K("b", "good", 0)}, 3)}
  \cup {[readable |-> TRUE, root |-> "single", form |-> StructOf(Mixed), nodes |-> <<n>>] :
          n \in Large}
=============================================================================
