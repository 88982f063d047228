--------------------------- MODULE MCDefinitions ---------------------------
(***************************************************************************)
(* The declarations on which TLC runs Definitions: structs and tuple        *)
(* variants of up to three fields with a mode each, fields with up to two  *)
(* attributes or an unwrap with up to two inside, and enums of up to two   *)
(* variants.                                                               *)
(***************************************************************************)
EXTENDS DefinitionRules

SeqsUpTo(set, n) == UNION {[1..k -> set] : k \in 0..n}

M(m) == [m |-> m, name |-> FALSE, of |-> {}]
WithName(m) == [m |-> m, name |-> TRUE, of |-> {}]
Flatten(of) == [m |-> "flatten", name |-> FALSE, of |-> of]

A(kind, mode, group, up) == [kind |-> kind, mode |-> mode, group |-> group, in |-> up]
D(attrs, ty) == [attrs |-> attrs, ty |-> ty]
OfMode(mode, ty) == D(<<A("mode", mode, 1, 0)>>, ty)

It(shape, attrs, fields) == [shape |-> shape, attrs |-> attrs, fields |-> fields]
Group(kind, attrs, items) == [kind : {kind}, attrs : attrs, items : items]

----------------------------------------------------------------------------

\* Which fields may follow one another.
Simple == {OfMode(M(m), "other") : m \in {"argument", "arguments", "property",
                                          "properties", "child", "children"}}
            \cup {OfMode(WithName("children"), "Option"), OfMode(M("child"), "bool"),
                  OfMode(WithName("property"), "Option"),
                  OfMode(Flatten({}), "other"), OfMode(Flatten({"child"}), "other"),
                  OfMode(Flatten({"property"}), "other"),
                  OfMode(Flatten({"child", "property"}), "other"),
                  OfMode(M("type_name"), "Option"), D(<<>>, "other")}
Few == {d \in Simple : ModeAt(d, 0) \in
          {M("argument"), M("arguments"), WithName("property"), M("properties"),
           WithName("children"), M("children"), NoMode,
           Flatten({}), Flatten({"child", "property"})}}
Orders(kind, shapes, lists) ==
  Group(kind, {FALSE}, {<<It(s, <<>>, f)>> : s \in shapes, f \in lists})

\* Which attributes a field may have.
SomeModes == {M("argument"), M("child"), M("children"), M("span"),
              Flatten({"child"}), Flatten({"child", "children"})}
Kinds == {<<"mode", m>> : m \in SomeModes}
           \cup {<<k, NoMode>> : k \in {"decode", "unwrap", "default", "skip", "garbage"}}
Plain == {A(k[1], k[2], g, 0) : k \in Kinds, g \in {1, 2}}
OwnAttrs == SeqsUpTo(Plain, 2)
\* #[knus(child, unwrap(..))] with up to two attributes inside, the second
\* perhaps inside an unwrap of its own.
Unwrapping ==
  {<<A("mode", M("child"), 1, 0), A("unwrap", NoMode, 1, 0)>> \o
     [j \in DOMAIN in |-> A(in[j][1], in[j][2], 1,
                            IF j = 2 /\ deep /\ in[1][1] = "unwrap" THEN 3 ELSE 2)] :
   in \in SeqsUpTo(Kinds, 2), deep \in BOOLEAN}
  \cup {<<A("mode", M("child"), 1, 0), A("unwrap", NoMode, 1, 0),
          A("mode", M(m), 1, 2), A("unwrap", NoMode, 1, 2), A("mode", n, 1, 4)>> :
        m \in {"child", "children", "argument"}, n \in SomeModes}
Attributes ==
  Group("struct", BOOLEAN,
        {<<It("named", <<>>, <<D(a, ty)>>)>> :
           a \in OwnAttrs \cup Unwrapping, ty \in {"Option", "bool", "other"}})

\* Which variants an enum may have.
Payloads == {<<>>, <<D(<<>>, "Option")>>, <<D(<<>>, "other"), D(<<>>, "other")>>,
             <<OfMode(M("argument"), "other")>>, <<OfMode(M("child"), "other")>>,
             <<OfMode(M("span"), "other"), OfMode(M("arguments"), "other")>>}
Variants == {It("unit", a, <<>>) : a \in {<<>>, <<{"field"}>>}}
              \cup {It("tuple", a, p) : a \in {<<>>, <<{"skip"}>>, <<{"skip", "garbage"}>>,
                                              <<{"field"}, {"skip"}>>}, p \in Payloads}
              \cup {It("named", a, <<D(<<>>, "other")>>) : a \in {<<>>, <<{"skip"}>>}}
Enums == Group("enum", BOOLEAN, SeqsUpTo(Variants, 2))

MCInputs == {Orders("struct", {"named", "tuple"}, SeqsUpTo(Simple, 2)),
             Orders("struct", {"named", "tuple"}, [1..3 -> Few]),
             Orders("enum", {"tuple"}, SeqsUpTo(Simple, 2)),
             Attributes, Enums}
=============================================================================
