---------------------------- MODULE Declarations ----------------------------
(***************************************************************************)
(* What a derive reads: a struct or an enum with the #[knus(..)] attributes *)
(* of its fields.  The attributes of a field are one flat list: `group` is *)
(* the #[knus(..)] an attribute stands in, `in` the `unwrap` around it (its *)
(* position in the list), or 0.                                            *)
(***************************************************************************)
EXTENDS Naturals, Sequences, FiniteSetsExt

\* `name`: property(name=..), children(name=..).  `of`: what is listed in
\* flatten(..).
Mode == [m : {"none", "argument", "arguments", "property", "properties",
              "child", "children", "flatten", "span", "node_name", "type_name"},
         name : BOOLEAN,
         of : SUBSET {"child", "children", "property", "properties"}]
NoMode == [m |-> "none", name |-> FALSE, of |-> {}]

Attr == [kind : {"mode", "decode", "unwrap", "default", "skip", "garbage"},
         mode : Mode, group : Nat, in : Nat]

Decl == [attrs : Seq(Attr), ty : {"Option", "bool", "other"}]

\* A struct is one item, an enum has one for each variant.  The attributes of
\* a variant are one set for each #[knus(..)].
Item == [shape : {"named", "tuple", "unit"},
         attrs : Seq(SUBSET {"skip", "field", "garbage"}),
         fields : Seq(Decl)]

\* `attrs`: there is a #[knus(..)] on the whole.
Input == [kind : {"struct", "enum"}, attrs : BOOLEAN, items : Seq(Item)]

WellFormedDecl(d) ==
  \A j \in DOMAIN d.attrs :
    LET up == d.attrs[j].in
    IN up # 0 => /\ up < j
                 /\ d.attrs[up].kind = "unwrap"
                 /\ d.attrs[up].group = d.attrs[j].group

WellFormedInput(inp) ==
  /\ inp.kind = "struct" => Len(inp.items) = 1 /\ inp.items[1].attrs = <<>>
  /\ \A i \in DOMAIN inp.items :
       /\ inp.items[i].shape = "unit" => inp.items[i].fields = <<>>
       /\ \A f \in DOMAIN inp.items[i].fields : WellFormedDecl(inp.items[i].fields[f])

----------------------------------------------------------------------------

\* FlattenItem knows two words.
Parses(a) == a.kind # "garbage" /\ a.mode.of \subseteq {"child", "property"}

\* parse_attr_list: one attribute that cannot be parsed takes its whole
\* #[knus(..)] with it.
Readable(d, j) ==
  \A h \in DOMAIN d.attrs : d.attrs[h].group = d.attrs[j].group => Parses(d.attrs[h])

\* FieldAttrs of level k: those of the field itself (k = 0), or of the unwrap
\* at position k.  The last of a kind is kept.
OfKind(d, k, kind) ==
  {j \in DOMAIN d.attrs : /\ Readable(d, j)
                          /\ d.attrs[j].in = k
                          /\ d.attrs[j].kind = kind}
Latest(d, k, kind) ==
  IF OfKind(d, k, kind) = {} THEN 0 ELSE Max(OfKind(d, k, kind))
ModeAt(d, k) ==
  IF OfKind(d, k, "mode") = {} THEN NoMode ELSE d.attrs[Latest(d, k, "mode")].mode

\* What parse_attr_list and FieldAttrs::update report of one field.
ReadErrors(d) ==
  {why \in {"unreadable", "repeated", "unsupported"} :
     \E j \in DOMAIN d.attrs :
       CASE why = "unreadable"  -> ~Readable(d, j)
         [] why = "unsupported" -> j \in OfKind(d, d.attrs[j].in, "skip")
         [] why = "repeated"    ->
              /\ d.attrs[j].kind # "skip"
              /\ \E h \in OfKind(d, d.attrs[j].in, d.attrs[j].kind) :
                   h < j /\ Readable(d, j)}

\* The groups of a variant's attributes that can be parsed.
VariantAttrs(it) ==
  UNION {it.attrs[g] : g \in {h \in DOMAIN it.attrs : "garbage" \notin it.attrs[h]}}

VariantErrors(it) ==
  {why \in {"unreadable", "unsupported"} :
     CASE why = "unreadable"  -> \E g \in DOMAIN it.attrs : "garbage" \in it.attrs[g]
       [] why = "unsupported" -> "field" \in VariantAttrs(it)}
=============================================================================
