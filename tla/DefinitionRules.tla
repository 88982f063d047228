-------------------------- MODULE DefinitionRules --------------------------
(***************************************************************************)
(* What the derive has to make of declarations, and where it is known not  *)
(* to: the properties of Definitions.                                      *)
(***************************************************************************)
EXTENDS Definitions

\* The rules, in terms of what is written and not of how the derive reads it.
\* Each is that of the line of derive_decode.md it names, or, where that is
\* silent, of the messages of definition.rs.

\* The attributes of a kind at level k: the field's own (k = 0), or those inside
\* the unwrap at position k.
Written(d, k, kind) ==
  {j \in DOMAIN d.attrs : d.attrs[j].in = k /\ d.attrs[j].kind = kind}
WrittenMode(d, k) ==
  IF Written(d, k, "mode") = {} THEN NoMode
  ELSE d.attrs[CHOOSE j \in Written(d, k, "mode") : TRUE].mode
WrittenModes(it) == [f \in DOMAIN it.fields |-> WrittenMode(it.fields[f], 0)]

\* A mode that leaves nothing of what it takes to the fields behind it: :48,
\* :118 and, for a flatten that lists children or properties, :598-602.
CatchesAll(mode) ==
  \/ mode.m \in {"arguments", "properties"}
  \/ mode.m = "children" /\ ~mode.name
  \/ mode.m = "flatten" /\ mode.of \cap {"children", "properties"} # {}

\* What of a node a field takes.
Listed(word) == IF word \in {"child", "children"} THEN "child" ELSE "property"
Feeds(mode) == CASE mode.m \in {"argument", "arguments"}  -> {"argument"}
                 [] mode.m \in {"property", "properties"} -> {"property"}
                 [] mode.m \in {"child", "children"}      -> {"child"}
                 [] mode.m = "flatten" -> {Listed(word) : word \in mode.of}
                 [] OTHER              -> {mode.m}

\* An unwrap counts if it is that of a child (:364), at every level above it.
Reached(d, modes) ==
  LET yes[k \in 0..Len(d.attrs)] ==
        \/ k = 0
        \/ /\ d.attrs[k].kind = "unwrap" /\ d.attrs[k].in < k
           /\ yes[d.attrs[k].in]
           /\ modes[d.attrs[k].in].m \in {"child", "children"}
  IN {k \in 0..Len(d.attrs) : yes[k]}
Counts(d) == Reached(d, [k \in 0..Len(d.attrs) |-> WrittenMode(d, k)])

LegalDecl(d, named) ==
  \* one attribute of a kind, and none that is no attribute of a field
  /\ \A j \in DOMAIN d.attrs :
       /\ d.attrs[j].kind \notin {"garbage", "skip"}
       /\ Written(d, d.attrs[j].in, d.attrs[j].kind) = {j}
  \* `str` and `bytes` are for properties and arguments (:206)
  /\ \A k \in Counts(d) :
       Written(d, k, "decode") # {} =>
         WrittenMode(d, k).m \in {"none", "argument", "arguments", "property", "properties"}
  \* children and properties go by the field's name, or by name=".." (:727)
  /\ LET mode == WrittenMode(d, 0)
     IN /\ mode.m = "child" => named
        /\ mode.m = "property" => named \/ mode.name

LegalOrder(it) ==
  LET modes == WrittenModes(it)
  IN \A f, g \in DOMAIN it.fields :
       f < g /\ CatchesAll(modes[f]) => Feeds(modes[f]) \cap Feeds(modes[g]) = {}

Skips(it) == \E g \in DOMAIN it.attrs : "skip" \in it.attrs[g]

\* A skipped variant can be in any form (:730), no other has named fields
\* (:722-730).
LegalItem(inp, it) ==
  /\ \A g \in DOMAIN it.attrs : it.attrs[g] \subseteq {"skip"}
  /\ \/ Skips(it)
     \/ /\ inp.kind = "enum" => it.shape # "named"
        /\ \A f \in DOMAIN it.fields : LegalDecl(it.fields[f], it.shape = "named")
        /\ LegalOrder(it)

Legal(inp) == ~inp.attrs /\ \A i \in DOMAIN inp.items : LegalItem(inp, inp.items[i])

\* What the derive does not support although no rule forbids it, all of it about
\* flatten: two of the four words that :599 lists, an Option ("not supported
\* yet"), and in tuples a flatten with no direction or with both, on which the
\* fields are counted wrongly.

Unfilled(mode) == mode.m = "flatten" /\ mode.of = {}
FilledTwice(mode) == mode.m = "flatten" /\ Cardinality(mode.of) = 2

CountedRight(it) ==
  LET modes == WrittenModes(it)
      filled == {f \in DOMAIN it.fields : ~Unfilled(modes[f])}
  IN \/ it.shape # "tuple"
     \/ /\ \A f \in filled : ~FilledTwice(modes[f])
        /\ filled = 1..Cardinality(filled)
     \/ \E f \in filled : filled = {f} /\ modes[f].m = "none"

SupportedDecl(d) ==
  /\ \A j \in DOMAIN d.attrs : d.attrs[j].mode.of \subseteq {"child", "property"}
  /\ WrittenMode(d, 0).m = "flatten" => d.ty # "Option"

SupportedItem(it) ==
  \/ Skips(it)
  \/ /\ \A f \in DOMAIN it.fields : SupportedDecl(it.fields[f])
     /\ CountedRight(it)

Supported(inp) == \A i \in DOMAIN inp.items : SupportedItem(inp.items[i])

----------------------------------------------------------------------------

Accepted == stage = "done" /\ errors = {}

\* The derive goes through exactly for the declarations that keep the rules and
\* have nothing it does not support: whether a problem is emitted, returned or a
\* panic, and however much is read behind it, it is found, and no order of
\* fields, attributes and variants that keeps the rules is refused.  Code:
\* parse_attr_list, FieldAttrs::update, add_field, Enum::new, emit_struct,
\* decode_enum_item.
AcceptsTheLegalItSupports ==
  stage \in {"done", "failed", "panic"} =>
    (Accepted <=> Legal(input) /\ Supported(input))

\* In a struct, and while it is built, no field that takes single arguments,
\* properties or children comes behind the catch-all field of its kind, which
\* would leave it nothing, and there is one such field at most.  A flattened
\* struct counts for both of its directions.  Code: the checks of var_args,
\* var_props and var_children in add_field.
OnlyBefore(obj) ==
  \A c \in CatchAll :
    /\ Len(obj[c]) <= 1
    /\ \A s \in Section : Closes(c, s) =>
         \A i \in DOMAIN obj[s], j \in DOMAIN obj[c] :
           s # c => obj[s][i].fld < obj[c][j].fld
BuiltOnlyBefore == \A i \in DOMAIN built : OnlyBefore(built[i].obj)
CatchAllComesLast == OnlyBefore(bld) /\ BuiltOnlyBefore

\* Each field read so far is in one section for each part of the node it takes
\* and in no other, in a catch-all one if it takes what is left, the sections are
\* in the order of the declarations, and the variants that are not skipped
\* follow one another as they were declared.  Match arms and the argument
\* iterator depend on that order.  Code: add_field, Enum::new.
ModesOf(it) == [f \in DOMAIN it.fields |-> ModeAt(it.fields[f], 0)]
Part(s) == CASE s = "arguments"  -> "argument"
             [] s = "properties" -> "property"
             [] s = "children"   -> "child"
             [] s = "extra"      -> "none"
             [] OTHER            -> s
InOrder(obj) ==
  \A s \in Section : \A i, j \in DOMAIN obj[s] : i < j => obj[s][i].fld < obj[s][j].fld
Holds(obj, it, n) ==
  /\ InOrder(obj)
  /\ \A f \in 1..n :
       LET mode     == ModesOf(it)[f]
           sections == {s \in Section : \E j \in DOMAIN obj[s] : obj[s][j].fld = f}
       IN /\ {Part(s) : s \in sections} = Feeds(mode)
          /\ Cardinality(sections) = Cardinality(Feeds(mode))
          /\ CatchesAll(mode) <=> sections \cap CatchAll # {}
NothingIsLost ==
  /\ stage = "fields" => Holds(bld, Items[item], fld - 1)
  /\ \A i, j \in DOMAIN built : i < j => built[i].item < built[j].item
  /\ stage = "item" => {built[i].item : i \in DOMAIN built} =
       {i \in 1..(item - 1) : "skip" \notin VariantAttrs(Items[i])}
  /\ \A i \in DOMAIN built :
       LET it == Items[built[i].item]
       IN (input.kind = "struct" \/ it.shape = "tuple")
             => Holds(built[i].obj, it, Len(it.fields))

\* The sections whose fields a decoder declares.
Declares(entry) == CASE entry = "node"     -> Section
                     [] entry = "children" -> {"child", "children", "extra"}
                     [] entry = "variant"  -> Section \ Special
                     [] entry = "unwrap"   -> Section \ (Special \cup {"extra"})
                     [] entry \in {"payload", "optional"} -> {"extra"}

\* All fields that the value of a decoder names are bound, each once, by what
\* stands before it.  This is about names: what types the fields have is left to
\* the compiler of the generated code.  The DecodePartial methods name no locals
\* but push to the field of a children(name=..) itself, which takes no push if
\* it is an Option, as it is wherever the methods are generated.
Binds(d) ==
  IF d.entry = "partial"
  THEN \A j \in DOMAIN d.obj["child"] : d.obj["child"][j].kind # "multi"
  ELSE \A f \in d.fields : \E p \in Places(d.obj, Declares(d.entry)) :
         \A q \in Places(d.obj, Section) : FldAt(d.obj, q) = f <=> q = p

\* Where a declaration the derive accepts has a decoder that names a field too
\* few or too many.
Optional(d) ==
  LET mode == WrittenMode(d, 0)
  IN \/ mode.m \in {"none", "flatten"}
     \/ d.ty = "Option" /\ mode.m \in {"property", "child"}
     \/ d.ty = "Option" /\ mode.m = "children" /\ mode.name
     \/ mode.m = "child" /\ d.ty = "bool" /\ Written(d, 0, "unwrap") = {}
Gap(inp, it) ==
  \/ \E f \in DOMAIN it.fields :
       LET mode == WrittenMode(it.fields[f], 0)
       IN \/ Unfilled(mode) \/ FilledTwice(mode)
          \/ inp.kind = "enum" /\ mode.m \in Special
          \/ \E k \in Counts(it.fields[f]) \ {0} :
               LET inner == WrittenMode(it.fields[f], k)
               IN inner.m \in Special \cup {"none"} \/ Unfilled(inner) \/ FilledTwice(inner)
  \/ /\ inp.kind = "struct"
     /\ \A f \in DOMAIN it.fields : Optional(it.fields[f])
     /\ \E f \in DOMAIN it.fields : WrittenModes(it)[f].m = "children"

\* All decoders generated for what the derive accepts bind the fields they name,
\* but for a known few declarations: a flatten with no direction or with both,
\* special fields in variants, special fields or none in an unwrap, and an
\* Option<Vec> of children in a struct of optional fields.  Code: all_fields
\* against decode_specials to assign_extra, insert_child, the conditions for the
\* extra traits.
FieldsAreBoundButForTheGaps ==
  Accepted => \A i \in DOMAIN Items :
    ~Skips(Items[i]) => ((\A d \in made : d.item = i => Binds(d)) <=> ~Gap(input, Items[i]))

----------------------------------------------------------------------------

\* node.rs asserts that "all tuple structure fields should be filled in".  For
\* flatten(child, property) the field is listed twice and the assertion fails.
TupleFieldsAreFilled ==
  stage = "panic" => \E i \in DOMAIN built : built[i].kind = "Named"

PayloadOf(d) == Items[d.item].fields[FldAt(d.obj, <<"extra", 1>>)]

\* "A single-field [new type] wrapper around such structure `Wrapper(Inner)`"
\* (:10): a payload is put into Some(..) only where the field is an Option.  All
\* newtypes have theirs put into it.
OnlyOptionsAreWrapped ==
  \A d \in made : d.entry = "optional" => PayloadOf(d).ty = "Option"
=============================================================================
