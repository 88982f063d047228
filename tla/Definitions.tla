---------------------------- MODULE Definitions ----------------------------
(***************************************************************************)
(* The compile-time half of derive(Decode): the declarations of a struct   *)
(* or an enum become Structs, newtypes and variants (definition.rs), and   *)
(* each Struct the decoders generated for it (node.rs, variants.rs).  An   *)
(* attribute that is wrong is either emitted, and reading goes on, or an   *)
(* Err, which ends the derive.                                             *)
(***************************************************************************)
EXTENDS Declarations

CONSTANT Inputs           \* sets of Input: one is picked, then a member of it

ASSUME InputsAssumption ==
  \A group \in Inputs : \A inp \in group : inp \in Input /\ WellFormedInput(inp)

VARIABLES
  input,      \* the declarations
  stage,
  item, fld,  \* the struct or variant and the field to be read next
  bld,        \* StructBuilder of the item being read
  built,      \* what the items read so far have become
  errors,     \* what emit_error has been called with, and the Err at the end
              \* (as a set: the extra traits generate some code once more)
  kids,       \* child fields of the item whose arms are still to be generated
  made        \* decoders generated so far

vars == <<input, stage, item, fld, bld, built, errors, kids, made>>

\* The vectors of a Struct in the order of all_fields; var_args, var_props and
\* var_children are vectors with at most one field.
Section == {"span", "node_name", "type_name", "argument", "arguments",
            "property", "properties", "child", "children", "extra"}
CatchAll == {"arguments", "properties", "children"}

\* A field in a section.  `wrap`: its unwrap attribute, or 0.
Entry == [fld : Nat, kind : {"one", "flatten", "multi", "bool"},
          option : BOOLEAN, dflt : BOOLEAN, wrap : Nat]

Object == [Section -> Seq(Entry)]
\* Slip: StructBuilder::new forgets a vector.
NoFields_ButExtra == [s \in Section \ {"extra"} |-> <<>>]

NoFields == [s \in Section |-> <<>>]

ItemKind == {"Struct", "NewType", "Unit", "Nested", "Tuple", "Named"}
BuiltItem == [item : Nat, kind : ItemKind, obj : Object]

\* A decoder: decode_node, decode_children, the arm of a variant, the closure
\* of an unwrap, the DecodePartial methods, or the forwarding to the payload of
\* a newtype or a nested variant: as it is, or in Some(..), with None for a
\* blank node ("optional").
Made == [entry : {"node", "children", "variant", "unwrap", "partial",
                  "payload", "optional"},
         item : Nat, obj : Object, fields : SUBSET Nat]

Error == [why : {"container", "unreadable", "repeated", "unsupported",
                 "decode", "refused"},
          item : Nat, fld : Nat]
ErrorsAt(whys, i, f) == [why : whys, item : {i}, fld : {f}]

TypeOK ==
  /\ input \in Input /\ WellFormedInput(input)
  /\ stage \in {"container", "item", "fields", "emit", "children",
                "done", "failed", "panic"}
  /\ item \in Nat /\ fld \in Nat
  /\ bld \in Object
  /\ built \in Seq(BuiltItem)
  /\ errors \subseteq Error
  /\ kids \in Seq(Entry)
  /\ made \subseteq Made

----------------------------------------------------------------------------
\* StructBuilder::add_field

\* Slip: the two directions of a flatten exclude each other.
Goes_OneWay(mode) == CASE mode.m = "flatten" /\ "property" \in mode.of -> {"property"}
                       [] mode.m = "flatten" /\ "property" \notin mode.of -> mode.of \cap {"child"}
                       [] mode.m = "children" /\ mode.name -> {"child"}
                       [] mode.m = "none"                  -> {"extra"}
                       [] OTHER                            -> {mode.m}

\* The sections a field is pushed to.
Goes(mode) == CASE mode.m = "flatten"                -> mode.of \cap {"property", "child"}
                [] mode.m = "children" /\ mode.name -> {"child"}
                [] mode.m = "none"                  -> {"extra"}
                [] OTHER                            -> {mode.m}

\* A catch-all field closes its section.
Closes(c, s) == <<c, s>> \in {<<"arguments", "argument">>, <<"arguments", "arguments">>,
                              <<"properties", "property">>, <<"properties", "properties">>,
                              <<"children", "child">>, <<"children", "children">>}

\* Slip: flatten(child) is not refused after the catch-all children.
Closed_ButFlatten(b, mode) ==
  \E s \in Goes(mode), c \in CatchAll :
    Closes(c, s) /\ b[c] # <<>> /\ ~(mode.m = "flatten" /\ s = "child")

Closed(b, mode) == \E s \in Goes(mode), c \in CatchAll : Closes(c, s) /\ b[c] # <<>>

Nameless(mode, named) ==
  ~named /\ (mode.m = "child" \/ (mode.m = "property" /\ ~mode.name))

Refuses(b, mode, named, option) ==
  \/ Closed(b, mode)
  \/ Nameless(mode, named)
  \/ mode.m = "flatten" /\ option

\* Slip: no_decode is not called for catch-all children.
Undecoded_NotAll(mode) ==
  \/ mode.m \in {"child", "flatten", "span", "node_name", "type_name"}
  \/ mode.m = "children" /\ mode.name

\* no_decode
Undecoded(mode) ==
  mode.m \in {"child", "children", "flatten", "span", "node_name", "type_name"}
DecodeErrors(d, k, option) ==
  {why \in {"decode"} : /\ OfKind(d, k, "decode") # {}
                        /\ Undecoded(ModeAt(d, k))
                        /\ ~(ModeAt(d, k).m = "flatten" /\ option)}

KeepsDefault(mode) == \/ mode.m \in {"argument", "property", "child"}
                      \/ mode.m = "children" /\ mode.name

KindIn(mode, bool, wrap) ==
  IF mode.m = "flatten" THEN "flatten"
  ELSE IF mode.m = "children" /\ mode.name THEN "multi"
  ELSE IF mode.m = "child" /\ bool /\ wrap = 0 THEN "bool" ELSE "one"

EntryOf(d, k, f, option, bool) ==
  LET mode == ModeAt(d, k)
      wrap == IF mode.m \in {"child", "children"} THEN Latest(d, k, "unwrap") ELSE 0
  IN [fld    |-> f,
      kind   |-> KindIn(mode, bool, wrap),
      option |-> option,
      dflt   |-> KeepsDefault(mode) /\ OfKind(d, k, "default") # {},
      wrap   |-> wrap]

Push(b, ss, e) == [s \in Section |-> IF s \in ss THEN Append(b[s], e) ELSE b[s]]

----------------------------------------------------------------------------
\* What a Struct is made into.

Special == {"span", "node_name", "type_name"}
Places(obj, ss) == UNION {{<<s, j>> : j \in DOMAIN obj[s]} : s \in ss}
FldAt(obj, p) == obj[p[1]][p[2]].fld
None(obj, ss) == \A s \in ss : obj[s] = <<>>

\* A single field without a mode.
OnlyPayload(obj) ==
  Cardinality(Places(obj, Section)) = 1 /\ Len(obj["extra"]) = 1

KindOf(inp, it, obj) ==
  IF inp.kind = "struct"
  THEN IF it.shape = "tuple" /\ OnlyPayload(obj) THEN "NewType" ELSE "Struct"
  ELSE CASE it.shape = "named" -> "Named"
         [] it.shape = "unit"  -> "Unit"
         [] OTHER              -> IF OnlyPayload(obj) THEN "Nested" ELSE "Tuple"

\* "all tuple structure fields should be filled in"
AllFilled(obj) ==
  LET places == Places(obj, Section)
  IN \A f \in 1..Cardinality(places) : \E p \in places : FldAt(obj, p) = f

\* partial_compatible
Partial(obj) ==
  /\ None(obj, Special \cup {"argument", "arguments", "properties", "children"})
  /\ \A j \in DOMAIN obj["property"] :
       obj["property"][j].option \/ obj["property"][j].kind = "flatten"
  /\ \A j \in DOMAIN obj["child"] :
       obj["child"][j].option \/ obj["child"][j].kind \in {"bool", "flatten"}

\* Slip: has_properties leaves out the catch-all properties.
OfChildren_NoVarProps(obj) ==
  None(obj, Special \cup {"argument", "arguments", "property"})

OfChildren(obj) ==
  None(obj, Special \cup {"argument", "arguments", "property", "properties"})

\* The decoders of an item, its unwrap closures aside.  Of a newtype only the
\* name is kept, so that its payload is taken for an Option whatever it is.
Entries(b) == CASE b.kind = "Struct" -> {"node"}
                     \cup (IF Partial(b.obj) THEN {"partial"} ELSE {})
                     \cup (IF OfChildren(b.obj) THEN {"children"} ELSE {})
                [] b.kind = "Tuple"  -> {"variant"}
                [] b.kind = "Nested" ->
                     {IF b.obj["extra"][1].option THEN "optional" ELSE "payload"}
                [] b.kind = "NewType" -> {"optional"}
                [] OTHER             -> {}

\* The fields decode_children makes arms for.
Kids(obj) == obj["child"] \o obj["children"]

----------------------------------------------------------------------------

Items == input.items
Fields == Items[item].fields
Named == Items[item].shape = "named"

Init ==
  /\ \E group \in Inputs : input \in group
  /\ stage = "container" /\ item = 1 /\ fld = 1
  /\ bld = NoFields
  /\ built = <<>> /\ errors = {} /\ kids = <<>> /\ made = {}

ReadContainer ==
  /\ stage = "container"
  /\ stage' = "item"
  /\ errors' = IF input.attrs THEN ErrorsAt({"container"}, 0, 0) ELSE {}
  /\ UNCHANGED <<input, item, fld, bld, built, kids, made>>

ReadVariantAttrs == errors' = errors \cup ErrorsAt(VariantErrors(Items[item]), item, 0)

SkipVariant ==
  /\ stage = "item" /\ item <= Len(Items)
  /\ "skip" \in VariantAttrs(Items[item])
  /\ ReadVariantAttrs
  /\ item' = item + 1
  /\ UNCHANGED <<input, stage, fld, bld, built, kids, made>>

\* The fields of a named variant are not looked at; a unit has none.
ReadPlainVariant ==
  /\ stage = "item" /\ item <= Len(Items)
  /\ input.kind = "enum" /\ Items[item].shape # "tuple"
  /\ "skip" \notin VariantAttrs(Items[item])
  /\ ReadVariantAttrs
  /\ built' = Append(built, [item |-> item,
                             kind |-> KindOf(input, Items[item], NoFields),
                             obj  |-> NoFields])
  /\ item' = item + 1
  /\ UNCHANGED <<input, stage, fld, bld, kids, made>>

\* Struct::new with a new StructBuilder
BeginFields ==
  /\ stage = "item" /\ item <= Len(Items)
  /\ input.kind = "struct" \/ Items[item].shape = "tuple"
  /\ "skip" \notin VariantAttrs(Items[item])
  /\ ReadVariantAttrs
  /\ stage' = "fields" /\ fld' = 1 /\ bld' = NoFields
  /\ UNCHANGED <<input, item, built, kids, made>>

RefusedNow(d) == Refuses(bld, ModeAt(d, 0), Named, d.ty = "Option")

\* FieldAttrs::update and add_field
AddField ==
  /\ stage = "fields" /\ fld <= Len(Fields)
  /\ LET d      == Fields[fld]
         option == d.ty = "Option"
     IN /\ ~RefusedNow(d)
        /\ errors' = errors \cup ErrorsAt(ReadErrors(d) \cup DecodeErrors(d, 0, option), item, fld)
        /\ bld' = Push(bld, Goes(ModeAt(d, 0)), EntryOf(d, 0, fld, option, d.ty = "bool"))
  /\ fld' = fld + 1
  /\ UNCHANGED <<input, stage, item, built, kids, made>>

RefuseField ==
  /\ stage = "fields" /\ fld <= Len(Fields)
  /\ LET d == Fields[fld]
     IN /\ RefusedNow(d)
        /\ errors' = errors \cup ErrorsAt({"refused"} \cup ReadErrors(d)
                                 \cup DecodeErrors(d, 0, d.ty = "Option"), item, fld)
  /\ stage' = "failed"
  /\ UNCHANGED <<input, item, fld, bld, built, kids, made>>

EndFields ==
  /\ stage = "fields" /\ fld > Len(Fields)
  /\ built' = Append(built, [item |-> item,
                             kind |-> KindOf(input, Items[item], bld),
                             obj  |-> bld])
  /\ item' = item + 1
  /\ stage' = "item"
  /\ UNCHANGED <<input, fld, bld, errors, kids, made>>

EndItems ==
  /\ stage = "item" /\ item > Len(Items)
  /\ stage' = "emit" /\ item' = 1
  /\ UNCHANGED <<input, fld, bld, built, errors, kids, made>>

----------------------------------------------------------------------------
\* emit_decoder.  From here on `item` counts in `built`.

MadeOf(b) == [entry : Entries(b), item : {b.item}, obj : {b.obj},
              fields : {DOMAIN Items[b.item].fields}]

\* emit_enum's unimplemented!() for variants with named fields
EmitNamedVariant ==
  /\ stage = "emit" /\ item <= Len(built)
  /\ built[item].kind = "Named"
  /\ stage' = "panic"
  /\ UNCHANGED <<input, item, fld, bld, built, errors, kids, made>>

EmitPlain ==
  /\ stage = "emit" /\ item <= Len(built)
  /\ built[item].kind \in {"NewType", "Nested", "Unit"}
  /\ made' = made \cup MadeOf(built[item])
  /\ item' = item + 1
  /\ UNCHANGED <<input, stage, fld, bld, built, errors, kids>>

BeginDecoder ==
  /\ stage = "emit" /\ item <= Len(built)
  /\ built[item].kind \in {"Struct", "Tuple"}
  /\ kids' = Kids(built[item].obj)
  /\ stage' = "children"
  /\ UNCHANGED <<input, item, fld, bld, built, errors, made>>

EmitArm ==
  /\ stage = "children" /\ kids # <<>>
  /\ Head(kids).wrap = 0
  /\ kids' = Tail(kids)
  /\ UNCHANGED <<input, stage, item, fld, bld, built, errors, made>>

\* unwrap_fn: a StructBuilder with one named field, never taken for an Option
\* or a bool, which add_field cannot refuse.  The arms inside it come before
\* the next field.
EmitUnwrap ==
  /\ stage = "children" /\ kids # <<>>
  /\ Head(kids).wrap # 0
  /\ LET f   == Head(kids).fld
         at  == Head(kids).wrap
         of  == built[item].item
         d   == Items[of].fields[f]
         obj == Push(NoFields, Goes(ModeAt(d, at)), EntryOf(d, at, f, FALSE, FALSE))
     IN /\ errors' = errors \cup ErrorsAt(DecodeErrors(d, at, FALSE), of, f)
        /\ kids' = Kids(obj) \o Tail(kids)
        /\ made' = made \cup {[entry |-> "unwrap", item |-> of, obj |-> obj,
                               fields |-> {f}]}
  /\ UNCHANGED <<input, stage, item, fld, bld, built>>

\* The generated value of the type, behind an assertion for tuples; then the
\* decoders that come with it.
TupleFilled(b) == Items[b.item].shape = "tuple" => AllFilled(b.obj)

EmitDecoder ==
  /\ stage = "children" /\ kids = <<>>
  /\ TupleFilled(built[item])
  /\ made' = made \cup MadeOf(built[item])
  /\ item' = item + 1
  /\ stage' = "emit"
  /\ UNCHANGED <<input, fld, bld, built, errors, kids>>

AssertionFails ==
  /\ stage = "children" /\ kids = <<>>
  /\ ~TupleFilled(built[item])
  /\ stage' = "panic"
  /\ UNCHANGED <<input, item, fld, bld, built, errors, kids, made>>

EndEmission ==
  /\ stage = "emit" /\ item > Len(built)
  /\ stage' = "done"
  /\ UNCHANGED <<input, item, fld, bld, built, errors, kids, made>>

Next == \/ ReadContainer \/ SkipVariant \/ ReadPlainVariant \/ BeginFields
        \/ AddField \/ RefuseField \/ EndFields \/ EndItems
        \/ EmitNamedVariant \/ EmitPlain \/ BeginDecoder
        \/ EmitArm \/ EmitUnwrap \/ EmitDecoder \/ AssertionFails \/ EndEmission

Spec == Init /\ [][Next]_vars
=============================================================================
