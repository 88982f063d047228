----------------------------- MODULE Documents -----------------------------
(***************************************************************************)
(* What a document is decoded into.  The root is a list (Vec<T>), a struct *)
(* of children (DecodeChildren) or a single node (decode::node); T is a    *)
(* struct, a newtype or an enum.  Faulty says which nodes of a document do *)
(* not conform to T.                                                       *)
(***************************************************************************)
EXTENDS Conformance

VariantKind == {"Unit", "Nested", "NestedOption", "Tuple"}
Variant == [name : Names, kind : VariantKind, schema : Schema]

\* `schema` is the struct, or the struct inside the newtype.
Form == [kind : {"Struct", "NewType", "Enum"}, schema : Schema,
         variants : Seq(Variant)]

\* `braces`: the node has a children block, which may be empty.
DocNode == [name : Names, braces : BOOLEAN, node : Node]

\* `readable`: the text is KDL.
Doc == [readable : BOOLEAN, root : {"list", "struct", "single"},
        form : Form, nodes : Seq(DocNode)]

\* node.arguments, node.properties and node.children.
Extras(n) == Len(n.node.args) + Len(n.node.props) + Len(n.node.children)

\* The arms of the match on the node's name, in declaration order.
IsVariant(form, i, name) == /\ i \in DOMAIN form.variants
                            /\ form.variants[i].name = name
                            /\ \A j \in 1..(i - 1) : form.variants[j].name # name

\* Nothing but a name: an optional payload is left None.
Blank(n) == Len(n.node.args) = 0 /\ Len(n.node.props) = 0 /\ ~n.braces

CallOf(entry, schema, n) == [entry |-> entry, schema |-> schema, node |-> n.node]

StructEntry(doc) == IF doc.root = "struct" THEN "children" ELSE "node"

WellFormedDoc(doc) ==
  /\ doc.form.kind \in {"Struct", "NewType"} <=> doc.form.variants = <<>>
  /\ doc.root = "struct" => doc.form.kind = "Struct"
  /\ doc.root # "list" => Len(doc.nodes) = 1
  /\ \A k \in DOMAIN doc.nodes :
       LET n == doc.nodes[k]
       IN /\ Len(n.node.children) > 0 => n.braces
          /\ WellFormed(CallOf(StructEntry(doc), doc.form.schema, n))
          /\ \A i \in DOMAIN doc.form.variants :
               WellFormed(CallOf(IF doc.form.variants[i].kind = "Tuple"
                                 THEN "variant" ELSE "node",
                                 doc.form.variants[i].schema, n))

----------------------------------------------------------------------------

FaultyVariant(v, n) ==
  CASE v.kind = "Unit"         -> Extras(n) > 0
    [] v.kind = "Nested"       -> ~Conforms(CallOf("node", v.schema, n))
    [] v.kind = "NestedOption" -> ~Blank(n) /\ ~Conforms(CallOf("node", v.schema, n))
    [] v.kind = "Tuple"        -> ~Conforms(CallOf("variant", v.schema, n))

\* Node k of the document is not what the root asks for.
Faulty(doc, k) ==
  LET n == doc.nodes[k]
      f == doc.form
  IN CASE f.kind = "Struct"  -> ~Conforms(CallOf(StructEntry(doc), f.schema, n))
       [] f.kind = "NewType" -> ~Blank(n) /\ ~Conforms(CallOf("node", f.schema, n))
       [] f.kind = "Enum"    -> \A i \in DOMAIN f.variants :
            IsVariant(f, i, n.name) => FaultyVariant(f.variants[i], n)

\* The struct decoders that run for node k: none for a unit variant or an
\* optional payload that is left out.
CallsFor(doc, k) ==
  LET n == doc.nodes[k]
      f == doc.form
      inner(kind, schema) ==
        CASE kind = "Unit"         -> {}
          [] kind = "Nested"       -> {CallOf("node", schema, n)}
          [] kind = "NestedOption" -> IF Blank(n) THEN {} ELSE {CallOf("node", schema, n)}
          [] kind = "Tuple"        -> {CallOf("variant", schema, n)}
  IN CASE f.kind = "Struct"  -> {CallOf(StructEntry(doc), f.schema, n)}
       [] f.kind = "NewType" -> inner("NestedOption", f.schema)
       [] f.kind = "Enum"    -> UNION {inner(f.variants[i].kind, f.variants[i].schema) :
                                  i \in {i \in DOMAIN f.variants : IsVariant(f, i, n.name)}}

FaultyNodes(doc) == {k \in DOMAIN doc.nodes : Faulty(doc, k)}

\* What parsing returns for a document in order: one element per node, each
\* with every value in the field it belongs to.
Decoded(doc, list) ==
  /\ Len(list) = Len(doc.nodes)
  /\ \A k \in DOMAIN list :
       /\ list[k].at = k
       /\ \A c \in CallsFor(doc, k) : AsExpected(c, list[k].values)
=============================================================================
