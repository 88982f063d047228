------------------------------ MODULE Schemas ------------------------------
(***************************************************************************)
(* The two inputs of a generated decoder, and what they should produce.    *)
(*                                                                         *)
(* A schema is what knus-derive keeps of a struct (definition.rs, Struct): *)
(* which special fields there are, the argument, property and child fields *)
(* in declaration order, and the three catch-all fields.  A node is the    *)
(* AST node handed to decode_node.  A case pairs the two with the          *)
(* generated function that runs: decode_node of a struct ("node"), of a    *)
(* tuple variant of an enum ("variant"), the closure behind `unwrap`, or   *)
(* DecodeChildren::decode_children.                                        *)
(***************************************************************************)
EXTENDS Scalars, Sequences

CONSTANT Names          \* property and child node names

\* Options and defaults are the code's `option` and `default`; `val` says how
\* the scalar is decoded.
Arg  == [val : Field, dflt : BOOLEAN]

\* A flatten field holds a struct that implements DecodePartial: `part` lists
\* that struct's own properties (all Option, see partial_compatible).
PartProp == [name : Names, val : Field]
Prop == [mode : {"Named", "Flatten"}, name : Names, val : Field,
         dflt : BOOLEAN, part : Seq(PartProp)]

\* The children of a partial struct are Option ("Normal") or bool ("Bool").
PartChild == [name : Names, mode : {"Normal", "Bool"}]
ChildMode == {"Normal", "Flatten", "Multi", "Bool"}
Child == [mode : ChildMode, name : Names, opt : BOOLEAN, dflt : BOOLEAN,
          part : Seq(PartChild)]

Schema == [nodeName : BOOLEAN, typeName : {"absent", "option", "required"},
           args : Seq(Arg), varArgs : BOOLEAN, argVal : Field,
           props : Seq(Prop), varProps : BOOLEAN, propVal : Field,
           children : Seq(Child), varChildren : BOOLEAN]

\* `keyOk`: the name parses as the key type of a catch-all property map.
NodeProp == [name : Names, keyOk : BOOLEAN, val : Value]

\* `own` is what decode_node of the field's type makes of the child;
\* `extras` counts its arguments, properties and children, which is all
\* check_flag_node looks at.
NodeChild == [name : Names, own : {"good", "soft", "hard"}, extras : Nat]

\* `props` is the BTreeMap of properties in its order, that of the names.
\* nameOk, ty: whether the node's name and type name parse into the fields
\* that take them.
Node == [nameOk : BOOLEAN, ty : {"none", "ok", "bad"}, args : Seq(Value),
         props : Seq(NodeProp), children : Seq(NodeChild)]

Entry == {"node", "variant", "unwrap", "children"}
Case  == [entry : Entry, schema : Schema, node : Node]

\* The schemas and nodes the derive and the parser can really produce.
WellFormed(c) ==
  LET S == c.schema
      N == c.node
  IN /\ \A i, j \in DOMAIN N.props : N.props[i].name = N.props[j].name => i = j
     /\ \A i \in DOMAIN S.props : \A j \in DOMAIN S.props[i].part :
          S.props[i].part[j].val.opt
     /\ \A i \in DOMAIN S.props : S.props[i].mode # "Flatten" => S.props[i].part = <<>>
     /\ \A i \in DOMAIN S.children :
          S.children[i].mode # "Flatten" => S.children[i].part = <<>>
     /\ ~S.argVal.opt /\ ~S.propVal.opt
     /\ c.entry # "node" => ~S.nodeName /\ S.typeName = "absent"
     /\ c.entry = "children" => /\ S.args = <<>> /\ ~S.varArgs
                                /\ S.props = <<>> /\ ~S.varProps
                                /\ N.args = <<>> /\ N.props = <<>>

----------------------------------------------------------------------------

\* Match arms are tried in declaration order; a flatten arm takes every name
\* its partial struct has.
HasName(seq, name) == \E j \in DOMAIN seq : seq[j].name = name

Takes(fld, name) == IF fld.mode = "Flatten" THEN HasName(fld.part, name)
                                            ELSE fld.name = name

\* Arm i of a match is the one that handles `name`.
IsArm(fields, i, name) == /\ i \in DOMAIN fields
                          /\ Takes(fields[i], name)
                          /\ \A j \in 1..(i - 1) : ~Takes(fields[j], name)

IsPartArm(part, j, name) == /\ j \in DOMAIN part
                            /\ part[j].name = name
                            /\ \A h \in 1..(j - 1) : part[h].name # name

NoArm(fields, name) == \A i \in DOMAIN fields : ~Takes(fields[i], name)

\* Where a decoded value is kept: a field (fld > 0) or the catch-all field
\* (fld = 0) of a section; sub > 0 is a field of a flattened struct.
Slot(sec, fld, sub) == [sec |-> sec, fld |-> fld, sub |-> sub]

PartSlots(sec, fields) ==
  UNION {{Slot(sec, i, j) : j \in DOMAIN fields[i].part} : i \in DOMAIN fields}

SlotsOf(S) ==
  {Slot("arg", i, 0) : i \in {0} \cup DOMAIN S.args}
    \cup {Slot("prop", i, 0) : i \in {0} \cup DOMAIN S.props}
    \cup {Slot("child", i, 0) : i \in {0} \cup DOMAIN S.children}
    \cup PartSlots("prop", S.props) \cup PartSlots("child", S.children)

\* What a field holds: the position of the argument, property or child the
\* value came from (0 for a default), and whether it is the decoded value or
\* a placeholder.
Item == [at : Nat, clean : BOOLEAN]
DefaultItem == [at |-> 0, clean |-> TRUE]

\* Where an error points: an argument, property or child of the node, the
\* node's name or type name, or a field for which the node has nothing.
Sections == {"name", "type", "arg", "noArg", "prop", "noProp", "child", "noChild"}
Loc(sec, pos) == [sec |-> sec, pos |-> pos]
Place == [sec : Sections, pos : Nat]
=============================================================================
