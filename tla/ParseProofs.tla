---------------------------- MODULE ParseProofs ----------------------------
(***************************************************************************)
(* Theorems about Parse, for every document and every type it is decoded   *)
(* into.                                                                   *)
(*                                                                         *)
(* What Parse needs to know of a decoder is what StructDecodeProofs says   *)
(* of StructDecode: Decoder is the same instance as Call, with its         *)
(* theorems.  As long as a call runs, its own invariants hold; when it     *)
(* returns they say what its errors and its result are, and with that the  *)
(* loop's invariant goes on to the next node.                              *)
(***************************************************************************)
EXTENDS Parse, TLAPS

Decoder == INSTANCE StructDecodeProofs WITH Inputs <- {}

-----------------------------------------------------------------------------
(***************************************************************************)
(* Decoder, Call and Conformance speak of the same things.                 *)
(***************************************************************************)

LEMMA SameCase == Decoder!Case = Case /\ Call!Case = Case
  BY DEF Decoder!Case, Decoder!Entry, Decoder!Schema, Decoder!Node, Decoder!Arg, Decoder!Prop,
         Decoder!PartProp, Decoder!Child, Decoder!ChildMode, Decoder!PartChild, Decoder!NodeProp,
         Decoder!NodeChild, Decoder!Field, Decoder!Value, Decoder!Plain, Decoder!Numeric,
         Decoder!IntTypes, Decoder!FloatTypes, Decoder!Annotation, Decoder!BuiltinType,
         Decoder!Kind, Decoder!TextFault,
         Call!Case, Call!Entry, Call!Schema, Call!Node, Call!Arg, Call!Prop,
         Call!PartProp, Call!Child, Call!ChildMode, Call!PartChild, Call!NodeProp,
         Call!NodeChild, Call!Field, Call!Value, Call!Plain, Call!Numeric,
         Call!IntTypes, Call!FloatTypes, Call!Annotation, Call!BuiltinType,
         Call!Kind, Call!TextFault,
         Case, Entry, Schema, Node, Arg, Prop, PartProp, Child, ChildMode, PartChild, NodeProp,
         NodeChild, Field, Value, Plain, Numeric, IntTypes, FloatTypes, Annotation, BuiltinType,
         Kind, TextFault

LEMMA SameWellFormed ==
  ASSUME NEW c
  PROVE  (Decoder!WellFormed(c) <=> WellFormed(c)) /\ (Call!WellFormed(c) <=> WellFormed(c))
  BY DEF Decoder!WellFormed, Call!WellFormed, WellFormed

LEMMA SamePlaces ==
  /\ \A sec, p : Decoder!Loc(sec, p) = Loc(sec, p) /\ Call!Loc(sec, p) = Loc(sec, p)
  /\ Decoder!Place = Place /\ Call!Place = Place
  /\ Decoder!Item = Item /\ Call!Item = Item
  /\ \A SS : Decoder!SlotsOf(SS) = SlotsOf(SS) /\ Call!SlotsOf(SS) = SlotsOf(SS)
  BY DEF Decoder!Loc, Loc, Call!Loc, Decoder!Place, Place, Call!Place, Decoder!Sections, Sections,
         Call!Sections, Decoder!Item, Item, Call!Item, Decoder!SlotsOf, SlotsOf, Call!SlotsOf,
         Decoder!Slot, Slot, Call!Slot, Decoder!PartSlots, PartSlots, Call!PartSlots

LEMMA SameArms ==
  /\ \A fields, i, name : Decoder!IsArm(fields, i, name) <=> IsArm(fields, i, name)
  /\ \A fields, name : Decoder!NoArm(fields, name) <=> NoArm(fields, name)
  /\ \A part, j, name : Decoder!IsPartArm(part, j, name) <=> IsPartArm(part, j, name)
  BY DEF Decoder!IsArm, IsArm, Decoder!NoArm, NoArm, Decoder!IsPartArm, IsPartArm,
         Decoder!Takes, Takes, Decoder!HasName, HasName

LEMMA SameAdmits == \A f, v : Decoder!Admits(f, v) <=> Admits(f, v)
  BY DEF Decoder!Admits, Admits, Decoder!NullAdmitted, NullAdmitted,
         Decoder!TypeAdmitted, TypeAdmitted, Decoder!LiteralAdmitted, LiteralAdmitted,
         Decoder!KindOf, KindOf, Decoder!Numeric, Numeric, Decoder!IntTypes, IntTypes,
         Decoder!FloatTypes, FloatTypes, Decoder!FromStr, FromStr,
         Decoder!BuiltinType, BuiltinType

LEMMA SameFaults == ASSUME NEW c PROVE Decoder!Faults(c) = Faults(c)
<1>1. \A SS, NN, k : Decoder!ArgAdmitted(SS, NN, k) <=> ArgAdmitted(SS, NN, k)
  BY SameAdmits DEF Decoder!ArgAdmitted, ArgAdmitted
<1>2. \A SS, NN, i : Decoder!ArgMissing(SS, NN, i) <=> ArgMissing(SS, NN, i)
  BY DEF Decoder!ArgMissing, ArgMissing
<1>3. \A SS, NN, k : Decoder!PropAdmitted(SS, NN, k) <=> PropAdmitted(SS, NN, k)
  BY SameAdmits, SameArms DEF Decoder!PropAdmitted, PropAdmitted
<1>4. \A SS, NN, i : Decoder!PropMissing(SS, NN, i) <=> PropMissing(SS, NN, i)
  BY SameArms DEF Decoder!PropMissing, PropMissing
<1>5. \A SS, NN, k : Decoder!ChildAdmitted(SS, NN, k) <=> ChildAdmitted(SS, NN, k)
  BY SameArms DEF Decoder!ChildAdmitted, ChildAdmitted, Decoder!Fits, Fits,
                  Decoder!FirstOf, FirstOf, Decoder!FirstOfPart, FirstOfPart
<1>6. \A SS, NN, i : Decoder!ChildMissing(SS, NN, i) <=> ChildMissing(SS, NN, i)
  BY SameArms DEF Decoder!ChildMissing, ChildMissing
<1>7. \A SS, NN : Decoder!SpecialFaults(SS, NN) = SpecialFaults(SS, NN)
  BY SamePlaces DEF Decoder!SpecialFaults, SpecialFaults
<1> QED BY <1>1, <1>2, <1>3, <1>4, <1>5, <1>6, <1>7, SamePlaces DEF Decoder!Faults, Faults

LEMMA SameExpected ==
  ASSUME NEW c, NEW values
  PROVE  Decoder!AsExpected(c, values) <=> AsExpected(c, values)
<1>1. \A SS, NN, i : Decoder!ArgItems(SS, NN, i) = ArgItems(SS, NN, i)
  BY DEF Decoder!ArgItems, ArgItems, Decoder!IsNull, IsNull, Decoder!OrDefault, OrDefault
<1>2. \A SS, NN, i, j : Decoder!PropItems(SS, NN, i, j) = PropItems(SS, NN, i, j)
  BY DEF Decoder!PropItems, PropItems, Decoder!IsNull, IsNull, Decoder!OrDefault, OrDefault,
         Decoder!IsArm, IsArm, Decoder!NoArm, NoArm,
         Decoder!IsPartArm, IsPartArm, Decoder!Takes, Takes, Decoder!HasName, HasName
<1>3. \A SS, NN, i, j : Decoder!ChildItems(SS, NN, i, j) = ChildItems(SS, NN, i, j)
  BY DEF Decoder!ChildItems, ChildItems, Decoder!OrDefault, OrDefault,
         Decoder!IsArm, IsArm, Decoder!NoArm, NoArm,
         Decoder!IsPartArm, IsPartArm, Decoder!Takes, Takes, Decoder!HasName, HasName
<1>4. \A s : Decoder!Items(c, s) = Items(c, s)
  BY <1>1, <1>2, <1>3 DEF Decoder!Items, Items
<1>5. \A h, p : Decoder!Delivers(h, p) <=> Delivers(h, p)
  BY DEF Decoder!Delivers, Delivers
<1> QED BY <1>4, <1>5, SamePlaces DEF Decoder!AsExpected, AsExpected

LEMMA SameTypeOK == Decoder!TypeOK <=> Call!TypeOK
  BY SameCase, SameWellFormed, SamePlaces
  DEF Decoder!TypeOK, Call!TypeOK, Decoder!Phases, Call!Phases, Decoder!S, Call!S

LEMMA SameOrder == \A l, m : Decoder!NotAfter(l, m) <=> Call!NotAfter(l, m)
  BY DEF Decoder!NotAfter, Call!NotAfter, Decoder!Rank, Call!Rank

LEMMA SameFirst == \A entry : Decoder!FirstPhase(entry) = Call!FirstPhase(entry)
  BY DEF Decoder!FirstPhase, Call!FirstPhase

LEMMA SameDecodeValue == \A f, v : Decoder!DecodeValue(f, v) = Call!DecodeValue(f, v)
  BY DEF Decoder!DecodeValue, Call!DecodeValue, Decoder!RawDecode, Call!RawDecode,
         Decoder!DecodeStr, Call!DecodeStr, Decoder!DecodeBytes, Call!DecodeBytes, Decoder!Bytes,
         Call!Bytes, Decoder!TypeCheck, Call!TypeCheck, Decoder!KindOf, Call!KindOf,
         Decoder!Count, Call!Count, Decoder!Result, Call!Result, Decoder!FromStr, Call!FromStr,
         Decoder!AsBuiltin, Call!AsBuiltin, Decoder!BuiltinType, Call!BuiltinType,
         Decoder!Numeric, Call!Numeric, Decoder!IntTypes, Call!IntTypes, Decoder!FloatTypes,
         Call!FloatTypes

\* A step of the one is a step of the other.
LEMMA SameStep == Decoder!Next <=> Call!Next
<1> USE SameDecodeValue
    DEF Decoder!S, Call!S, Decoder!N, Call!N, Decoder!At, Call!At, Decoder!Enter, Call!Enter,
         Decoder!Advance, Call!Advance, Decoder!Raise, Call!Raise, Decoder!Emit, Call!Emit,
         Decoder!Stored, Call!Stored, Decoder!Settle, Call!Settle, Decoder!FillIn, Call!FillIn,
         Decoder!Count, Call!Count, Decoder!Slot, Call!Slot, Decoder!Loc, Call!Loc,
         Decoder!IsArm, Call!IsArm, Decoder!NoArm, Call!NoArm, Decoder!IsPartArm, Call!IsPartArm,
         Decoder!Takes, Call!Takes, Decoder!HasName, Call!HasName, Decoder!ChildOutcome,
         Call!ChildOutcome, Decoder!Result, Call!Result, Decoder!DefaultItem, Call!DefaultItem,
         Decoder!SetFlag, Call!SetFlag, Decoder!HereProp, Call!HereProp, Decoder!HereChild,
         Call!HereChild, Decoder!HereArm, Call!HereArm
<1>1. Decoder!DecodeSpecials <=> Call!DecodeSpecials
  BY DEF Decoder!DecodeSpecials, Call!DecodeSpecials
<1>2. Decoder!DecodeArg <=> Call!DecodeArg
  BY DEF Decoder!DecodeArg, Call!DecodeArg
<1>3. Decoder!MissingArg <=> Call!MissingArg
  BY DEF Decoder!MissingArg, Call!MissingArg
<1>4. Decoder!DecodeVarArg <=> Call!DecodeVarArg
  BY DEF Decoder!DecodeVarArg, Call!DecodeVarArg
<1>5. Decoder!ExtraArg <=> Call!ExtraArg
  BY DEF Decoder!ExtraArg, Call!ExtraArg
<1>6. Decoder!ArgsDone <=> Call!ArgsDone
  BY DEF Decoder!ArgsDone, Call!ArgsDone
<1>7. Decoder!NamedProp <=> Call!NamedProp
  BY DEF Decoder!NamedProp, Call!NamedProp
<1>8. Decoder!FlattenProp <=> Call!FlattenProp
  BY DEF Decoder!FlattenProp, Call!FlattenProp,
         Decoder!DecodeValue, Call!DecodeValue, Decoder!RawDecode, Call!RawDecode,
         Decoder!DecodeStr, Call!DecodeStr, Decoder!DecodeBytes, Call!DecodeBytes, Decoder!Bytes,
         Call!Bytes, Decoder!TypeCheck, Call!TypeCheck, Decoder!KindOf, Call!KindOf,
         Decoder!Count, Call!Count, Decoder!Result, Call!Result, Decoder!FromStr, Call!FromStr,
         Decoder!AsBuiltin, Call!AsBuiltin, Decoder!BuiltinType, Call!BuiltinType,
         Decoder!Numeric, Call!Numeric, Decoder!IntTypes, Call!IntTypes, Decoder!FloatTypes,
         Call!FloatTypes
<1>9. Decoder!VarProp <=> Call!VarProp
  BY DEF Decoder!VarProp, Call!VarProp
<1>10. Decoder!UnexpectedProp <=> Call!UnexpectedProp
  BY DEF Decoder!UnexpectedProp, Call!UnexpectedProp
<1>11. Decoder!PropsDone <=> Call!PropsDone
  BY DEF Decoder!PropsDone, Call!PropsDone
<1>12. Decoder!FinishProp <=> Call!FinishProp
  BY DEF Decoder!FinishProp, Call!FinishProp
<1>13. Decoder!PropsFinished <=> Call!PropsFinished
  BY DEF Decoder!PropsFinished, Call!PropsFinished
<1>14. Decoder!FinishChild <=> Call!FinishChild
  BY DEF Decoder!FinishChild, Call!FinishChild
<1>15. Decoder!ChildrenDone <=> Call!ChildrenDone
  BY DEF Decoder!ChildrenDone, Call!ChildrenDone
<1>16. Decoder!Finish <=> Call!Finish
  BY DEF Decoder!Finish, Call!Finish
<1>17. Decoder!NormalChild <=> Call!NormalChild
  BY DEF Decoder!NormalChild, Call!NormalChild
<1>18. Decoder!MultiChild <=> Call!MultiChild
  BY DEF Decoder!MultiChild, Call!MultiChild
<1>19. Decoder!FlagChild <=> Call!FlagChild
  BY DEF Decoder!FlagChild, Call!FlagChild
<1>20. Decoder!FlattenChild <=> Call!FlattenChild
  BY DEF Decoder!FlattenChild, Call!FlattenChild
<1>21. Decoder!VarChild <=> Call!VarChild
  BY DEF Decoder!VarChild, Call!VarChild
<1>22. Decoder!UnexpectedChild <=> Call!UnexpectedChild
  BY DEF Decoder!UnexpectedChild, Call!UnexpectedChild
<1> QED BY <1>1, <1>2, <1>3, <1>4, <1>5, <1>6, <1>7, <1>8, <1>9, <1>10, <1>11, <1>12,
           <1>13, <1>14, <1>15, <1>16, <1>17, <1>18, <1>19, <1>20, <1>21, <1>22
   DEF Decoder!Next, Call!Next

-----------------------------------------------------------------------------
(***************************************************************************)
(* What is called for a node, and when it is faulty.                       *)
(***************************************************************************)

LEMMA OneVariant ==
  ASSUME NEW dd \in Doc, NEW name, NEW i, NEW j,
         IsVariant(dd.form, i, name), IsVariant(dd.form, j, name)
  PROVE  i = j
<1>1. i \in Nat /\ j \in Nat /\ i >= 1 /\ j >= 1
  <2>1. dd.form.variants \in Seq(Variant) BY DEF Doc, Form
  <2> QED BY <2>1 DEF IsVariant
<1> QED BY <1>1 DEF IsVariant

LEMMA DocParts ==
  ASSUME NEW dd \in Doc, NEW k \in DOMAIN dd.nodes
  PROVE  /\ k \in Nat \ {0} /\ Len(dd.nodes) \in Nat /\ k <= Len(dd.nodes)
         /\ dd.nodes \in Seq(DocNode) /\ dd.nodes[k] \in DocNode /\ dd.nodes[k].node \in Node
         /\ dd.form \in Form /\ dd.form.schema \in Schema
         /\ dd.form.kind \in {"Struct", "NewType", "Enum"}
         /\ dd.form.variants \in Seq(Variant)
         /\ \A i \in DOMAIN dd.form.variants :
              /\ dd.form.variants[i] \in Variant
              /\ dd.form.variants[i].kind \in VariantKind
              /\ dd.form.variants[i].schema \in Schema
<1>1. dd.nodes \in Seq(DocNode) /\ dd.form \in Form BY DEF Doc
<1>2. dd.nodes[k] \in DocNode /\ k \in Nat \ {0} /\ k <= Len(dd.nodes) BY <1>1
<1>3. /\ dd.form.variants \in Seq(Variant) /\ dd.form.schema \in Schema
      /\ dd.form.kind \in {"Struct", "NewType", "Enum"}
  BY <1>1 DEF Form
<1>4. dd.nodes[k].node \in Node BY <1>2 DEF DocNode
<1>5. \A v \in Variant : v.kind \in VariantKind /\ v.schema \in Schema BY DEF Variant
<1>6. \A i \in DOMAIN dd.form.variants : dd.form.variants[i] \in Variant BY <1>3
<1> QED BY <1>1, <1>2, <1>3, <1>4, <1>5, <1>6

\* The call that a node gets is one the derive and the grammar can produce, and
\* it conforms exactly if the node is what the root asks for.
LEMMA CallsAreCases ==
  ASSUME NEW dd \in Doc, WellFormedDoc(dd), NEW k \in DOMAIN dd.nodes, NEW c \in CallsFor(dd, k)
  PROVE  /\ c \in Case /\ WellFormed(c)
         /\ \A b \in CallsFor(dd, k) : b = c
         /\ Faulty(dd, k) <=> Faults(c) # {}
<1> DEFINE n == dd.nodes[k]
           f == dd.form
<1>1. /\ n.node \in Node /\ f.schema \in Schema /\ f.variants \in Seq(Variant)
      /\ \A i \in DOMAIN f.variants : f.variants[i].schema \in Schema /\ f.variants[i].kind \in VariantKind
      /\ f.kind \in {"Struct", "NewType", "Enum"}
  BY DocParts
<1>2. \A entry \in Entry, schema \in Schema : CallOf(entry, schema, n) \in Case
  BY <1>1 DEF CallOf, Case
<1>3. StructEntry(dd) \in Entry /\ (f.kind # "Struct" => StructEntry(dd) = "node")
  BY DEF StructEntry, Entry, WellFormedDoc
<1>4. /\ WellFormed(CallOf(StructEntry(dd), f.schema, n))
      /\ \A i \in DOMAIN f.variants :
           WellFormed(CallOf(IF f.variants[i].kind = "Tuple" THEN "variant" ELSE "node",
                             f.variants[i].schema, n))
  BY DEF WellFormedDoc
<1>5. "node" \in Entry /\ "variant" \in Entry BY DEF Entry
<1>6. CASE f.kind = "Struct"
  <2>1. CallsFor(dd, k) = {CallOf(StructEntry(dd), f.schema, n)} BY <1>6 DEF CallsFor
  <2>2. Faulty(dd, k) <=> ~Conforms(CallOf(StructEntry(dd), f.schema, n)) BY <1>6 DEF Faulty
  <2> QED BY <1>1, <1>2, <1>3, <1>4, <2>1, <2>2 DEF Conforms
<1>7. CASE f.kind = "NewType"
  <2>1. /\ ~Blank(n)
        /\ CallsFor(dd, k) = {CallOf("node", f.schema, n)}
    BY <1>7 DEF CallsFor
  <2>2. Faulty(dd, k) <=> ~Conforms(CallOf("node", f.schema, n)) BY <1>7, <2>1 DEF Faulty
  <2> QED BY <1>1, <1>2, <1>3, <1>4, <1>5, <1>7, <2>1, <2>2 DEF Conforms
<1>8. CASE f.kind = "Enum"
  <2> DEFINE inner(v) == CASE v.kind = "Unit"         -> {}
                           [] v.kind = "Nested"       -> {CallOf("node", v.schema, n)}
                           [] v.kind = "NestedOption" -> IF Blank(n) THEN {} ELSE {CallOf("node", v.schema, n)}
                           [] v.kind = "Tuple"        -> {CallOf("variant", v.schema, n)}
  <2>1. CallsFor(dd, k) = UNION {inner(f.variants[i]) : i \in {i \in DOMAIN f.variants : IsVariant(f, i, n.name)}}
    BY <1>8 DEF CallsFor
  <2>2. PICK i \in DOMAIN f.variants : IsVariant(f, i, n.name) /\ c \in inner(f.variants[i])
    BY <2>1
  <2>3. \A j : IsVariant(f, j, n.name) => j = i BY <2>2, OneVariant
  <2>4. CallsFor(dd, k) = inner(f.variants[i]) BY <2>1, <2>2, <2>3
  <2>5. Faulty(dd, k) <=> FaultyVariant(f.variants[i], n)
    BY <1>8, <2>2, <2>3 DEF Faulty
  <2>6. f.variants[i].kind \in VariantKind /\ f.variants[i].schema \in Schema BY <1>1
  <2>7. CASE f.variants[i].kind = "Tuple"
    BY <1>2, <1>4, <1>5, <2>2, <2>4, <2>5, <2>6, <2>7 DEF FaultyVariant, Conforms
  <2>8. CASE f.variants[i].kind = "Nested"
    BY <1>2, <1>4, <1>5, <2>2, <2>4, <2>5, <2>6, <2>8 DEF FaultyVariant, Conforms
  <2>9. CASE f.variants[i].kind = "NestedOption"
    <3>1. ~Blank(n) BY <2>2, <2>9
    <3> QED BY <1>2, <1>4, <1>5, <2>2, <2>4, <2>5, <2>6, <2>9, <3>1 DEF FaultyVariant, Conforms
  <2>10. CASE f.variants[i].kind = "Unit" BY <2>2, <2>10
  <2> QED BY <2>6, <2>7, <2>8, <2>9, <2>10 DEF VariantKind
<1> QED BY <1>1, <1>6, <1>7, <1>8

-----------------------------------------------------------------------------
(***************************************************************************)
(* The invariant.                                                          *)
(***************************************************************************)

\* The call that runs is the one the node gets, and keeps its own invariants.
CallRuns == stage = "call" => /\ case \in CallsFor(doc, at)
                              /\ Decoder!CInv
                              /\ Decoder!ErrorsAreBehind /\ Decoder!ErrorsInDecodingOrder

\* What the list, the Context and the outcome are as the loop has come to `at`.
Error == [item : Nat, loc : Place]
Complete == /\ Len(list) = at - 1
            /\ \A k \in DOMAIN list : list[k].at = k
Loop == /\ context \in Seq(Error) /\ list \in Seq(Range(list))
        /\ stage = "read" => at = 1
        /\ stage \in {"next", "call"} => doc.readable
        /\ stage = "call" => at \in DOMAIN doc.nodes
        /\ stage = "done" <=> outcome # "none"
        /\ outcome = "ok" => context = <<>>
        /\ Blamed = {k \in FaultyNodes(doc) : k < at}
        /\ \A k \in DOMAIN context : context[k].item < at
        /\ \A k \in DOMAIN list : list[k].at < at
        /\ Blamed = {} => Complete

PInv == /\ TypeOK /\ CallRuns /\ Loop
        /\ ErrorsInDecodingOrder /\ ConformingNodesAreIndependent

LEMMA PInit == ASSUME Init PROVE PInv
<1>1. doc \in Doc /\ WellFormedDoc(doc) BY DocsAssumption DEF Init
<1>2. stage = "read" /\ at = 1 /\ context = <<>> /\ list = <<>> /\ outcome = "none"
  BY DEF Init
<1>3. Range(context) = {} /\ Range(list) = {} BY <1>2 DEF Range
<1>4. Len(doc.nodes) \in Nat BY <1>1 DEF Doc
<1>5. TypeOK BY <1>1, <1>2, <1>3, <1>4 DEF TypeOK
<1>6. \A k \in DOMAIN doc.nodes : ~(k < 1) BY <1>1, DocParts
<1>7. Loop
  <2>1. Blamed = {} BY <1>3 DEF Blamed
  <2>2. {k \in FaultyNodes(doc) : k < at} = {} BY <1>2, <1>6 DEF FaultyNodes
  <2> QED BY <1>2, <1>3, <2>1, <2>2 DEF Loop, Complete
<1> QED BY <1>2, <1>3, <1>5, <1>7
    DEF PInv, CallRuns, ErrorsInDecodingOrder, ConformingNodesAreIndependent

LEMMA BegunAgain == Decoder!Begun => /\ Decoder!CInv /\ Decoder!ErrorsAreBehind
                                     /\ Decoder!ErrorsInDecodingOrder
<1> SUFFICES ASSUME Decoder!Begun
             PROVE  /\ Decoder!CInv /\ Decoder!ErrorsAreBehind
                    /\ Decoder!ErrorsInDecodingOrder
  OBVIOUS
<1>1. Decoder!CInv BY Decoder!BegunInv
<1>2. errs = <<>> /\ raised = <<>> BY DEF Decoder!Begun
<1> QED BY <1>1, <1>2 DEF Decoder!ErrorsAreBehind, Decoder!ErrorsInDecodingOrder

\* A call that is started has its invariants.
LEMMA StartKeeps ==
  ASSUME PInv, Turn, NEW entry, NEW schema,
         CallOf(entry, schema, Here) \in CallsFor(doc, at), Start(entry, schema)
  PROVE  PInv'
<1>1. /\ stage' = "call" /\ case' = CallOf(entry, schema, Here) /\ stage = "next"
      /\ UNCHANGED <<doc, at, context, list, outcome>> /\ at \in DOMAIN doc.nodes
  BY DEF Start, Turn
<1>2. doc \in Doc /\ WellFormedDoc(doc) BY DEF PInv, TypeOK
<1>3. case' \in Case /\ WellFormed(case') BY <1>1, <1>2, CallsAreCases
<1>4. case'.entry = entry /\ case'.schema = schema BY <1>1 DEF CallOf
<1>5. Decoder!Begun'
  <2>1. /\ phase' = Call!FirstPhase(entry) /\ pos' = 1
        /\ vals' = [s \in SlotsOf(schema) |-> <<>>]
        /\ seen' = {} /\ errs' = <<>> /\ raised' = <<>>
    BY DEF Start
  <2> QED BY <1>3, <1>4, <2>1, SameCase, SameWellFormed, SamePlaces, SameFirst
      DEF Decoder!Begun, Decoder!S
<1>6. Decoder!CInv' /\ Decoder!ErrorsAreBehind' /\ Decoder!ErrorsInDecodingOrder'
  <2>1. (Decoder!Begun => /\ Decoder!CInv /\ Decoder!ErrorsAreBehind
                          /\ Decoder!ErrorsInDecodingOrder)'
    BY BegunAgain, PTL
  <2> QED BY <1>5, <2>1
<1>7. CallRuns' BY <1>1, <1>6 DEF CallRuns
<1>8. Call!TypeOK'
  <2>1. (Decoder!TypeOK <=> Call!TypeOK)' BY SameTypeOK, PTL
  <2> QED BY <1>6, <2>1 DEF Decoder!CInv
<1>9. TypeOK' BY <1>1, <1>8 DEF PInv, TypeOK
<1>10. Loop' BY <1>1 DEF PInv, Loop, Blamed, Complete, FaultyNodes
<1> QED BY <1>1, <1>7, <1>9, <1>10
    DEF PInv, ErrorsInDecodingOrder, ConformingNodesAreIndependent

-----------------------------------------------------------------------------
(***************************************************************************)
(* A node is done.                                                         *)
(***************************************************************************)

\* The node, if anything was found in it.
Added(found) == IF found = <<>> THEN {} ELSE {at}
Adds(found)  == context' = context \o Tagged(found)

LEMMA Concatenated ==
  ASSUME NEW T, NEW s \in Seq(T), NEW q \in Seq(T), NEW r, r = s \o q
  PROVE  /\ r \in Seq(T) /\ Len(r) = Len(s) + Len(q)
         /\ Len(s) \in Nat /\ Len(q) \in Nat
         /\ \A k \in 1..Len(s) : r[k] = s[k]
         /\ \A k \in 1..Len(q) : r[Len(s) + k] = q[k]
  OBVIOUS

LEMMA IsJoin ==
  ASSUME NEW T, NEW s \in Seq(T), NEW q \in Seq(T), NEW r \in Seq(T),
         Len(r) = Len(s) + Len(q),
         \A k \in 1..(Len(s) + Len(q)) : r[k] = IF k <= Len(s) THEN s[k] ELSE q[k - Len(s)]
  PROVE  r = s \o q
<1> DEFINE m == Len(s) + Len(q)
           d == s \o q
<1>1. /\ d \in Seq(T) /\ Len(d) = m /\ Len(s) \in Nat /\ Len(q) \in Nat /\ m \in Nat
      /\ \A k \in 1..m : d[k] = IF k <= Len(s) THEN s[k] ELSE q[k - Len(s)]
  OBVIOUS
<1> HIDE DEF d
<1>2. \A k \in 1..m : r[k] = d[k] BY <1>1
<1>3. Len(r) = m OBVIOUS
<1> HIDE DEF m
<1>4. r = [k \in 1..m |-> r[k]] /\ d = [k \in 1..m |-> d[k]] BY <1>1, <1>3
<1>5. r = d BY <1>2, <1>4
<1> QED BY <1>5 DEF d

LEMMA Associative ==
  ASSUME NEW T, NEW r \in Seq(T), NEW s \in Seq(T), NEW q \in Seq(T)
  PROVE  r \o s \o q = r \o (s \o q)
  OBVIOUS

LEMMA TaggedType ==
  ASSUME NEW found \in Seq(Place), at \in Nat
  PROVE  Tagged(found) \in Seq(Error) /\ Len(Tagged(found)) = Len(found)
<1>1. DOMAIN found = 1..Len(found) /\ Len(found) \in Nat
      /\ \A k \in 1..Len(found) : found[k] \in Place
  OBVIOUS
<1> DEFINE tag(k) == [item |-> at, loc |-> found[k]]
<1>2. Tagged(found) = [k \in 1..Len(found) |-> tag(k)] BY <1>1 DEF Tagged
<1>3. \A k \in 1..Len(found) : tag(k) \in Error BY <1>1 DEF Error
<1> HIDE DEF tag
<1> QED BY <1>1, <1>2, <1>3

LEMMA TaggedJoins ==
  ASSUME NEW s \in Seq(Place), NEW q \in Seq(Place), at \in Nat
  PROVE  Tagged(s \o q) = Tagged(s) \o Tagged(q)
<1> DEFINE tag(l) == [item |-> at, loc |-> l]
<1>1. \A r : Tagged(r) = [k \in DOMAIN r |-> tag(r[k])] BY DEF Tagged
<1> HIDE DEF tag
<1>2. /\ Len(s) \in Nat /\ Len(q) \in Nat /\ Len(s \o q) = Len(s) + Len(q)
      /\ s \o q \in Seq(Place)
      /\ \A k \in 1..(Len(s) + Len(q)) :
           (s \o q)[k] = IF k <= Len(s) THEN s[k] ELSE q[k - Len(s)]
  OBVIOUS
<1>3. /\ Tagged(s) \in Seq(Error) /\ Len(Tagged(s)) = Len(s)
      /\ Tagged(q) \in Seq(Error) /\ Len(Tagged(q)) = Len(q)
      /\ Tagged(s \o q) \in Seq(Error) /\ Len(Tagged(s \o q)) = Len(s) + Len(q)
  BY <1>2, TaggedType
<1>4. \A k \in 1..(Len(s) + Len(q)) : Tagged(s \o q)[k] = tag((s \o q)[k])
  <2> DEFINE r == s \o q
  <2>1. r \in Seq(Place) /\ Len(r) = Len(s) + Len(q) BY <1>2
  <2> HIDE DEF r
  <2>2. DOMAIN r = 1..(Len(s) + Len(q)) BY <2>1
  <2>3. Tagged(r) = [k \in DOMAIN r |-> tag(r[k])] BY <1>1
  <2>4. \A k \in 1..(Len(s) + Len(q)) : Tagged(r)[k] = tag(r[k]) BY <2>2, <2>3
  <2> QED BY <2>4 DEF r
<1>5. /\ \A k \in 1..Len(s) : Tagged(s)[k] = tag(s[k])
      /\ \A k \in 1..Len(q) : Tagged(q)[k] = tag(q[k])
  BY <1>1
<1> DEFINE a == Tagged(s) b == Tagged(q) c == Tagged(s \o q)
<1>6. /\ a \in Seq(Error) /\ b \in Seq(Error) /\ c \in Seq(Error)
      /\ Len(a) = Len(s) /\ Len(b) = Len(q) /\ Len(c) = Len(s) + Len(q)
  BY <1>3
<1>7. \A k \in 1..(Len(s) + Len(q)) : c[k] = IF k <= Len(s) THEN a[k] ELSE b[k - Len(s)]
  <2> SUFFICES ASSUME NEW k \in 1..(Len(s) + Len(q))
               PROVE  c[k] = IF k <= Len(s) THEN a[k] ELSE b[k - Len(s)]
    OBVIOUS
  <2>1. CASE k <= Len(s) BY <1>2, <1>4, <1>5, <2>1
  <2>2. CASE ~(k <= Len(s))
    <3>1. k - Len(s) \in 1..Len(q) BY <1>2, <2>2
    <3> QED BY <1>2, <1>4, <1>5, <2>2, <3>1
  <2> QED BY <2>1, <2>2
<1> HIDE DEF a, b, c
<1>8. c = a \o b
  <2>1. /\ Len(c) = Len(a) + Len(b)
        /\ \A k \in 1..(Len(a) + Len(b)) : c[k] = IF k <= Len(a) THEN a[k] ELSE b[k - Len(a)]
    BY <1>6, <1>7
  <2>2. a \in Seq(Error) /\ b \in Seq(Error) /\ c \in Seq(Error) BY <1>6
  <2> QED BY <2>1, <2>2, IsJoin, Zenon
<1> QED BY <1>8 DEF a, b, c

\* The errors found in node `at` go to the Context.
LEMMA ContextGrows ==
  ASSUME context \in Seq(Error), at \in Nat, NEW found \in Seq(Place), Adds(found)
  PROVE  /\ context' \in Seq(Error)
         /\ \A k \in DOMAIN context' :
              \/ k \in DOMAIN context /\ context'[k] = context[k]
              \/ /\ k \notin DOMAIN context
                 /\ k - Len(context) \in DOMAIN found
                 /\ context'[k].item = at /\ context'[k].loc = found[k - Len(context)]
         /\ Range(context) \subseteq Range(context')
         /\ Blamed' = Blamed \cup Added(found)
<1> DEFINE tag(k) == [item |-> at, loc |-> found[k]]
<1>1. /\ Tagged(found) \in Seq(Error) /\ Len(Tagged(found)) = Len(found)
      /\ \A k \in 1..Len(found) : Tagged(found)[k] = tag(k)
  <2>1. DOMAIN found = 1..Len(found) /\ Len(found) \in Nat
        /\ \A k \in 1..Len(found) : found[k] \in Place
    OBVIOUS
  <2>2. Tagged(found) = [k \in 1..Len(found) |-> tag(k)] BY <2>1 DEF Tagged
  <2>3. \A k \in 1..Len(found) : tag(k) \in Error BY <2>1 DEF Error
  <2> HIDE DEF tag
  <2> QED BY <2>1, <2>2, <2>3
<1>2. /\ context' \in Seq(Error) /\ Len(context') = Len(context) + Len(found)
      /\ Len(context) \in Nat /\ Len(found) \in Nat
      /\ \A k \in 1..Len(context) : context'[k] = context[k]
      /\ \A k \in 1..Len(found) : context'[Len(context) + k] = tag(k)
  <2> HIDE DEF tag
  <2>1. context' = context \o Tagged(found) BY DEF Adds
  <2>2. /\ context' \in Seq(Error) /\ Len(context') = Len(context) + Len(Tagged(found))
        /\ Len(context) \in Nat /\ Len(Tagged(found)) \in Nat
        /\ \A k \in 1..Len(context) : context'[k] = context[k]
        /\ \A k \in 1..Len(Tagged(found)) : context'[Len(context) + k] = Tagged(found)[k]
    <3> DEFINE q == Tagged(found)
    <3>1. q \in Seq(Error) /\ context' = context \o q BY <1>1, <2>1
    <3> HIDE DEF q
    <3>2. \A r : r = context \o q =>
            /\ r \in Seq(Error) /\ Len(r) = Len(context) + Len(q)
            /\ Len(context) \in Nat /\ Len(q) \in Nat
            /\ \A k \in 1..Len(context) : r[k] = context[k]
            /\ \A k \in 1..Len(q) : r[Len(context) + k] = q[k]
      BY <3>1, Concatenated
    <3> QED BY <3>1, <3>2 DEF q
  <2> QED BY <1>1, <2>2
<1>3. /\ DOMAIN context = 1..Len(context) /\ DOMAIN found = 1..Len(found)
      /\ DOMAIN context' = 1..(Len(context) + Len(found))
  BY <1>2
<1>4. \A k : tag(k).item = at /\ tag(k).loc = found[k] OBVIOUS
<1> HIDE DEF tag
<1>5. ASSUME NEW k \in DOMAIN context', k \notin DOMAIN context
      PROVE  /\ k - Len(context) \in DOMAIN found
             /\ context'[k].item = at /\ context'[k].loc = found[k - Len(context)]
  <2>1. k - Len(context) \in 1..Len(found) /\ k = Len(context) + (k - Len(context))
    BY <1>2, <1>3, <1>5
  <2>2. context'[k] = tag(k - Len(context)) BY <1>2, <2>1
  <2> QED BY <1>3, <1>4, <2>1, <2>2
<1>6. Range(context) \subseteq Range(context')
  <2>1. ASSUME NEW k \in DOMAIN context PROVE context[k] \in Range(context')
    <3>1. k \in DOMAIN context' /\ context'[k] = context[k] BY <1>2, <1>3
    <3> QED BY <3>1 DEF Range
  <2> QED BY <2>1 DEF Range
<1>7. Blamed' = Blamed \cup Added(found)
  <2>1. \A x : x \in Blamed' <=> \E k \in DOMAIN context' : x = context'[k].item
    BY DEF Blamed, Range
  <2>2. \A x : x \in Blamed <=> \E k \in DOMAIN context : x = context[k].item
    BY DEF Blamed, Range
  <2>3. ASSUME NEW x \in Blamed' PROVE x \in Blamed \cup Added(found)
    <3>1. PICK k \in DOMAIN context' : x = context'[k].item BY <2>1
    <3>2. CASE k \in DOMAIN context BY <1>2, <1>3, <2>2, <3>1, <3>2
    <3>3. CASE k \notin DOMAIN context
      <4>1. k - Len(context) \in DOMAIN found /\ x = at BY <1>5, <3>1, <3>3
      <4>2. found # <<>> BY <4>1
      <4> QED BY <4>1, <4>2 DEF Added
    <3> QED BY <3>2, <3>3
  <2>4. Blamed \subseteq Blamed' BY <1>6 DEF Blamed
  <2>5. found # <<>> => at \in Blamed'
    <3> SUFFICES ASSUME found # <<>> PROVE at \in Blamed'
      OBVIOUS
    <3>1. 1 \in 1..Len(found) OBVIOUS
    <3>2. Len(context) + 1 \in DOMAIN context' /\ context'[Len(context) + 1] = tag(1)
      BY <1>2, <1>3, <3>1
    <3> QED BY <1>4, <2>1, <3>2
  <2> QED BY <2>3, <2>4, <2>5 DEF Added
<1>8. \A k \in DOMAIN context : context'[k] = context[k] BY <1>2, <1>3
<1> QED BY <1>2, <1>5, <1>6, <1>7, <1>8

\* The loop goes on: what was found in the node are its faults in order, and an
\* element was added unless the node is faulty, with what belongs in it.
LEMMA NodeDone ==
  ASSUME PInv, at \in DOMAIN doc.nodes, stage \in {"next", "call"},
         NEW found \in Seq(Place), Adds(found),
         \A g, h \in DOMAIN found : g < h => Call!NotAfter(found[g], found[h]),
         found = <<>> <=> ~Faulty(doc, at),
         NEW values,
         \/ list' = Append(list, [at |-> at, values |-> values])
         \/ list' = list /\ found # <<>>,
         ~Faulty(doc, at) => \A c \in CallsFor(doc, at) : AsExpected(c, values),
         stage' = "next", at' = at + 1, UNCHANGED <<doc, outcome>>
  PROVE  PInv'
<1>1. /\ doc \in Doc /\ WellFormedDoc(doc) /\ TypeOK /\ Loop
      /\ context \in Seq(Error) /\ list \in Seq(Range(list))
  BY DEF PInv, TypeOK, Loop
<1>2. /\ at \in Nat \ {0} /\ Len(doc.nodes) \in Nat /\ at <= Len(doc.nodes)
      /\ DOMAIN doc.nodes = 1..Len(doc.nodes)
  BY <1>1, DocParts DEF Doc
<1>3. /\ context' \in Seq(Error)
      /\ \A k \in DOMAIN context' :
           \/ k \in DOMAIN context /\ context'[k] = context[k]
           \/ /\ k \notin DOMAIN context
              /\ k - Len(context) \in DOMAIN found
              /\ context'[k].item = at /\ context'[k].loc = found[k - Len(context)]
      /\ Range(context) \subseteq Range(context')
      /\ Blamed' = Blamed \cup Added(found)
  BY <1>1, <1>2, ContextGrows
<1>5. /\ list' \in Seq(Range(list'))
      /\ \A k \in DOMAIN list' :
           \/ k \in DOMAIN list /\ list'[k] = list[k]
           \/ k = Len(list) + 1 /\ list'[k] = [at |-> at, values |-> values]
      /\ found = <<>> => Len(list') = Len(list) + 1
  <2> DEFINE e == [at |-> at, values |-> values]
  <2>1. CASE list' = Append(list, e)
    <3>1. list \in Seq(Range(list) \cup {e}) BY <1>1
    <3>2. /\ Len(list') = Len(list) + 1 /\ Len(list) \in Nat
          /\ list' \in Seq(Range(list) \cup {e})
          /\ \A k \in 1..Len(list) : list'[k] = list[k]
          /\ list'[Len(list) + 1] = e
      BY <2>1, <3>1
    <3>3. \A k \in DOMAIN list' : list'[k] \in Range(list') BY DEF Range
    <3>4. list' \in Seq(Range(list')) BY <3>2, <3>3
    <3>5. \A k \in DOMAIN list' : k \in 1..Len(list) \/ k = Len(list) + 1 BY <3>2
    <3> HIDE DEF e
    <3> QED BY <1>1, <3>2, <3>4, <3>5 DEF e
  <2>2. CASE list' = list /\ found # <<>> BY <1>1, <2>2
  <2> QED BY <2>1, <2>2
<1>6. Loop'
  <2>1. Blamed' = {k \in FaultyNodes(doc) : k < at + 1}
    <3>1. Blamed = {k \in FaultyNodes(doc) : k < at} BY <1>1 DEF Loop
    <3>2. FaultyNodes(doc) \subseteq Nat BY <1>2 DEF FaultyNodes
    <3>3. at \in FaultyNodes(doc) <=> found # <<>> BY <1>2 DEF FaultyNodes
    <3>4. \A k \in Nat : k < at + 1 <=> k < at \/ k = at BY <1>2
    <3> QED BY <1>3, <3>1, <3>2, <3>3, <3>4 DEF Added
  <2>2. \A k \in DOMAIN context' : context'[k].item < at + 1
    <3> SUFFICES ASSUME NEW k \in DOMAIN context' PROVE context'[k].item < at + 1
      OBVIOUS
    <3>1. CASE k \in DOMAIN context /\ context'[k] = context[k]
      <4>1. context[k].item < at /\ context[k] \in Error BY <1>1, <3>1 DEF Loop
      <4> QED BY <1>2, <3>1, <4>1 DEF Error
    <3>2. CASE k \notin DOMAIN context BY <1>2, <1>3, <3>2
    <3> QED BY <1>3, <3>1, <3>2
  <2>3. \A k \in DOMAIN list' : list'[k].at < at + 1
    <3> SUFFICES ASSUME NEW k \in DOMAIN list' PROVE list'[k].at < at + 1
      OBVIOUS
    <3>1. CASE k \in DOMAIN list /\ list'[k] = list[k]
      <4>1. list[k].at < at /\ list[k] \in Range(list) BY <1>1, <3>1 DEF Loop, Range
      <4>2. list[k].at \in Nat BY <1>1, <1>2, <4>1 DEF TypeOK
      <4> QED BY <1>2, <3>1, <4>1, <4>2
    <3>2. CASE list'[k] = [at |-> at, values |-> values] BY <1>2, <3>2
    <3> QED BY <1>5, <3>1, <3>2
  <2>4. Blamed' = {} => Complete'
    <3> SUFFICES ASSUME Blamed' = {} PROVE Complete'
      OBVIOUS
    <3>1. Blamed = {} /\ found = <<>> BY <1>3 DEF Added
    <3>2. Len(list) = at - 1 /\ \A k \in DOMAIN list : list[k].at = k
      BY <1>1, <3>1 DEF Loop, Complete
    <3>3. Len(list') = at' - 1 BY <1>2, <1>5, <3>1, <3>2
    <3>4. ASSUME NEW k \in DOMAIN list' PROVE list'[k].at = k
      <4>1. CASE k \in DOMAIN list /\ list'[k] = list[k] BY <3>2, <4>1
      <4>2. CASE k = Len(list) + 1 /\ list'[k] = [at |-> at, values |-> values]
        <5>1. k = at BY <1>2, <3>2, <4>2
        <5> QED BY <4>2, <5>1
      <4> QED BY <1>5, <4>1, <4>2
    <3> QED BY <3>3, <3>4 DEF Complete
  <2>5. doc.readable /\ outcome = "none" BY <1>1 DEF Loop
  <2> QED BY <1>3, <1>5, <2>1, <2>2, <2>3, <2>4, <2>5 DEF Loop, FaultyNodes
<1>7. TypeOK'
  <2>1. \A e \in Range(context') : e.item \in DOMAIN doc.nodes /\ e.loc \in Place
    <3> SUFFICES ASSUME NEW k \in DOMAIN context'
                 PROVE  context'[k].item \in DOMAIN doc.nodes /\ context'[k].loc \in Place
      BY DEF Range
    <3>1. CASE k \in DOMAIN context /\ context'[k] = context[k]
      <4>1. context[k] \in Range(context) BY <3>1 DEF Range
      <4> QED BY <1>1, <3>1, <4>1 DEF TypeOK
    <3>2. CASE k \notin DOMAIN context
      <4>1. k - Len(context) \in DOMAIN found 
           /\ context'[k].item = at /\ context'[k].loc = found[k - Len(context)]
        BY <1>3, <3>2
      <4> QED BY <4>1
    <3> QED BY <1>3, <3>1, <3>2
  <2>2. \A e \in Range(list') : e.at \in DOMAIN doc.nodes
    <3> SUFFICES ASSUME NEW k \in DOMAIN list' PROVE list'[k].at \in DOMAIN doc.nodes
      BY DEF Range
    <3>1. k \in DOMAIN list => list[k] \in Range(list) BY DEF Range
    <3> QED BY <1>1, <1>5, <3>1 DEF TypeOK
  <2>3. at' \in 1..(Len(doc.nodes) + 1) BY <1>2
  <2> QED BY <1>1, <2>1, <2>2, <2>3 DEF TypeOK
<1>8. ErrorsInDecodingOrder'
  <2> SUFFICES ASSUME NEW g \in DOMAIN context', NEW h \in DOMAIN context', g < h
               PROVE  \/ context'[g].item < context'[h].item
                      \/ /\ context'[g].item = context'[h].item
                         /\ Call!NotAfter(context'[g].loc, context'[h].loc)
    BY DEF ErrorsInDecodingOrder
  <2>1. /\ DOMAIN context = 1..Len(context) /\ Len(context) \in Nat
        /\ g \in Nat \ {0} /\ h \in Nat \ {0}
    BY <1>1, <1>3
  <2>2. CASE g \in DOMAIN context /\ h \in DOMAIN context
    BY <1>3, <2>2 DEF PInv, ErrorsInDecodingOrder
  <2>3. CASE g \in DOMAIN context /\ h \notin DOMAIN context
    <3>1. context'[g] = context[g] /\ context'[h].item = at BY <1>3, <2>3
    <3> QED BY <1>1, <2>3, <3>1 DEF Loop
  <2>4. CASE g \notin DOMAIN context /\ h \notin DOMAIN context
    <3>1. g - Len(context) < h - Len(context) BY <2>1
    <3>2. /\ g - Len(context) \in DOMAIN found /\ h - Len(context) \in DOMAIN found
          /\ context'[g].item = at /\ context'[g].loc = found[g - Len(context)]
          /\ context'[h].item = at /\ context'[h].loc = found[h - Len(context)]
      BY <1>3, <2>4
    <3> QED BY <3>1, <3>2
  <2>5. CASE g \notin DOMAIN context /\ h \in DOMAIN context BY <2>1, <2>5
  <2> QED BY <2>2, <2>3, <2>4, <2>5
<1>9. ConformingNodesAreIndependent'
  <2> SUFFICES ASSUME NEW k \in DOMAIN list', ~Faulty(doc, list'[k].at),
                      NEW c \in CallsFor(doc, list'[k].at)
               PROVE  AsExpected(c, list'[k].values)
    BY DEF ConformingNodesAreIndependent, Range
  <2>1. CASE k \in DOMAIN list /\ list'[k] = list[k]
    BY <2>1 DEF PInv, ConformingNodesAreIndependent, Range
  <2>2. CASE list'[k] = [at |-> at, values |-> values] BY <2>2
  <2> QED BY <1>5, <2>1, <2>2
<1>10. CallRuns' BY DEF CallRuns
<1> QED BY <1>6, <1>7, <1>8, <1>9, <1>10 DEF PInv

LEMMA SameRank == \A l \in Place : Call!NotAfter(l, l)
  BY DEF Call!NotAfter, Place

\* Nothing is called for the node, and it is reported n times.
LEMMA ElementKeeps ==
  ASSUME PInv, Turn, NEW n \in Nat, Element(n),
         n = 0 <=> ~Faulty(doc, at), CallsFor(doc, at) = {}
  PROVE  PInv'
<1> DEFINE name  == Loc("name", 0)
           found == [k \in 1..n |-> name]
<1>1. name \in Place BY DEF Loc, Place, Sections
<1>2. found \in Seq(Place) /\ DOMAIN found = 1..n /\ (found = <<>> <=> n = 0)
  <2> HIDE DEF name
  <2>1. found \in Seq(Place) /\ DOMAIN found = 1..n /\ Len(found) = n BY <1>1
  <2> QED BY <2>1
<1>3. Adds(found)
  <2>1. Tagged(found) = [k \in 1..n |-> [item |-> at, loc |-> name]] BY <1>2 DEF Tagged
  <2> QED BY <2>1 DEF Element, Adds
<1>4. \A g, h \in DOMAIN found : g < h => Call!NotAfter(found[g], found[h])
  <2> HIDE DEF name
  <2> QED BY <1>1, SameRank
<1>5. /\ list' = Append(list, [at |-> at, values |-> <<>>])
      /\ stage' = "next" /\ at' = at + 1 /\ UNCHANGED <<doc, outcome>>
      /\ at \in DOMAIN doc.nodes /\ stage = "next"
  BY DEF Element, Turn
<1> HIDE DEF found
<1> QED BY <1>2, <1>3, <1>4, <1>5, NodeDone

LEMMA UnknownKeeps == ASSUME PInv, UnknownVariant PROVE PInv'
<1> DEFINE name  == Loc("name", 0)
           found == <<name>>
<1>1. name \in Place BY DEF Loc, Place, Sections
<1>2. found \in Seq(Place) /\ found # <<>> /\ DOMAIN found = {1} /\ found[1] = name
  <2> HIDE DEF name
  <2> QED BY <1>1
<1>3. Adds(found)
  <2> DEFINE e == [item |-> at, loc |-> name]
  <2>1. Tagged(found) = [k \in {1} |-> e] BY <1>2 DEF Tagged
  <2>2. context' = Append(context, e) BY DEF UnknownVariant
  <2>3. context \in Seq(Error) /\ e \in Error
    BY <1>1 DEF PInv, Loop, TypeOK, Error
  <2> HIDE DEF e
  <2>4. [k \in {1} |-> e] = <<e>> OBVIOUS
  <2>5. context' = context \o <<e>> BY <2>2, <2>3
  <2> QED BY <2>1, <2>4, <2>5 DEF Adds
<1>4. \A g, h \in DOMAIN found : g < h => Call!NotAfter(found[g], found[h])
  BY <1>2
<1>5. /\ list' = list /\ stage' = "next" /\ at' = at + 1 /\ UNCHANGED <<doc, outcome>>
      /\ at \in DOMAIN doc.nodes /\ stage = "next"
  BY DEF UnknownVariant, Turn
<1>6. Faulty(doc, at) BY DEF UnknownVariant, Faulty, Turn, Here
<1> HIDE DEF found
<1> QED BY <1>2, <1>3, <1>4, <1>5, <1>6, NodeDone

\* What a call that has ended amounts to.
LEMMA CallsResult ==
  ASSUME PInv, stage = "call", phase = "done"
  PROVE  /\ errs \o raised \in Seq(Place)
         /\ errs \in Seq(Place) /\ raised \in Seq(Place)
         /\ \A g, h \in DOMAIN (errs \o raised) :
              g < h => Call!NotAfter((errs \o raised)[g], (errs \o raised)[h])
         /\ errs \o raised = <<>> <=> ~Faulty(doc, at)
         /\ ~Faulty(doc, at) => \A c \in CallsFor(doc, at) : AsExpected(c, vals)
<1>1. /\ doc \in Doc /\ WellFormedDoc(doc) /\ at \in DOMAIN doc.nodes
      /\ case \in CallsFor(doc, at) /\ Decoder!CInv /\ Decoder!ErrorsInDecodingOrder
  BY DEF PInv, TypeOK, CallRuns, Loop
<1>2. errs \in Seq(Place) /\ raised \in Seq(Place)
  BY <1>1, SamePlaces DEF Decoder!CInv, Decoder!TypeOK
<1>3. errs \o raised \in Seq(Place) BY <1>2
<1>4. \A g, h \in DOMAIN (errs \o raised) :
        g < h => Call!NotAfter((errs \o raised)[g], (errs \o raised)[h])
  BY <1>1, SameOrder DEF Decoder!ErrorsInDecodingOrder
<1>5. /\ \A c \in CallsFor(doc, at) : c = case
      /\ Faulty(doc, at) <=> Faults(case) # {}
  BY <1>1, CallsAreCases
<1>6. Decoder!Faults(case) = Faults(case) BY SameFaults
<1>7. errs \o raised = <<>> <=> errs = <<>> /\ raised = <<>>
  <2>1. Len(errs \o raised) = Len(errs) + Len(raised) /\ Len(errs) \in Nat /\ Len(raised) \in Nat
    BY <1>2
  <2>2. \A s \in Seq(Place) : s = <<>> <=> Len(s) = 0 OBVIOUS
  <2> QED BY <1>2, <1>3, <2>1, <2>2
<1>8. CASE raised = <<>>
  <2>1. /\ Range(errs) = Faults(case)
        /\ errs = <<>> => Decoder!AsExpected(case, vals)
    BY <1>1, <1>6, <1>8, Decoder!EndIsComplete DEF Decoder!Range, Range
  <2>2. errs = <<>> <=> Range(errs) = {}
    <3>1. errs # <<>> => 1 \in DOMAIN errs BY <1>2
    <3> QED BY <3>1 DEF Range
  <2> QED BY <1>2, <1>3, <1>4, <1>5, <1>7, <1>8, <2>1, <2>2, SameExpected
<1>9. CASE raised # <<>>
  <2>1. 1 \in DOMAIN raised BY <1>2, <1>9
  <2>2. raised[1] \in Decoder!Faults(case)
    BY <1>1, <2>1 DEF Decoder!CInv, Decoder!Blameless, Decoder!Reported, Decoder!Range, Range
  <2> QED BY <1>2, <1>3, <1>4, <1>5, <1>6, <1>7, <1>9, <2>2
<1> QED BY <1>8, <1>9

LEMMA ReturnKeeps == ASSUME PInv, Return PROVE PInv'
<1> DEFINE found == errs \o raised
<1>1. /\ stage = "call" /\ phase = "done" /\ stage' = "next" /\ at' = at + 1
      /\ UNCHANGED <<doc, outcome>> /\ at \in DOMAIN doc.nodes
      /\ doc \in Doc /\ context \in Seq(Error)
  BY DEF Return, PInv, Loop, TypeOK
<1>2. /\ found \in Seq(Place) /\ errs \in Seq(Place) /\ raised \in Seq(Place)
      /\ \A g, h \in DOMAIN found : g < h => Call!NotAfter(found[g], found[h])
      /\ found = <<>> <=> ~Faulty(doc, at)
      /\ ~Faulty(doc, at) => \A c \in CallsFor(doc, at) : AsExpected(c, vals)
  BY <1>1, CallsResult
<1>3. Adds(found)
  <2>1. context' = context \o Tagged(errs) \o Tagged(raised) BY DEF Return
  <2>2. at \in Nat BY <1>1, DocParts
  <2>3. Tagged(errs) \in Seq(Error) /\ Tagged(raised) \in Seq(Error)
    BY <1>2, <2>2, TaggedType
  <2>4. context' = context \o (Tagged(errs) \o Tagged(raised))
    BY <1>1, <2>1, <2>3, Associative
  <2>5. Tagged(found) = Tagged(errs) \o Tagged(raised)
    BY <1>2, <2>2, TaggedJoins
  <2> QED BY <2>4, <2>5 DEF Adds
<1>4. raised # <<>> => found # <<>>
  <2>1. raised # <<>> => Len(errs \o raised) > 0 BY <1>2
  <2> QED BY <2>1
<1>5. \/ list' = Append(list, [at |-> at, values |-> vals])
      \/ list' = list /\ found # <<>>
  BY <1>4 DEF Return
<1> HIDE DEF found
<1> QED BY <1>1, <1>2, <1>3, <1>5, NodeDone

LEMMA InCallKeeps == ASSUME PInv, InCall PROVE PInv'
<1>1. /\ Decoder!Next /\ Decoder!CInv /\ Decoder!ErrorsAreBehind
      /\ Decoder!ErrorsInDecodingOrder /\ case \in CallsFor(doc, at)
      /\ UNCHANGED <<doc, stage, at, context, list, outcome>>
  BY SameStep DEF InCall, PInv, CallRuns
<1>2. Decoder!CInv' BY <1>1, Decoder!CStep
<1>3. Decoder!ErrorsAreBehind' /\ Decoder!ErrorsInDecodingOrder'
  BY <1>1, Decoder!OrderStep DEF Decoder!CInv
<1>4. case' = case BY <1>1, Decoder!CaseStays
<1>5. Call!TypeOK'
  <2>1. (Decoder!TypeOK <=> Call!TypeOK)' BY SameTypeOK, PTL
  <2> QED BY <1>2, <2>1 DEF Decoder!CInv
<1>6. CallRuns' BY <1>1, <1>2, <1>3, <1>4 DEF CallRuns
<1>7. TypeOK' BY <1>1, <1>4, <1>5 DEF PInv, TypeOK
<1>8. Loop' BY <1>1 DEF PInv, Loop, Blamed, Complete
<1> QED BY <1>1, <1>6, <1>7, <1>8
    DEF PInv, ErrorsInDecodingOrder, ConformingNodesAreIndependent

\* The arm that matches decides whether there is a call, and whether the node
\* is faulty.
LEMMA ArmDecides ==
  ASSUME NEW dd \in Doc, NEW k \in DOMAIN dd.nodes, dd.form.kind = "Enum",
         NEW i \in DOMAIN dd.form.variants, IsVariant(dd.form, i, dd.nodes[k].name)
  PROVE  LET v == dd.form.variants[i]
             n == dd.nodes[k]
         IN /\ Faulty(dd, k) <=> FaultyVariant(v, n)
            /\ v.kind = "Unit" => CallsFor(dd, k) = {}
            /\ v.kind = "NestedOption" /\ Blank(n) => CallsFor(dd, k) = {}
            /\ v.kind = "Nested" => CallOf("node", v.schema, n) \in CallsFor(dd, k)
            /\ v.kind = "NestedOption" /\ ~Blank(n) =>
                 CallOf("node", v.schema, n) \in CallsFor(dd, k)
            /\ v.kind = "Tuple" => CallOf("variant", v.schema, n) \in CallsFor(dd, k)
<1> DEFINE n == dd.nodes[k]
           f == dd.form
           v == f.variants[i]
           inner(kind, schema) == CASE kind = "Unit"         -> {}
                                    [] kind = "Nested"       -> {CallOf("node", schema, n)}
                                    [] kind = "NestedOption" -> IF Blank(n) THEN {} ELSE {CallOf("node", schema, n)}
                                    [] kind = "Tuple"        -> {CallOf("variant", schema, n)}
<1>1. \A j : IsVariant(f, j, n.name) => j = i BY OneVariant
<1>2. CallsFor(dd, k) = UNION {inner(f.variants[j].kind, f.variants[j].schema) :
                                 j \in {j \in DOMAIN f.variants : IsVariant(f, j, n.name)}}
  BY DEF CallsFor
<1> HIDE DEF inner
<1>3. CallsFor(dd, k) = inner(v.kind, v.schema) BY <1>1, <1>2
<1>4. Faulty(dd, k) <=> FaultyVariant(v, n) BY <1>1 DEF Faulty
<1> QED BY <1>3, <1>4 DEF inner

LEMMA StructKeeps == ASSUME PInv, StartStruct PROVE PInv'
<1>1. Turn /\ Start(StructEntry(doc), doc.form.schema) /\ doc.form.kind = "Struct"
  BY DEF StartStruct
<1>2. CallOf(StructEntry(doc), doc.form.schema, Here) \in CallsFor(doc, at)
  BY <1>1 DEF CallsFor, Here
<1> QED BY <1>1, <1>2, StartKeeps

LEMMA NewTypeKeeps == ASSUME PInv, NewType PROVE PInv'
<1>1. Turn /\ doc.form.kind = "NewType" BY DEF NewType
<1>2. CASE Blank(Here)
  <2>1. Element(0) BY <1>2 DEF NewType
  <2>2. ~Faulty(doc, at) /\ CallsFor(doc, at) = {}
    BY <1>1, <1>2 DEF Faulty, CallsFor, Here
  <2> QED BY <1>1, <2>1, <2>2, ElementKeeps
<1>3. CASE ~Blank(Here)
  <2>1. Start("node", doc.form.schema) BY <1>3 DEF NewType
  <2>2. CallOf("node", doc.form.schema, Here) \in CallsFor(doc, at)
    BY <1>1, <1>3 DEF CallsFor, Here
  <2> QED BY <1>1, <2>1, <2>2, StartKeeps
<1> QED BY <1>2, <1>3

\* What the arms have in common.
LEMMA ArmTaken ==
  ASSUME PInv, NEW i, NEW kinds, Arm(i, kinds)
  PROVE  /\ Turn /\ doc \in Doc /\ at \in DOMAIN doc.nodes /\ doc.form.kind = "Enum"
         /\ i \in DOMAIN doc.form.variants /\ IsVariant(doc.form, i, doc.nodes[at].name)
         /\ doc.form.variants[i].kind \in kinds
         /\ doc.nodes[at] \in DocNode
<1>1. /\ Turn /\ doc \in Doc /\ at \in DOMAIN doc.nodes /\ doc.form.kind = "Enum"
      /\ IsVariant(doc.form, i, doc.nodes[at].name) /\ doc.form.variants[i].kind \in kinds
  BY DEF Arm, Turn, Here, PInv, TypeOK
<1>2. doc.nodes[at] \in DocNode BY <1>1, DocParts
<1> QED BY <1>1, <1>2 DEF IsVariant

LEMMA ExtrasCount == ASSUME NEW n \in DocNode PROVE Extras(n) \in Nat
<1>1. n.node \in Node BY DEF DocNode
<1>2. /\ n.node.args \in Seq(Value) /\ n.node.props \in Seq(NodeProp)
      /\ n.node.children \in Seq(NodeChild)
  BY <1>1 DEF Node
<1>3. \A T : \A s \in Seq(T) : Len(s) \in Nat OBVIOUS
<1>4. Len(n.node.args) \in Nat /\ Len(n.node.props) \in Nat /\ Len(n.node.children) \in Nat
  BY <1>2, <1>3
<1>5. \A a, b, c \in Nat : a + b + c \in Nat OBVIOUS
<1> QED BY <1>4, <1>5, Zenon DEF Extras

LEMMA UnitKeeps == ASSUME PInv, UnitVariant PROVE PInv'
<1>1. PICK i \in DOMAIN doc.form.variants : Arm(i, {"Unit"}) /\ Element(Extras(Here))
  BY DEF UnitVariant
<1> DEFINE n == doc.nodes[at]
<1>2. /\ Turn /\ doc \in Doc /\ at \in DOMAIN doc.nodes /\ doc.form.kind = "Enum"
      /\ IsVariant(doc.form, i, n.name) /\ doc.form.variants[i].kind = "Unit"
      /\ n \in DocNode
  BY <1>1, ArmTaken
<1>3. Extras(n) \in Nat BY <1>2, ExtrasCount
<1>4. /\ Faulty(doc, at) <=> FaultyVariant(doc.form.variants[i], n)
      /\ CallsFor(doc, at) = {}
  BY <1>2, ArmDecides
<1>5. FaultyVariant(doc.form.variants[i], n) <=> Extras(n) > 0 BY <1>2 DEF FaultyVariant
<1>6. Extras(n) = 0 <=> ~Faulty(doc, at) BY <1>3, <1>4, <1>5
<1> QED BY <1>1, <1>2, <1>3, <1>4, <1>6, ElementKeeps DEF Here

LEMMA BlankKeeps == ASSUME PInv, BlankVariant PROVE PInv'
<1>1. PICK i \in DOMAIN doc.form.variants :
        Arm(i, {"NestedOption"}) /\ Blank(Here) /\ Element(0)
  BY DEF BlankVariant
<1> DEFINE n == doc.nodes[at]
<1>2. /\ Turn /\ doc \in Doc /\ at \in DOMAIN doc.nodes /\ doc.form.kind = "Enum"
      /\ IsVariant(doc.form, i, n.name) /\ doc.form.variants[i].kind = "NestedOption"
      /\ Blank(n)
  BY <1>1, ArmTaken DEF Here
<1>3. /\ Faulty(doc, at) <=> FaultyVariant(doc.form.variants[i], n)
      /\ CallsFor(doc, at) = {}
  BY <1>2, ArmDecides
<1>4. ~Faulty(doc, at) BY <1>2, <1>3 DEF FaultyVariant
<1> QED BY <1>1, <1>2, <1>3, <1>4, ElementKeeps

LEMMA NestedKeeps == ASSUME PInv, NestedVariant PROVE PInv'
<1>1. PICK i \in DOMAIN doc.form.variants :
        /\ Arm(i, {"Nested", "NestedOption"})
        /\ doc.form.variants[i].kind = "NestedOption" => ~Blank(Here)
        /\ Start("node", doc.form.variants[i].schema)
  BY DEF NestedVariant
<1>2. /\ Turn /\ doc \in Doc /\ at \in DOMAIN doc.nodes /\ doc.form.kind = "Enum"
      /\ IsVariant(doc.form, i, doc.nodes[at].name)
      /\ doc.form.variants[i].kind \in {"Nested", "NestedOption"}
  BY <1>1, ArmTaken
<1>3. CallOf("node", doc.form.variants[i].schema, Here) \in CallsFor(doc, at)
  BY <1>1, <1>2, ArmDecides DEF Here
<1> QED BY <1>1, <1>2, <1>3, StartKeeps

LEMMA TupleKeeps == ASSUME PInv, TupleVariant PROVE PInv'
<1>1. PICK i \in DOMAIN doc.form.variants :
        Arm(i, {"Tuple"}) /\ Start("variant", doc.form.variants[i].schema)
  BY DEF TupleVariant
<1>2. /\ Turn /\ doc \in Doc /\ at \in DOMAIN doc.nodes /\ doc.form.kind = "Enum"
      /\ IsVariant(doc.form, i, doc.nodes[at].name) /\ doc.form.variants[i].kind = "Tuple"
  BY <1>1, ArmTaken
<1>3. CallOf("variant", doc.form.variants[i].schema, Here) \in CallsFor(doc, at)
  BY <1>2, ArmDecides DEF Here
<1> QED BY <1>1, <1>2, <1>3, StartKeeps

\* The text is read, or parse returns: the list and the Context stay.
LEMMA EdgesKeep == ASSUME PInv, ReadText \/ Finish PROVE PInv'
<1>1. /\ UNCHANGED <<doc, at, context, list, call>> /\ stage \in {"read", "next"}
      /\ \/ stage' = "next" /\ UNCHANGED outcome /\ doc.readable
         \/ stage' = "done" /\ outcome' \in {"ok", "err"}
      /\ outcome' = "ok" /\ stage' = "done" => context = <<>>
  BY DEF ReadText, Finish
<1>2. TypeOK' BY <1>1 DEF PInv, TypeOK
<1>3. CallRuns' BY <1>1 DEF CallRuns
<1>4. Loop' BY <1>1 DEF PInv, Loop, Blamed, Complete
<1> QED BY <1>1, <1>2, <1>3, <1>4
    DEF PInv, ErrorsInDecodingOrder, ConformingNodesAreIndependent

LEMMA StutterKeeps == ASSUME PInv, UNCHANGED vars PROVE PInv'
<1>1. UNCHANGED <<doc, stage, at, context, list, outcome>> /\ UNCHANGED call BY DEF vars
<1>2. UNCHANGED Decoder!vars BY <1>1 DEF call, Decoder!vars
<1>3. UNCHANGED case BY <1>1 DEF call
<1>4. ASSUME stage = "call" PROVE TypeOK' /\ CallRuns'
  <2>1. Decoder!CInv' BY <1>2, <1>4, Decoder!CStep DEF PInv, CallRuns
  <2>2. Decoder!ErrorsAreBehind' /\ Decoder!ErrorsInDecodingOrder'
    <3>1. Decoder!ErrorsAreBehind /\ Decoder!ErrorsInDecodingOrder
      BY <1>4 DEF PInv, CallRuns
    <3>2. phase' = phase /\ pos' = pos /\ errs' = errs /\ raised' = raised
      BY <1>2 DEF Decoder!vars
    <3> QED BY <3>1, <3>2
        DEF Decoder!ErrorsAreBehind, Decoder!ErrorsInDecodingOrder, Decoder!Behind
  <2>3. Call!TypeOK'
    <3>1. (Decoder!TypeOK <=> Call!TypeOK)' BY SameTypeOK, PTL
    <3> QED BY <2>1, <3>1 DEF Decoder!CInv
  <2>4. TypeOK' BY <1>1, <1>3, <2>3 DEF PInv, TypeOK
  <2>5. CallRuns' BY <1>1, <1>3, <2>1, <2>2 DEF PInv, CallRuns
  <2> QED BY <2>4, <2>5
<1>5. ASSUME stage # "call" PROVE TypeOK' /\ CallRuns'
  <2>1. TypeOK' BY <1>1, <1>5 DEF PInv, TypeOK
  <2>2. CallRuns' BY <1>1, <1>5 DEF CallRuns
  <2> QED BY <2>1, <2>2
<1>6. Loop' BY <1>1 DEF PInv, Loop, Blamed, Complete
<1> QED BY <1>1, <1>4, <1>5, <1>6 DEF PInv, ErrorsInDecodingOrder, ConformingNodesAreIndependent

LEMMA PStep == ASSUME PInv, [Next]_vars PROVE PInv'
<1>1. CASE ReadText \/ Finish BY <1>1, EdgesKeep
<1>2. CASE StartStruct BY <1>2, StructKeeps
<1>3. CASE NewType BY <1>3, NewTypeKeeps
<1>4. CASE UnitVariant BY <1>4, UnitKeeps
<1>5. CASE BlankVariant BY <1>5, BlankKeeps
<1>6. CASE NestedVariant BY <1>6, NestedKeeps
<1>7. CASE TupleVariant BY <1>7, TupleKeeps
<1>8. CASE UnknownVariant BY <1>8, UnknownKeeps
<1>9. CASE InCall BY <1>9, InCallKeeps
<1>10. CASE Return BY <1>10, ReturnKeeps
<1>11. CASE UNCHANGED vars BY <1>11, StutterKeeps
<1> QED BY <1>1, <1>2, <1>3, <1>4, <1>5, <1>6, <1>7, <1>8, <1>9, <1>10, <1>11 DEF Next

-----------------------------------------------------------------------------
(***************************************************************************)
(* Theorems.                                                               *)
(***************************************************************************)

LEMMA Invariant == Spec => []PInv
<1>1. Init => PInv BY PInit
<1>2. PInv /\ [Next]_vars => PInv' BY PStep
<1> QED BY <1>1, <1>2, PTL DEF Spec

\* Whatever the document and the type, `at` stays within the nodes and one
\* behind, every error has a node and a place, and a running call is the one
\* that the node gets.
THEOREM TypeCorrect == Spec => []TypeOK
<1>1. PInv => TypeOK BY DEF PInv
<1> QED BY <1>1, Invariant, PTL

\* Whenever the loop of decode_children goes to the next node, the Context
\* names the faulty nodes so far and no other.
THEOREM FaultyNodesReported == Spec => []FaultyNodesAreReportedInTurn
<1>1. PInv => FaultyNodesAreReportedInTurn BY DEF PInv, Loop, FaultyNodesAreReportedInTurn
<1> QED BY <1>1, Invariant, PTL

\* The errors in the Context come node by node, and those of a node in the order
\* in which its decoder meets their places.
THEOREM ErrorsComeInOrder == Spec => []ErrorsInDecodingOrder
<1>1. PInv => ErrorsInDecodingOrder BY DEF PInv
<1> QED BY <1>1, Invariant, PTL

\* A node that conforms is decoded into the same values whatever the nodes
\* before it were.
THEOREM NodesAreIndependent == Spec => []ConformingNodesAreIndependent
<1>1. PInv => ConformingNodesAreIndependent BY DEF PInv
<1> QED BY <1>1, Invariant, PTL

-----------------------------------------------------------------------------
(***************************************************************************)
(* ParseContract speaks of the same documents.                             *)
(***************************************************************************)

LEMMA SameDocs ==
  /\ Contract!Doc = Doc
  /\ \A dd : Contract!WellFormedDoc(dd) <=> WellFormedDoc(dd)
<1>1. /\ Contract!Schema = Schema /\ Contract!Node = Node
  BY DEF Contract!Schema, Contract!Node, Contract!Arg, Contract!Prop,
         Contract!PartProp, Contract!Child, Contract!ChildMode, Contract!PartChild,
         Contract!NodeProp, Contract!NodeChild, Contract!Field, Contract!Value,
         Contract!Plain, Contract!Numeric, Contract!IntTypes, Contract!FloatTypes,
         Contract!Annotation, Contract!BuiltinType, Contract!Kind, Contract!TextFault,
         Schema, Node, Arg, Prop, PartProp, Child, ChildMode, PartChild, NodeProp,
         NodeChild, Field, Value, Plain, Numeric, IntTypes, FloatTypes, Annotation,
         BuiltinType, Kind, TextFault
<1>2. Contract!Doc = Doc
  BY <1>1 DEF Contract!Doc, Doc, Contract!Form, Form, Contract!DocNode, DocNode,
              Contract!Variant, Variant, Contract!VariantKind, VariantKind
<1>3. \A c : Contract!WellFormed(c) <=> WellFormed(c)
  BY DEF Contract!WellFormed, WellFormed
<1>4. \A dd : Contract!WellFormedDoc(dd) <=> WellFormedDoc(dd)
  BY <1>3 DEF Contract!WellFormedDoc, WellFormedDoc, Contract!CallOf, CallOf,
              Contract!StructEntry, StructEntry
<1> QED BY <1>2, <1>4

LEMMA SameFaultsThere == \A c : Contract!Faults(c) = Faults(c)
<1>0. /\ \A sec, p : Contract!Loc(sec, p) = Loc(sec, p)
      /\ \A fields, i, name : Contract!IsArm(fields, i, name) <=> IsArm(fields, i, name)
      /\ \A fields, name : Contract!NoArm(fields, name) <=> NoArm(fields, name)
      /\ \A part, j, name : Contract!IsPartArm(part, j, name) <=> IsPartArm(part, j, name)
      /\ \A f, v : Contract!Admits(f, v) <=> Admits(f, v)
  BY DEF Contract!Loc, Loc, Contract!IsArm, IsArm, Contract!NoArm, NoArm,
         Contract!IsPartArm, IsPartArm, Contract!Takes, Takes, Contract!HasName, HasName,
         Contract!Admits, Admits, Contract!NullAdmitted, NullAdmitted,
         Contract!TypeAdmitted, TypeAdmitted, Contract!LiteralAdmitted, LiteralAdmitted,
         Contract!KindOf, KindOf, Contract!Numeric, Numeric, Contract!IntTypes, IntTypes,
         Contract!FloatTypes, FloatTypes, Contract!FromStr, FromStr,
         Contract!BuiltinType, BuiltinType
<1>1. \A SS, NN, k : Contract!ArgAdmitted(SS, NN, k) <=> ArgAdmitted(SS, NN, k)
  BY <1>0 DEF Contract!ArgAdmitted, ArgAdmitted
<1>2. \A SS, NN, i : Contract!ArgMissing(SS, NN, i) <=> ArgMissing(SS, NN, i)
  BY DEF Contract!ArgMissing, ArgMissing
<1>3. \A SS, NN, k : Contract!PropAdmitted(SS, NN, k) <=> PropAdmitted(SS, NN, k)
  BY <1>0 DEF Contract!PropAdmitted, PropAdmitted
<1>4. \A SS, NN, i : Contract!PropMissing(SS, NN, i) <=> PropMissing(SS, NN, i)
  BY <1>0 DEF Contract!PropMissing, PropMissing
<1>5. \A SS, NN, k : Contract!ChildAdmitted(SS, NN, k) <=> ChildAdmitted(SS, NN, k)
  BY <1>0 DEF Contract!ChildAdmitted, ChildAdmitted, Contract!Fits, Fits,
              Contract!FirstOf, FirstOf, Contract!FirstOfPart, FirstOfPart
<1>6. \A SS, NN, i : Contract!ChildMissing(SS, NN, i) <=> ChildMissing(SS, NN, i)
  BY <1>0 DEF Contract!ChildMissing, ChildMissing
<1>7. \A SS, NN : Contract!SpecialFaults(SS, NN) = SpecialFaults(SS, NN)
  BY <1>0 DEF Contract!SpecialFaults, SpecialFaults
<1> QED BY <1>0, <1>1, <1>2, <1>3, <1>4, <1>5, <1>6, <1>7 DEF Contract!Faults, Faults

LEMMA SameExpectedThere ==
  \A c, values : Contract!AsExpected(c, values) <=> AsExpected(c, values)
<1>1. \A SS, NN, i : Contract!ArgItems(SS, NN, i) = ArgItems(SS, NN, i)
  BY DEF Contract!ArgItems, ArgItems, Contract!IsNull, IsNull, Contract!OrDefault, OrDefault
<1>2. \A SS, NN, i, j : Contract!PropItems(SS, NN, i, j) = PropItems(SS, NN, i, j)
  BY DEF Contract!PropItems, PropItems, Contract!IsNull, IsNull, Contract!OrDefault, OrDefault,
         Contract!IsArm, IsArm, Contract!NoArm, NoArm,
         Contract!IsPartArm, IsPartArm, Contract!Takes, Takes, Contract!HasName, HasName
<1>3. \A SS, NN, i, j : Contract!ChildItems(SS, NN, i, j) = ChildItems(SS, NN, i, j)
  BY DEF Contract!ChildItems, ChildItems, Contract!OrDefault, OrDefault,
         Contract!IsArm, IsArm, Contract!NoArm, NoArm,
         Contract!IsPartArm, IsPartArm, Contract!Takes, Takes, Contract!HasName, HasName
<1>4. \A c, s : Contract!Items(c, s) = Items(c, s)
  BY <1>1, <1>2, <1>3 DEF Contract!Items, Items
<1>5. \A h, p : Contract!Delivers(h, p) <=> Delivers(h, p)
  BY DEF Contract!Delivers, Delivers
<1>6. \A SS : Contract!SlotsOf(SS) = SlotsOf(SS)
  BY DEF Contract!SlotsOf, SlotsOf, Contract!Slot, Slot, Contract!PartSlots, PartSlots
<1> QED BY <1>4, <1>5, <1>6 DEF Contract!AsExpected, AsExpected

LEMMA SameNodesThere ==
  /\ \A dd \in Doc : Contract!FaultyNodes(dd) = FaultyNodes(dd)
  /\ \A dd, ll : Contract!Decoded(dd, ll) <=> Decoded(dd, ll)
<1>1. \A c : Contract!Conforms(c) <=> Conforms(c)
  BY SameFaultsThere DEF Contract!Conforms, Conforms
<1>2. /\ \A entry, schema, n : Contract!CallOf(entry, schema, n) = CallOf(entry, schema, n)
      /\ \A dd : Contract!StructEntry(dd) = StructEntry(dd)
      /\ \A n : Contract!Blank(n) <=> Blank(n)
      /\ \A n : Contract!Extras(n) = Extras(n)
      /\ \A f, i, name : Contract!IsVariant(f, i, name) <=> IsVariant(f, i, name)
  BY DEF Contract!CallOf, CallOf, Contract!StructEntry, StructEntry, Contract!Blank, Blank,
         Contract!Extras, Extras, Contract!IsVariant, IsVariant
<1>3. \A v, n : Contract!FaultyVariant(v, n) <=> FaultyVariant(v, n)
  BY <1>1, <1>2 DEF Contract!FaultyVariant, FaultyVariant
<1>4. ASSUME NEW dd \in Doc, NEW k PROVE Contract!Faulty(dd, k) <=> Faulty(dd, k)
  <2>1. dd.form.kind \in {"Struct", "NewType", "Enum"} BY DEF Doc, Form
  <2>2. CASE dd.form.kind = "Struct" BY <1>1, <1>2, <2>2 DEF Contract!Faulty, Faulty
  <2>3. CASE dd.form.kind = "NewType" BY <1>1, <1>2, <2>3 DEF Contract!Faulty, Faulty
  <2>4. CASE dd.form.kind = "Enum" BY <1>2, <1>3, <2>4 DEF Contract!Faulty, Faulty
  <2> QED BY <2>1, <2>2, <2>3, <2>4
<1>5. \A dd, k : Contract!CallsFor(dd, k) = CallsFor(dd, k)
  BY DEF Contract!CallsFor, CallsFor, Contract!CallOf, CallOf, Contract!StructEntry, StructEntry,
         Contract!Blank, Blank, Contract!IsVariant, IsVariant
<1> QED BY <1>4, <1>5, SameExpectedThere
    DEF Contract!FaultyNodes, FaultyNodes, Contract!Decoded, Decoded

\* What follows is that parse keeps its contract: while the text is read and
\* the nodes decoded it blames faulty nodes or does nothing the contract sees,
\* and it returns Ok or Err where the contract lets it.
LEMMA ContractInit == ASSUME Init PROVE Contract!Init
<1>1. doc \in Doc /\ WellFormedDoc(doc) BY DocsAssumption DEF Init
<1>2. outcome = "none" /\ Blamed = {} BY DEF Init, Blamed, Range
<1> QED BY <1>1, <1>2, SameDocs DEF Contract!Init

\* Nodes are blamed one at a time, and only faulty ones.
LEMMA BlamesOrStutters ==
  ASSUME PInv, PInv', UNCHANGED <<doc, outcome>>, outcome = "none", doc.readable,
         at' \in {at, at + 1}
  PROVE  [Contract!Next]_(Contract!vars)
<1>1. /\ Blamed = {k \in FaultyNodes(doc) : k < at}
      /\ Blamed' = {k \in FaultyNodes(doc) : k < at'}
      /\ doc \in Doc
  BY DEF PInv, Loop, TypeOK, FaultyNodes
<1>2. FaultyNodes(doc) = Contract!FaultyNodes(doc) BY <1>1, SameNodesThere
<1>3. at \in Nat /\ FaultyNodes(doc) \subseteq Nat
  <2>1. Len(doc.nodes) \in Nat /\ DOMAIN doc.nodes = 1..Len(doc.nodes) BY <1>1 DEF Doc
  <2> QED BY <2>1 DEF PInv, TypeOK, FaultyNodes
<1>4. UNCHANGED <<doc, outcome, (IF outcome = "ok" THEN list ELSE <<>>)>> OBVIOUS
<1>5. CASE at \in FaultyNodes(doc) /\ at' = at + 1
  <2>1. \A k \in Nat : k < at + 1 <=> k < at \/ k = at BY <1>3
  <2>2. Blamed' = Blamed \cup {at} BY <1>1, <1>3, <1>5, <2>1
  <2>3. Contract!Blame BY <1>2, <1>4, <1>5, <2>2 DEF Contract!Blame
  <2> QED BY <2>3 DEF Contract!Next
<1>6. CASE ~(at \in FaultyNodes(doc) /\ at' = at + 1)
  <2>1. \A k \in Nat : k < at + 1 <=> k < at \/ k = at BY <1>3
  <2>2. Blamed' = Blamed BY <1>1, <1>3, <1>6, <2>1
  <2> QED BY <1>4, <2>2 DEF Contract!vars
<1> QED BY <1>5, <1>6

\* The last node is behind: what the contract asks of the end.
LEMMA LastNodeDone ==
  ASSUME PInv, stage = "next", at \notin DOMAIN doc.nodes
  PROVE  /\ Blamed = FaultyNodes(doc)
         /\ context = <<>> => FaultyNodes(doc) = {} /\ Decoded(doc, list)
         /\ context # <<>> => FaultyNodes(doc) # {}
<1>1. /\ doc \in Doc /\ Blamed = {k \in FaultyNodes(doc) : k < at}
      /\ context \in Seq(Error) /\ list \in Seq(Range(list))
      /\ Blamed = {} => Complete
  BY DEF PInv, Loop, TypeOK
<1>2. Len(doc.nodes) \in Nat /\ DOMAIN doc.nodes = 1..Len(doc.nodes) BY <1>1 DEF Doc
<1>3. at = Len(doc.nodes) + 1 BY <1>2 DEF PInv, TypeOK
<1>4. Blamed = FaultyNodes(doc)
  <2>1. \A k \in DOMAIN doc.nodes : k < at BY <1>2, <1>3
  <2> QED BY <1>1, <2>1 DEF FaultyNodes
<1>5. context # <<>> => Blamed # {}
  <2>1. context # <<>> => 1 \in DOMAIN context BY <1>1
  <2> QED BY <2>1 DEF Blamed, Range
<1>6. ASSUME context = <<>> PROVE FaultyNodes(doc) = {} /\ Decoded(doc, list)
  <2>1. Blamed = {} BY <1>6 DEF Blamed, Range
  <2>2. Len(list) = Len(doc.nodes) /\ \A k \in DOMAIN list : list[k].at = k
    BY <1>1, <1>2, <1>3, <2>1 DEF Complete
  <2>3. \A k \in DOMAIN list : \A c \in CallsFor(doc, k) : AsExpected(c, list[k].values)
    <3> SUFFICES ASSUME NEW k \in DOMAIN list, NEW c \in CallsFor(doc, k)
                 PROVE  AsExpected(c, list[k].values)
      OBVIOUS
    <3>1. k \in DOMAIN doc.nodes BY <1>1, <1>2, <2>2
    <3>2. ~Faulty(doc, k) BY <1>4, <2>1, <3>1 DEF FaultyNodes
    <3>3. list[k] \in Range(list) /\ list[k].at = k BY <2>2 DEF Range
    <3> QED BY <3>2, <3>3 DEF PInv, ConformingNodesAreIndependent
  <2> QED BY <1>4, <2>1, <2>2, <2>3 DEF Decoded
<1> QED BY <1>4, <1>5, <1>6

LEMMA FinishKeepsContract == ASSUME PInv, Finish PROVE Contract!Next
<1>1. /\ stage = "next" /\ at \notin DOMAIN doc.nodes /\ UNCHANGED <<doc, context, list>>
      /\ outcome' = IF context = <<>> THEN "ok" ELSE "err"
  BY DEF Finish
<1>2. doc \in Doc /\ doc.readable /\ outcome = "none" BY <1>1 DEF PInv, Loop, TypeOK
<1>3. /\ Blamed = FaultyNodes(doc)
      /\ context = <<>> => FaultyNodes(doc) = {} /\ Decoded(doc, list)
      /\ context # <<>> => FaultyNodes(doc) # {}
  BY <1>1, LastNodeDone
<1>4. /\ Contract!FaultyNodes(doc) = FaultyNodes(doc)
      /\ Contract!Decoded(doc, list) <=> Decoded(doc, list)
  BY <1>2, SameNodesThere
<1>5. Blamed' = Blamed BY <1>1 DEF Blamed
<1>6. CASE context = <<>>
  <2>1. Contract!Succeed BY <1>1, <1>2, <1>3, <1>4, <1>5, <1>6 DEF Contract!Succeed
  <2> QED BY <2>1 DEF Contract!Next
<1>7. CASE context # <<>>
  <2>1. Contract!Fail BY <1>1, <1>2, <1>3, <1>4, <1>5, <1>7 DEF Contract!Fail
  <2> QED BY <2>1 DEF Contract!Next
<1> QED BY <1>6, <1>7

LEMMA ContractStep ==
  ASSUME PInv, [Next]_vars PROVE [Contract!Next]_(Contract!vars)
<1>1. PInv' BY PStep
<1>2. CASE ReadText
  <2>1. /\ stage = "read" /\ UNCHANGED <<doc, at, context, list>>
        /\ \/ UNCHANGED outcome
           \/ ~doc.readable /\ outcome' = "err"
    BY <1>2 DEF ReadText
  <2>2. outcome = "none" BY <2>1 DEF PInv, Loop, TypeOK
  <2>3. Blamed' = Blamed BY <2>1 DEF Blamed
  <2>4. CASE UNCHANGED outcome BY <2>1, <2>3, <2>4 DEF Contract!vars
  <2>5. CASE ~doc.readable /\ outcome' = "err"
    <3>1. Contract!Fail BY <2>1, <2>2, <2>3, <2>5 DEF Contract!Fail
    <3> QED BY <3>1 DEF Contract!Next
  <2> QED BY <2>1, <2>4, <2>5
<1>3. CASE Finish BY <1>3, FinishKeepsContract
<1>4. CASE UNCHANGED vars
  <2>1. UNCHANGED <<doc, context, list, outcome>> BY <1>4 DEF vars
  <2> QED BY <2>1 DEF Contract!vars, Blamed
<1>5. ASSUME \/ StartStruct \/ NewType \/ UnitVariant \/ BlankVariant \/ NestedVariant
             \/ TupleVariant \/ UnknownVariant \/ InCall \/ Return
      PROVE  [Contract!Next]_(Contract!vars)
  <2>1. /\ stage \in {"next", "call"} /\ UNCHANGED <<doc, outcome>> /\ at' \in {at, at + 1}
    BY <1>5 DEF StartStruct, NewType, UnitVariant, BlankVariant, NestedVariant, TupleVariant,
                UnknownVariant, InCall, Return, Turn, Arm, Start, Element
  <2>2. outcome = "none" /\ doc.readable BY <2>1 DEF PInv, Loop, TypeOK
  <2> QED BY <1>1, <2>1, <2>2, BlamesOrStutters
<1> QED BY <1>2, <1>3, <1>4, <1>5 DEF Next

\* For every document and type: parse returns Ok exactly if the text is
\* readable and every node conforms, with all values where they belong, and
\* otherwise its Error names every faulty node and no other.
THEOREM ContractKept == Spec => KeepsContract
<1>1. Init => Contract!Init BY ContractInit
<1>2. PInv /\ [Next]_vars => [Contract!Next]_(Contract!vars) BY ContractStep
<1> QED BY <1>1, <1>2, Invariant, PTL DEF Spec, KeepsContract, Contract!Spec
=============================================================================
