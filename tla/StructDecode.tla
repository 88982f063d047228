--------------------------- MODULE StructDecode ---------------------------
(***************************************************************************)
(* The decoder knus-derive generates for a struct (derive/src/node.rs).    *)
(*                                                                         *)
(* One behaviour is one call of the generated function.  It runs through   *)
(* the phases of the generated code in order: special fields, arguments,   *)
(* properties, the properties' postprocessing, children, the children's    *)
(* postprocessing.  A problem is either emitted to the Context, and        *)
(* decoding goes on with a placeholder, or returned as Err, which ends the *)
(* call.  Each arm of the generated matches is an action of its own.       *)
(*                                                                         *)
(*   case    the generated function, its schema and the node it is given   *)
(*   phase   the phase of the generated code that runs                     *)
(*   pos     the field or the item the phase has come to                   *)
(*   vals    the local variables of the fields (and, under `sub`, the      *)
(*           fields of a flattened struct): <<>> is None, false or empty   *)
(*   seen    the `seen_<field>` flags of the optional properties           *)
(*   errs    the errors in the Context, in the order they were emitted     *)
(*   raised  the Err the call returned, as a sequence of at most one       *)
(***************************************************************************)
EXTENDS Conformance, SequencesExt

\* The inputs to consider, in groups: each group pairs every one of its
\* schemas with every one of its nodes.
CONSTANT Inputs
ASSUME InputsAssumption ==
  \A g \in Inputs : [entry : g.entry, schema : g.schema, node : g.node] \subseteq Case

VARIABLES case, phase, pos, vals, seen, errs, raised
vars == <<case, phase, pos, vals, seen, errs, raised>>

S == case.schema
N == case.node

Phases == {"specials", "args", "props", "propsPost", "children",
           "childrenPost", "done"}

\* decode_node starts with the special fields, decode_enum_item and unwrap
\* have none, decode_children gets the children only.
FirstPhase(entry) == CASE entry = "node"                -> "specials"
                       [] entry \in {"variant", "unwrap"} -> "args"
                       [] entry = "children"            -> "children"

Init == /\ \E g \in Inputs :
             case \in [entry : g.entry, schema : g.schema, node : g.node]
        /\ WellFormed(case)
        /\ phase = FirstPhase(case.entry)
        /\ pos = 1
        /\ vals = [s \in SlotsOf(S) |-> <<>>]
        /\ seen = {}
        /\ errs = <<>>
        /\ raised = <<>>

----------------------------------------------------------------------------

At(p)    == phase = p
Enter(p) == phase' = p /\ pos' = 1
Advance  == pos' = pos + 1 /\ UNCHANGED phase

\* Slip: the error is set aside but the function goes on.
Raise_GoesOn(loc) == raised' = <<loc>> /\ Advance

\* return Err(..), or a `?` that finds one
Raise(loc) == /\ raised' = <<loc>>
              /\ phase' = "done"
              /\ UNCHANGED pos

\* Slip: the newest error is put in front.
Emit_InFront(loc, n) == errs' = [k \in 1..n |-> loc] \o errs

\* Context::emit_error, n times
Emit(loc, n) == errs' = errs \o [k \in 1..n |-> loc]

\* The outcome d of decoding item `at` goes into a slot: assigned to a single
\* field, pushed to a field that grows.  An Ok(None) leaves None.
Stored(old, at, d, grow) ==
  LET item == [at |-> at, clean |-> d.res = "value"]
  IN IF d.res = "null" THEN <<>>
     ELSE IF grow THEN Append(old, item) ELSE <<item>>

Settle(slot, loc, d, grow) ==
  /\ Emit(loc, d.emits)
  /\ IF d.res = "fail"
     THEN Raise(loc) /\ UNCHANGED vals
     ELSE /\ vals' = [vals EXCEPT ![slot] = Stored(@, loc.pos, d, grow)]
          /\ Advance
          /\ UNCHANGED raised

\* What Decode::decode_node (or the `unwrap` closure) makes of a child.
ChildOutcome(child) == CASE child.own = "good" -> Result(0, "value")
                         [] child.own = "soft" -> Result(1, "dummy")
                         [] child.own = "hard" -> Result(0, "fail")

\* The fields are set to their default, or the call ends for want of a value.
FillIn(slot, loc, default, required) ==
  /\ UNCHANGED <<seen, errs>>
  /\ \/ default  /\ vals' = [vals EXCEPT ![slot] = <<DefaultItem>>]
                 /\ Advance /\ UNCHANGED raised
     \/ required /\ Raise(loc) /\ UNCHANGED vals
     \/ ~default /\ ~required /\ Advance /\ UNCHANGED <<vals, raised>>

----------------------------------------------------------------------------

\* decode_specials.  A span cannot fail; a name or type name that does not
\* parse, or a type name the struct requires and the node lacks, is an Err; a
\* type name no field takes is emitted.
DecodeSpecials ==
  /\ At("specials")
  /\ LET badName == S.nodeName /\ ~N.nameOk
         badType == CASE S.typeName = "option"   -> N.ty = "bad"
                      [] S.typeName = "required" -> N.ty # "ok"
                      [] S.typeName = "absent"   -> FALSE
     IN \/ badName /\ Raise(Loc("name", 0)) /\ UNCHANGED errs
        \/ ~badName /\ badType /\ Raise(Loc("type", 0)) /\ UNCHANGED errs
        \/ /\ ~badName /\ ~badType
           /\ Emit(Loc("type", 0), Count(S.typeName = "absent" /\ N.ty # "none"))
           /\ Enter("args")
           /\ UNCHANGED raised
  /\ UNCHANGED <<case, vals, seen>>

\* decode_args: the fields take the arguments one by one.
DecodeArg ==
  /\ At("args") /\ pos \in DOMAIN S.args /\ pos \in DOMAIN N.args
  /\ Settle(Slot("arg", pos, 0), Loc("arg", pos),
            DecodeValue(S.args[pos].val, N.args[pos]), FALSE)
  /\ UNCHANGED <<case, seen>>

\* iter_args.next() is None.
MissingArg ==
  /\ At("args") /\ pos \in DOMAIN S.args /\ pos \notin DOMAIN N.args
  /\ LET f == S.args[pos]
     IN FillIn(Slot("arg", pos, 0), Loc("noArg", pos),
               f.dflt, ~f.dflt /\ ~f.val.opt)
  /\ UNCHANGED case

\* The field that captures all `arguments`.
DecodeVarArg ==
  /\ At("args") /\ pos \notin DOMAIN S.args /\ pos \in DOMAIN N.args
  /\ S.varArgs
  /\ Settle(Slot("arg", 0, 0), Loc("arg", pos),
            DecodeValue(S.argVal, N.args[pos]), TRUE)
  /\ UNCHANGED <<case, seen>>

\* "unexpected argument"
ExtraArg ==
  /\ At("args") /\ pos \notin DOMAIN S.args /\ pos \in DOMAIN N.args
  /\ ~S.varArgs
  /\ Raise(Loc("arg", pos))
  /\ UNCHANGED <<case, vals, seen, errs>>

ArgsDone ==
  /\ At("args") /\ pos \notin DOMAIN S.args /\ pos \notin DOMAIN N.args
  /\ Enter("props")
  /\ UNCHANGED <<case, vals, seen, errs, raised>>

----------------------------------------------------------------------------

\* decode_props walks the node's property map, in the order of the names.
HereProp == At("props") /\ pos \in DOMAIN N.props

\* An arm with the name of a field.
NamedProp ==
  /\ HereProp
  /\ \E i \in DOMAIN S.props :
       /\ IsArm(S.props, i, N.props[pos].name)
       /\ S.props[i].mode = "Named"
       /\ seen' = IF S.props[i].val.opt THEN seen \cup {i} ELSE seen
       /\ Settle(Slot("prop", i, 0), Loc("prop", pos),
                 DecodeValue(S.props[i].val, N.props[pos].val), FALSE)
  /\ UNCHANGED case

\* DecodePartial::insert_property of a flattened struct.
FlattenProp ==
  /\ HereProp
  /\ \E i \in DOMAIN S.props : \E j \in DOMAIN S.props[i].part :
       /\ IsArm(S.props, i, N.props[pos].name)
       /\ S.props[i].mode = "Flatten"
       /\ IsPartArm(S.props[i].part, j, N.props[pos].name)
       /\ Settle(Slot("prop", i, j), Loc("prop", pos),
                 DecodeValue(S.props[i].part[j].val, N.props[pos].val), FALSE)
  /\ UNCHANGED <<case, seen>>

\* The field that captures all `properties`: the name is converted first.
VarProp ==
  /\ HereProp /\ NoArm(S.props, N.props[pos].name) /\ S.varProps
  /\ \/ /\ ~N.props[pos].keyOk
        /\ Raise(Loc("prop", pos)) /\ UNCHANGED <<vals, errs>>
     \/ /\ N.props[pos].keyOk
        /\ Settle(Slot("prop", 0, 0), Loc("prop", pos),
                  DecodeValue(S.propVal, N.props[pos].val), TRUE)
  /\ UNCHANGED <<case, seen>>

\* "unexpected property"
UnexpectedProp ==
  /\ HereProp /\ NoArm(S.props, N.props[pos].name) /\ ~S.varProps
  /\ Raise(Loc("prop", pos))
  /\ UNCHANGED <<case, vals, seen, errs>>

PropsDone ==
  /\ At("props") /\ pos \notin DOMAIN N.props
  /\ Enter("propsPost")
  /\ UNCHANGED <<case, vals, seen, errs, raised>>

\* Slip: a null counts as not given, and takes the default.
FinishProp_NullIsUnset ==
  /\ At("propsPost") /\ pos \in DOMAIN S.props
  /\ LET f     == S.props[pos]
         empty == vals[Slot("prop", pos, 0)] = <<>>
         named == f.mode = "Named"
     IN FillIn(Slot("prop", pos, 0), Loc("noProp", pos),
               named /\ f.dflt /\ empty,
               named /\ ~f.dflt /\ ~f.val.opt /\ empty)
  /\ UNCHANGED case

\* The postprocessing of property field `pos`: an explicit null keeps an
\* optional property from its default, and a flattened struct has none.
FinishProp ==
  /\ At("propsPost") /\ pos \in DOMAIN S.props
  /\ LET f     == S.props[pos]
         empty == vals[Slot("prop", pos, 0)] = <<>>
         named == f.mode = "Named"
         unset == IF f.val.opt THEN pos \notin seen ELSE empty
     IN FillIn(Slot("prop", pos, 0), Loc("noProp", pos),
               named /\ f.dflt /\ unset,
               named /\ ~f.dflt /\ ~f.val.opt /\ empty)
  /\ UNCHANGED case

PropsFinished ==
  /\ At("propsPost") /\ pos \notin DOMAIN S.props
  /\ Enter("children")
  /\ UNCHANGED <<case, vals, seen, errs, raised>>

----------------------------------------------------------------------------

\* decode_children walks the children in document order.
HereChild == At("children") /\ pos \in DOMAIN N.children

HereArm(i, mode) == /\ HereChild
                    /\ IsArm(S.children, i, N.children[pos].name)
                    /\ S.children[i].mode = mode

\* check_flag_node emits once per argument, property and child; a flag that
\* is set already is a duplicate.
SetFlag(slot) ==
  /\ Emit(Loc("child", pos), N.children[pos].extras + Count(vals[slot] # <<>>))
  /\ vals' = [vals EXCEPT ![slot] =
                IF @ = <<>> THEN <<[at |-> pos, clean |-> N.children[pos].extras = 0]>>
                            ELSE @]
  /\ Advance
  /\ UNCHANGED raised

\* Slip: no look at whether the field is set.
NormalChild_LastWins ==
  /\ \E i \in DOMAIN S.children :
       /\ HereArm(i, "Normal")
       /\ Settle(Slot("child", i, 0), Loc("child", pos),
                 ChildOutcome(N.children[pos]), FALSE)
  /\ UNCHANGED <<case, seen>>

NormalChild ==
  /\ \E i \in DOMAIN S.children :
       /\ HereArm(i, "Normal")
       /\ LET slot == Slot("child", i, 0)
          IN \/ /\ vals[slot] # <<>>            \* duplicate node
                /\ Raise(Loc("child", pos)) /\ UNCHANGED <<vals, errs>>
             \/ /\ vals[slot] = <<>>
                /\ Settle(slot, Loc("child", pos),
                          ChildOutcome(N.children[pos]), FALSE)
  /\ UNCHANGED <<case, seen>>

\* Slip: an assignment instead of a push.
MultiChild_Assigns ==
  /\ \E i \in DOMAIN S.children :
       /\ HereArm(i, "Multi")
       /\ Settle(Slot("child", i, 0), Loc("child", pos),
                 ChildOutcome(N.children[pos]), FALSE)
  /\ UNCHANGED <<case, seen>>

MultiChild ==
  /\ \E i \in DOMAIN S.children :
       /\ HereArm(i, "Multi")
       /\ Settle(Slot("child", i, 0), Loc("child", pos),
                 ChildOutcome(N.children[pos]), TRUE)
  /\ UNCHANGED <<case, seen>>

FlagChild ==
  /\ \E i \in DOMAIN S.children :
       HereArm(i, "Bool") /\ SetFlag(Slot("child", i, 0))
  /\ UNCHANGED <<case, seen>>

\* DecodePartial::insert_child of a flattened struct.  Here a duplicate is
\* emitted, and the child is decoded over the one before.
FlattenChild ==
  /\ \E i \in DOMAIN S.children : \E j \in DOMAIN S.children[i].part :
       /\ HereArm(i, "Flatten")
       /\ IsPartArm(S.children[i].part, j, N.children[pos].name)
       /\ LET slot == Slot("child", i, j)
              own  == ChildOutcome(N.children[pos])
          IN \/ S.children[i].part[j].mode = "Bool" /\ SetFlag(slot)
             \/ /\ S.children[i].part[j].mode = "Normal"
                /\ Settle(slot, Loc("child", pos),
                          [own EXCEPT !.emits = @ + Count(vals[slot] # <<>>)], FALSE)
  /\ UNCHANGED <<case, seen>>

\* The field that captures all `children`.
VarChild ==
  /\ HereChild /\ NoArm(S.children, N.children[pos].name) /\ S.varChildren
  /\ Settle(Slot("child", 0, 0), Loc("child", pos),
            ChildOutcome(N.children[pos]), TRUE)
  /\ UNCHANGED <<case, seen>>

\* "unexpected node" is emitted, and the node skipped.
UnexpectedChild ==
  /\ HereChild /\ NoArm(S.children, N.children[pos].name) /\ ~S.varChildren
  /\ Emit(Loc("child", pos), 1)
  /\ Advance
  /\ UNCHANGED <<case, vals, seen, raised>>

ChildrenDone ==
  /\ At("children") /\ pos \notin DOMAIN N.children
  /\ Enter("childrenPost")
  /\ UNCHANGED <<case, vals, seen, errs, raised>>

\* The postprocessing of child field `pos`: only a Normal child is required,
\* a flag or a flattened struct has no default.
FinishChild ==
  /\ At("childrenPost") /\ pos \in DOMAIN S.children
  /\ LET f     == S.children[pos]
         empty == vals[Slot("child", pos, 0)] = <<>>
     IN FillIn(Slot("child", pos, 0), Loc("noChild", pos),
               f.mode \in {"Normal", "Multi"} /\ f.dflt /\ empty,
               f.mode = "Normal" /\ ~f.dflt /\ ~f.opt /\ empty)
  /\ UNCHANGED case

\* assign_extra, and Ok with the struct.
Finish ==
  /\ At("childrenPost") /\ pos \notin DOMAIN S.children
  /\ phase' = "done"
  /\ UNCHANGED <<case, pos, vals, seen, errs, raised>>

----------------------------------------------------------------------------

Next == \/ DecodeSpecials
        \/ DecodeArg \/ MissingArg \/ DecodeVarArg \/ ExtraArg \/ ArgsDone
        \/ NamedProp \/ FlattenProp \/ VarProp \/ UnexpectedProp \/ PropsDone
        \/ FinishProp \/ PropsFinished
        \/ NormalChild \/ MultiChild \/ FlagChild \/ FlattenChild \/ VarChild
        \/ UnexpectedChild \/ ChildrenDone \/ FinishChild \/ Finish

Spec == Init /\ [][Next]_vars

Ended == phase = "done"
Clear == Ended /\ errs = <<>> /\ raised = <<>>
----------------------------------------------------------------------------

(***************************************************************************)
(* Properties.                                                             *)
(***************************************************************************)
\* The variables have their types, and a call that returned Err has ended.
TypeOK ==
  /\ case \in Case /\ WellFormed(case)
  /\ phase \in Phases
  /\ pos \in Nat \ {0}
  /\ vals \in [SlotsOf(S) -> Seq(Item)]
  /\ seen \subseteq DOMAIN S.props
  /\ errs \in Seq(Place)
  /\ raised \in Seq(Place) /\ Len(raised) <= 1
  /\ raised # <<>> => phase = "done"

\* What the call amounts to for its caller.
Verdict == CASE ~Ended                                   -> "pending"
             [] Ended /\ raised # <<>>                   -> "hard"
             [] Ended /\ raised = <<>> /\ errs # <<>>    -> "soft"
             [] Ended /\ raised = <<>> /\ errs = <<>>    -> "good"
Reported == Range(errs) \cup Range(raised)

Contract == INSTANCE DecodeContract
              WITH verdict <- Verdict, reported <- Reported,
                   result <- IF Clear THEN vals ELSE <<>>

\* The generated decoder keeps the contract of a decoder: it accepts exactly
\* the conforming nodes, delivers every item to the field it belongs to, and
\* blames nothing that is in order.
KeepsContract == Contract!Spec

\* The decoders of numbers, strings, flags and bytes go on with a placeholder
\* (convert.rs, decode.rs).  Whenever a field holds one, the item it stands
\* for has been reported, so no caller can take a 0 for a value.
PlaceholdersAreReported ==
  \A slot \in SlotsOf(S) : \A h \in DOMAIN vals[slot] :
    vals[slot][h].clean \/ Loc(slot.sec, vals[slot][h].at) \in Range(errs)

\* Errors reach the user in the order in which a reader finds them: phase by
\* phase and item by item (properties in the order of their names, which is
\* that of the AST's BTreeMap), and the Err that ends a call comes last.
Rank(l) == CASE l.sec \in {"name", "type"} -> 0 [] l.sec = "arg"     -> 1
             [] l.sec = "noArg"            -> 2 [] l.sec = "prop"    -> 3
             [] l.sec = "noProp"           -> 4 [] l.sec = "child"   -> 5
             [] l.sec = "noChild"          -> 6
NotAfter(l, m) == \/ Rank(l) < Rank(m)
                  \/ Rank(l) = Rank(m) /\ l.pos <= m.pos
ErrorsInDecodingOrder ==
  LET all == errs \o raised
  IN \A g, h \in DOMAIN all : g < h => NotAfter(all[g], all[h])

\* Even a call that fails accounts for each child it went past: a field holds
\* it, it was reported, or (in a flattened struct only, where the last one
\* wins) a later child of the same name that replaced it was.
Past(k) == \/ phase \in {"childrenPost"} \/ (phase = "children" /\ k < pos)
           \/ (raised # <<>> /\ raised[1].sec = "child" /\ k < raised[1].pos)
Held(k) == \E slot \in SlotsOf(S) : /\ slot.sec = "child"
                                    /\ \E h \in DOMAIN vals[slot] : vals[slot][h].at = k
NoChildPassedOver ==
  \A k \in DOMAIN N.children : Past(k) =>
    \/ Held(k)
    \/ Loc("child", k) \in Reported
    \/ \E m \in DOMAIN N.children :
         /\ k < m /\ N.children[m].name = N.children[k].name
         /\ Loc("child", m) \in Reported

\* What a field holds only grows, and so do the errors.  The one exception is
\* the child of a flattened struct: a duplicate replaces it, and is reported
\* by the same step.
NothingSilentlyReplaced ==
  [][ /\ IsPrefix(errs, errs')
      /\ \A slot \in SlotsOf(S) :
           \/ IsPrefix(vals[slot], vals'[slot])
           \/ slot.sec = "child" /\ slot.sub > 0 /\ errs' # errs ]_vars

\* derive_decode.md:619 says of the generated decoder: by default knus doesn't
\* allow type names for nodes.  So a decoder without a type_name field does not
\* take a node with one.
TypeNamesAreRefused ==
  Clear /\ S.typeName = "absent" => N.ty = "none"
=============================================================================
