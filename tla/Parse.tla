------------------------------- MODULE Parse -------------------------------
(***************************************************************************)
(* knus::parse_with_context (wrappers.rs), decode::node (decode.rs) and    *)
(* DecodeChildren for Vec<T> (containers.rs), calling the decoders derived *)
(* for a struct, a newtype (node.rs) and an enum (variants.rs).  A call of *)
(* a struct decoder is a run of StructDecode; the Context is one and the   *)
(* same for all of them, and what a call emits is added to it here when    *)
(* the call returns.                                                       *)
(*                                                                         *)
(*   doc      the text and the type it is parsed into                      *)
(*   stage    "read" the text, "next" node, "call" a struct decoder,       *)
(*            "done"                                                       *)
(*   at       the node of the document that is decoded                     *)
(*   context  the errors in the Context, with the node they came from      *)
(*   list     what has been decoded: the Ok results, in order              *)
(*   outcome  what parse returns                                           *)
(***************************************************************************)
EXTENDS Documents, SequencesExt

\* The documents to consider.
CONSTANT Docs
ASSUME DocsAssumption == Docs \subseteq Doc

VARIABLES doc, stage, at, context, list, outcome
VARIABLES case, phase, pos, vals, seen, errs, raised    \* the running call
call == <<case, phase, pos, vals, seen, errs, raised>>
vars == <<doc, stage, at, context, list, outcome, call>>

Call == INSTANCE StructDecode WITH Inputs <- {}

\* Before the first call.
NoCase == [entry |-> "children",
           schema |-> [nodeName |-> FALSE, typeName |-> "absent",
                       args |-> <<>>, varArgs |-> FALSE, argVal |-> [mode |-> "normal", ty |-> "String", opt |-> FALSE],
                       props |-> <<>>, varProps |-> FALSE, propVal |-> [mode |-> "normal", ty |-> "String", opt |-> FALSE],
                       children |-> <<>>, varChildren |-> FALSE],
           node |-> [nameOk |-> TRUE, ty |-> "none", args |-> <<>>,
                     props |-> <<>>, children |-> <<>>]]

Init == /\ doc \in Docs /\ WellFormedDoc(doc)
        /\ stage = "read" /\ at = 1
        /\ context = <<>> /\ list = <<>> /\ outcome = "none"
        /\ case = NoCase /\ phase = "done" /\ pos = 1
        /\ vals = [s \in SlotsOf(NoCase.schema) |-> <<>>]
        /\ seen = {} /\ errs = <<>> /\ raised = <<>>

----------------------------------------------------------------------------

\* parse_ast: a text that is not KDL yields the parser's errors.
ReadText ==
  /\ stage = "read"
  /\ IF doc.readable THEN stage' = "next" /\ UNCHANGED outcome
                     ELSE stage' = "done" /\ outcome' = "err"
  /\ UNCHANGED <<doc, at, context, list, call>>

Here == doc.nodes[at]
Turn == stage = "next" /\ at \in DOMAIN doc.nodes

\* Slip: the fields of the call before are still there.
Start_KeepsFields(entry, schema) ==
  LET c == CallOf(entry, schema, Here)
  IN /\ stage' = "call"
     /\ case' = c
     /\ phase' = Call!FirstPhase(entry)
     /\ pos' = 1
     /\ vals' = [s \in SlotsOf(schema) |-> IF s \in DOMAIN vals THEN vals[s] ELSE <<>>]
     /\ seen' = {} /\ errs' = <<>> /\ raised' = <<>>
     /\ UNCHANGED <<doc, at, context, list, outcome>>

\* Decode::decode_node of node `at` is called.
Start(entry, schema) ==
  LET c == CallOf(entry, schema, Here)
  IN /\ stage' = "call"
     /\ case' = c
     /\ phase' = Call!FirstPhase(entry)
     /\ pos' = 1
     /\ vals' = [s \in SlotsOf(schema) |-> <<>>]
     /\ seen' = {} /\ errs' = <<>> /\ raised' = <<>>
     /\ UNCHANGED <<doc, at, context, list, outcome>>

\* An element is decoded without a struct decoder: errors n times, then Ok.
Element(n) ==
  /\ context' = context \o [k \in 1..n |-> [item |-> at, loc |-> Loc("name", 0)]]
  /\ list' = Append(list, [at |-> at, values |-> <<>>])
  /\ at' = at + 1
  /\ UNCHANGED <<doc, stage, outcome, call>>

StartStruct == Turn /\ doc.form.kind = "Struct" /\ Start(StructEntry(doc), doc.form.schema)

\* emit_new_type: nothing but a name is None.
NewType ==
  /\ Turn /\ doc.form.kind = "NewType"
  /\ IF Blank(Here) THEN Element(0) ELSE Start("node", doc.form.schema)

\* The derived decoder of an enum matches the node's name.
Arm(i, kinds) == /\ Turn /\ doc.form.kind = "Enum"
                 /\ IsVariant(doc.form, i, Here.name)
                 /\ doc.form.variants[i].kind \in kinds

UnitVariant ==
  \E i \in DOMAIN doc.form.variants : Arm(i, {"Unit"}) /\ Element(Extras(Here))

BlankVariant ==
  \E i \in DOMAIN doc.form.variants :
    Arm(i, {"NestedOption"}) /\ Blank(Here) /\ Element(0)

NestedVariant ==
  \E i \in DOMAIN doc.form.variants :
    /\ Arm(i, {"Nested", "NestedOption"})
    /\ doc.form.variants[i].kind = "NestedOption" => ~Blank(Here)
    /\ Start("node", doc.form.variants[i].schema)

TupleVariant ==
  \E i \in DOMAIN doc.form.variants :
    Arm(i, {"Tuple"}) /\ Start("variant", doc.form.variants[i].schema)

\* "expected one of ...": an Err, which goes to the Context.
UnknownVariant ==
  /\ Turn /\ doc.form.kind = "Enum"
  /\ \A i \in DOMAIN doc.form.variants : ~IsVariant(doc.form, i, Here.name)
  /\ context' = Append(context, [item |-> at, loc |-> Loc("name", 0)])
  /\ at' = at + 1
  /\ UNCHANGED <<doc, stage, list, outcome, call>>

\* A step of the struct decoder.
InCall == /\ stage = "call"
          /\ Call!Next
          /\ UNCHANGED <<doc, stage, at, context, list, outcome>>

Tagged(places) == [k \in DOMAIN places |-> [item |-> at, loc |-> places[k]]]

\* Slip: the errors of a call that failed are dropped with its result.
Return_KeepsErrOnly ==
  /\ stage = "call" /\ phase = "done"
  /\ context' = context \o IF raised = <<>> THEN Tagged(errs) ELSE <<>>
  /\ list' = IF raised = <<>> THEN Append(list, [at |-> at, values |-> vals]) ELSE list
  /\ stage' = "next" /\ at' = at + 1
  /\ UNCHANGED <<doc, outcome, call>>

\* Slip: the node after one that failed is skipped.
Return_SkipsNext ==
  /\ stage = "call" /\ phase = "done"
  /\ context' = context \o Tagged(errs) \o Tagged(raised)
  /\ list' = IF raised = <<>> THEN Append(list, [at |-> at, values |-> vals]) ELSE list
  /\ stage' = "next"
  /\ at' = IF raised = <<>> THEN at + 1 ELSE at + 2
  /\ UNCHANGED <<doc, outcome, call>>

\* Slip: the error of the call is put before what the call emitted.
Return_ErrFirst ==
  /\ stage = "call" /\ phase = "done"
  /\ context' = context \o Tagged(raised) \o Tagged(errs)
  /\ list' = IF raised = <<>> THEN Append(list, [at |-> at, values |-> vals]) ELSE list
  /\ stage' = "next" /\ at' = at + 1
  /\ UNCHANGED <<doc, outcome, call>>

\* The call returns.  An Ok is pushed to the list, an Err goes to the Context
\* behind what the call emitted, and the loop goes on with the next node.
Return ==
  /\ stage = "call" /\ phase = "done"
  /\ context' = context \o Tagged(errs) \o Tagged(raised)
  /\ list' = IF raised = <<>> THEN Append(list, [at |-> at, values |-> vals]) ELSE list
  /\ stage' = "next" /\ at' = at + 1
  /\ UNCHANGED <<doc, outcome, call>>

\* Slip: only the Result of the last call is looked at.
Finish_IgnoresContext ==
  /\ stage = "next" /\ at \notin DOMAIN doc.nodes
  /\ stage' = "done"
  /\ outcome' = IF raised = <<>> THEN "ok" ELSE "err"
  /\ UNCHANGED <<doc, at, context, list, call>>

\* An Ok result counts only if the Context has no errors.
Finish ==
  /\ stage = "next" /\ at \notin DOMAIN doc.nodes
  /\ stage' = "done"
  /\ outcome' = IF context = <<>> THEN "ok" ELSE "err"
  /\ UNCHANGED <<doc, at, context, list, call>>

Next == \/ ReadText
        \/ StartStruct \/ NewType
        \/ UnitVariant \/ BlankVariant \/ NestedVariant \/ TupleVariant \/ UnknownVariant
        \/ InCall \/ Return \/ Finish

Spec == Init /\ [][Next]_vars
----------------------------------------------------------------------------

(***************************************************************************)
(* Properties.                                                             *)
(***************************************************************************)
\* The variables have their types; the running call keeps its own.
TypeOK ==
  /\ doc \in Doc /\ WellFormedDoc(doc)
  /\ stage \in {"read", "next", "call", "done"}
  /\ at \in 1..(Len(doc.nodes) + 1)
  /\ \A e \in Range(context) : e.item \in DOMAIN doc.nodes /\ e.loc \in Place
  /\ \A e \in Range(list) : e.at \in DOMAIN doc.nodes
  /\ outcome \in {"none", "ok", "err"}
  /\ stage = "call" => Call!TypeOK /\ case \in CallsFor(doc, at)

Blamed == {e.item : e \in Range(context)}

Contract == INSTANCE ParseContract
              WITH blamed <- Blamed, list <- IF outcome = "ok" THEN list ELSE <<>>

\* parse returns Ok exactly for a readable document whose nodes all conform,
\* with every value where it belongs; otherwise the Error names, of all the
\* nodes, exactly those that do not conform (wrappers.rs: Ok counts only while
\* the Context has no errors; containers.rs: an Err does not end the loop).
KeepsContract == Contract!Spec

\* Whenever the loop goes to the next node, the Context already names every
\* faulty node before it: no later node can hide an earlier one's errors.
FaultyNodesAreReportedInTurn ==
  stage = "next" => Blamed = {k \in FaultyNodes(doc) : k < at}

\* The errors of a document come node by node, and within a node in the order of
\* its decoding.
ErrorsInDecodingOrder ==
  \A g, h \in DOMAIN context : g < h =>
    \/ context[g].item < context[h].item
    \/ /\ context[g].item = context[h].item
       /\ Call!NotAfter(context[g].loc, context[h].loc)

\* A node that conforms is decoded the same whatever the nodes around it are:
\* nothing a decoder keeps while it runs reaches the next one.
ConformingNodesAreIndependent ==
  \A e \in Range(list) : ~Faulty(doc, e.at) =>
    \A c \in CallsFor(doc, e.at) : AsExpected(c, e.values)
=============================================================================
