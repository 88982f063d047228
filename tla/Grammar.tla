------------------------------ MODULE Grammar ------------------------------
(***************************************************************************)
(* The rules of the grammar that read a document (grammar.rs): nodes one   *)
(* after the other or in braces, each with a name, arguments, properties   *)
(* and children, of which a slashdash takes any away.  They read tokens,   *)
(* each of which stands for what one of Lexer's rules reads, or for a run  *)
(* of blanks.                                                              *)
(*                                                                         *)
(* The parser goes back wherever an alternative fails.  A brace can begin  *)
(* nothing but children, so a block that cannot be read fails the whole    *)
(* document, and up to there what a node goes on with is told from what    *)
(* lies ahead.                                                             *)
(***************************************************************************)
EXTENDS Integers, SequencesExt

CONSTANT Texts             \* sets of texts: one is picked, then a member of it

\* A word is an identifier or a string and may be a name; "v" is any other
\* literal, "ty" a type annotation, "sp" a run of blanks, "ml" and "lc" the two
\* comments, the second with the end of its line, "esc" an escaped line end.
Word == {"a", "b"}
Literal == Word \cup {"v"}
Blank == {"sp"}
LineSpace == Blank \cup {"ml", "lc", "nl"}
NodeSpace == Blank \cup {"ml", "esc"}
Terminator == {"nl", "lc", ";"}
Token == Literal \cup LineSpace \cup NodeSpace \cup Terminator
           \cup {"bom", "ty", "=", "{", "}", "/-"}

ASSUME TextsAssumption == \A group \in Texts : group \subseteq Seq(Token)

VARIABLES text,
          pos,      \* the next token; at the end, the one behind
          stage,
          nodes,    \* what has been read, each node before its children
          open,     \* the nodes that are being read, one within the other
          error     \* the brace that is reported, 0 if it is another error

vars == <<text, pos, stage, nodes, open, error>>

\* Of everything that is read its position is kept, 0 if it is not there.
Value    == [ty : Nat, at : Nat]
Property == [key : Nat, ty : Nat, at : Nat]
\* `block` is where the children begin and end, empty if there are none.
Node == [ty : Nat, name : Nat, args : Seq(Value), props : SUBSET Property,
         parent : Nat, block : Seq(Nat)]
\* `skip` and `hide`: a slashdash before the node, before its children.
Frame == [node : Nat, skip : BOOLEAN, hide : BOOLEAN, brace : Nat]

At(p, tokens) == p \in DOMAIN text /\ text[p] \in tokens
\* Behind the tokens of a kind from p on.
RunEnd(p, tokens) ==
  p + Cardinality({q \in p..Len(text) : \A r \in p..q : text[r] \in tokens})

\* document: a byte order mark is gone past.
Begin == /\ pos = IF At(1, {"bom"}) THEN 2 ELSE 1
         /\ stage = "nodes"
         /\ nodes = <<>> /\ open = <<>> /\ error = 0

Init == (\E group \in Texts : text \in group) /\ Begin

----------------------------------------------------------------------------
\* value, prop_or_arg_inner

\* Where the literal of a value that begins at p is.
LiteralAt(p) == IF At(p, {"ty"}) THEN RunEnd(p + 1, Blank) ELSE p
IsValue(p) == At(LiteralAt(p), Literal)
ValueFrom(p) == [ty |-> IF At(p, {"ty"}) THEN p ELSE 0, at |-> LiteralAt(p)]

\* Where the value behind an equals sign begins.
EqualsAt(p) == RunEnd(p + 1, Blank)
ValueAt(p) == RunEnd(EqualsAt(p) + 1, Blank)
IsKeyed(p) == At(p, Literal) /\ At(EqualsAt(p), {"="}) /\ IsValue(ValueAt(p))

\* Only a word may be a key.  Without a value behind it, the equals sign is left
\* and the word is an argument.
IsProperty(p) == At(p, Word) /\ IsKeyed(p)
IsArgument(p) == IsValue(p) /\ ~IsKeyed(p)
\* Slip: behind a key its value is not gone past.
EntryEnd_Key(p) == 1 + LiteralAt(p)
EntryEnd(p) == 1 + LiteralAt(IF IsProperty(p) THEN ValueAt(p) ELSE p)
IsEntry(p) == IsProperty(p) \/ IsArgument(p)

\* Behind a slashdash, which may be followed by more than one line's end.
Dashed(p) == At(p, {"/-"})
Behind(p) == IF Dashed(p) THEN RunEnd(p + 1, LineSpace) ELSE p

----------------------------------------------------------------------------
\* Reading a node.

Now == Last(open).node

SkipLineSpace == /\ stage = "nodes" /\ At(pos, LineSpace)
                 /\ pos' = pos + 1
                 /\ UNCHANGED <<text, stage, nodes, open, error>>

\* Where the name of a node that begins at p is.
NameAt(p) == IF At(p, {"ty"}) THEN RunEnd(p + 1, Blank) ELSE p
IsNode(p) == At(NameAt(p), Word)

\* Slip: a node is taken for a child of the one before it.
Parent_Before == Len(nodes)

Parent == IF open = <<>> THEN 0 ELSE Now

BeginNode ==
  /\ stage = "nodes"
  /\ LET start == Behind(pos)
     IN  /\ IsNode(start)
         /\ nodes' = Append(nodes,
              [ty |-> IF At(start, {"ty"}) THEN start ELSE 0, name |-> NameAt(start),
               args |-> <<>>, props |-> {},
               parent |-> Parent, block |-> <<>>])
         /\ open' = Append(open, [node |-> Len(nodes) + 1, skip |-> Dashed(pos),
                                  hide |-> FALSE, brace |-> 0])
         /\ pos' = NameAt(start) + 1
  /\ stage' = "node"
  /\ UNCHANGED <<text, error>>

\* Where the node goes on behind the space in it.
Onward == RunEnd(pos, NodeSpace)
EntryAhead == Onward # pos /\ IsEntry(Behind(Onward))

\* An entry in front of which there is some space and no slashdash.
Entry(Is(_)) == stage = "node" /\ Onward # pos /\ Is(Onward)

Argument ==
  /\ Entry(IsArgument)
  /\ nodes' = [nodes EXCEPT ![Now].args = Append(@, ValueFrom(Onward))]
  /\ pos' = EntryEnd(Onward)
  /\ UNCHANGED <<text, stage, open, error>>

\* Slip: the key that came last is kept, as a map that replaces its keys would.
Insert_LastKey(props, key, value) ==
  {q \in props : text[q.key] # text[key]}
    \cup {[key |-> key, ty |-> value.ty, at |-> value.at]}

\* BTreeMap::insert: of equal keys the first stays, with the value of the last.
Insert(props, key, value) ==
  LET same == {q.key : q \in {r \in props : text[r.key] = text[key]}}
  IN  {q \in props : q.key \notin same}
        \cup {[key |-> k, ty |-> value.ty, at |-> value.at] :
                k \in IF same = {} THEN {key} ELSE same}

SetProperty ==
  /\ Entry(IsProperty)
  /\ nodes' = [nodes EXCEPT ![Now].props =
                 Insert(@, Onward, ValueFrom(ValueAt(Onward)))]
  /\ pos' = EntryEnd(Onward)
  /\ UNCHANGED <<text, stage, open, error>>

IgnoreEntry ==
  /\ stage = "node" /\ EntryAhead /\ Dashed(Onward)
  /\ pos' = EntryEnd(Behind(Onward))
  /\ UNCHANGED <<text, stage, nodes, open, error>>

BlockAhead == At(Behind(Onward), {"{"})

OpenBlock ==
  /\ stage = "node" /\ ~EntryAhead /\ BlockAhead
  /\ LET brace == Behind(Onward)
     IN  /\ open' = [open EXCEPT ![Len(open)] =
                       [@ EXCEPT !.hide = Dashed(Onward), !.brace = brace]]
         /\ pos' = brace + 1
  /\ stage' = "nodes"
  /\ UNCHANGED <<text, nodes, error>>

\* Slip: the node of hidden children is dropped with them.
CloseBlock_DropsNode ==
  /\ stage = "nodes" /\ open # <<>> /\ At(pos, {"}"})
  /\ nodes' = IF Last(open).hide THEN SubSeq(nodes, 1, Now - 1)
              ELSE [nodes EXCEPT ![Now].block = <<Last(open).brace, pos>>]
  /\ pos' = pos + 1
  /\ stage' = "closed"
  /\ UNCHANGED <<text, open, error>>

\* Hidden children are read and then dropped, braces and all.
CloseBlock ==
  /\ stage = "nodes" /\ open # <<>> /\ At(pos, {"}"})
  /\ nodes' = IF Last(open).hide THEN SubSeq(nodes, 1, Now)
              ELSE [nodes EXCEPT ![Now].block = <<Last(open).brace, pos>>]
  /\ pos' = pos + 1
  /\ stage' = "closed"
  /\ UNCHANGED <<text, open, error>>

\* Nothing has to end a node but that it does not go on.
CanEnd == \/ stage = "closed"
          \/ stage = "node" /\ ~EntryAhead /\ ~BlockAhead

\* Slip: the slashdash before a node is read and forgotten.
EndNode_KeepsAll ==
  /\ CanEnd
  /\ nodes' = nodes
  /\ open' = Front(open)
  /\ pos' = IF At(Onward, Terminator) THEN Onward + 1 ELSE Onward
  /\ stage' = "nodes"
  /\ UNCHANGED <<text, error>>

\* A node behind a slashdash is dropped with its children.
EndNode ==
  /\ CanEnd
  /\ nodes' = IF Last(open).skip THEN SubSeq(nodes, 1, Now - 1) ELSE nodes
  /\ open' = Front(open)
  /\ pos' = IF At(Onward, Terminator) THEN Onward + 1 ELSE Onward
  /\ stage' = "nodes"
  /\ UNCHANGED <<text, error>>

Finish == /\ stage = "nodes" /\ open = <<>> /\ pos = Len(text) + 1
          /\ stage' = "done"
          /\ UNCHANGED <<text, pos, nodes, open, error>>

\* Slip: the error of the block around it takes the place of a block's own.
Unclosed_Outermost ==
  /\ stage = "nodes" /\ open # <<>> /\ pos = Len(text) + 1
  /\ stage' = "failed" /\ error' = open[1].brace
  /\ UNCHANGED <<text, pos, nodes, open>>

\* The text ends within braces.  The innermost are reported: merging keeps the
\* first error about something unclosed (errors.rs, ParseError::merge).
Unclosed ==
  /\ stage = "nodes" /\ open # <<>> /\ pos = Len(text) + 1
  /\ stage' = "failed" /\ error' = Last(open).brace
  /\ UNCHANGED <<text, pos, nodes, open>>

Fail == /\ stage = "nodes" /\ pos <= Len(text)
        /\ ~At(pos, LineSpace) /\ ~IsNode(Behind(pos))
        /\ ~(open # <<>> /\ At(pos, {"}"}))
        /\ stage' = "failed"
        /\ UNCHANGED <<text, pos, nodes, open, error>>

Ended == stage \in {"done", "failed"}
Done == Ended /\ UNCHANGED vars

Next == \/ SkipLineSpace \/ BeginNode \/ Argument \/ SetProperty \/ IgnoreEntry
        \/ OpenBlock \/ CloseBlock \/ EndNode \/ Finish \/ Unclosed \/ Fail \/ Done

Spec == Init /\ [][Next]_vars

----------------------------------------------------------------------------
(***************************************************************************)
(* Properties.                                                             *)
(***************************************************************************)
\* The variables have their types; the nodes that are open are in the list, one
\* before the other, and the one whose entries are read is the last.
TypeOK ==
  /\ text \in Seq(Token) /\ pos \in 1..(Len(text) + 1)
  /\ stage \in {"nodes", "node", "closed", "done", "failed"}
  /\ nodes \in Seq(Node) /\ open \in Seq(Frame) /\ error \in Nat
  /\ \A f \in DOMAIN open : open[f].node \in DOMAIN nodes
  /\ \A f, g \in DOMAIN open : f < g => open[f].node < open[g].node
  /\ stage \in {"node", "closed"} => open # <<>>
  /\ stage = "node" => Now = Len(nodes)

\* Where what belongs to a node itself has been read, its name apart.
Keys(n)   == {q.key : q \in n.props}
Values(n) == {n.args[i].at : i \in DOMAIN n.args} \cup {q.at : q \in n.props}

EntriesInOrder(n, end) ==
  /\ n.name < end
  /\ \A p \in Keys(n) \cup Values(n) : n.name < p /\ p < end
  /\ \A i, j \in DOMAIN n.args : i < j => n.args[i].at < n.args[j].at
  /\ \A q \in n.props : q.key < q.at

\* Nodes and arguments are in the order of the text, whatever was dropped
\* between them: the entries come behind the name of their node and before the
\* next node, none is read into two nodes, and a key is before its value.
ReadInOrder ==
  \A i \in DOMAIN nodes :
    /\ EntriesInOrder(nodes[i], pos)
    /\ i < Len(nodes) => EntriesInOrder(nodes[i], nodes[i + 1].name)

\* The parent of a node is the node of the innermost braces around it, those
\* behind a slashdash left out with all that is in them.
ParentsAreTheBracesAround ==
  LET Around(p) == {0} \cup {i \in DOMAIN nodes :
        nodes[i].block # <<>> /\ nodes[i].block[1] < p /\ p < nodes[i].block[2]}
  IN  stage = "done" =>
        \A i \in DOMAIN nodes : nodes[i].parent = Max(Around(nodes[i].name))

\* Where a node or a value begins, its annotation included.
StartOf(ty, at) == IF ty # 0 THEN ty ELSE at
EntryStarts(n) ==
  Keys(n) \cup {StartOf(n.args[i].ty, n.args[i].at) : i \in DOMAIN n.args}
DashBefore(p) == \E q \in 1..(p - 1) :
                   At(q, {"/-"}) /\ \A r \in (q + 1)..(p - 1) : At(r, LineSpace)

\* Nothing that begins behind a slashdash is kept, and a slashdash reaches over
\* the ends of lines.
NothingSlashdashedIsKept ==
  stage = "done" => \A i \in DOMAIN nodes :
    /\ ~DashBefore(StartOf(nodes[i].ty, nodes[i].name))
    /\ \A p \in EntryStarts(nodes[i]) : ~DashBefore(p)

\* If the text ends within braces the error names the last that nothing closes.
UnclosedNamesTheInnermost ==
  LET Count(kind, p) == Cardinality({q \in p..Len(text) : At(q, {kind})})
      Unpaired(p) == At(p, {"{"})
                       /\ \A q \in p..Len(text) :
                            Count("{", p) - Count("{", q + 1)
                              > Count("}", p) - Count("}", q + 1)
  IN  error # 0 => error = Max({p \in DOMAIN text : Unpaired(p)})
=============================================================================
