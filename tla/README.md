# A TLA+ model of knus

knus turns KDL text into Rust values. It has two halves: a library crate
(`src/src`) with the parser, the AST, the traits and the decoders of scalars, and a
derive crate (`src/derive/src`) that generates the decoder of each user type. This
directory models what happens between the text and the value, checks it with TLC
on small types and documents, and proves some of it with TLAPS for all of them.

Everything is sequential: one thread, no I/O, nothing persisted. What is hard here
is not concurrency but *partial failure*. A decoder has two ways to report a
problem. It can `emit_error` to the shared `Context` and go on with a placeholder,
or return `Err`, which ends the current call and is turned into an emission by some
caller further up. The code mixes both freely, so that the user sees many errors at
once. Whether every problem is reported, once, in order, and no placeholder ever
gets out as a value, depends on every arm of the generated code doing its half.

## The system

| Component | Source | State | Operations |
|---|---|---|---|
| Struct decoder | `derive/src/node.rs` (generated code) | local variables of the fields, `seen_` flags, iterators | `decode_node`, `decode_children`, `insert_child`, `insert_property`, the `unwrap` closures |
| Enum and newtype decoder | `derive/src/variants.rs`, `node.rs:143-207` | none | the match on the node's name |
| parse and the node list | `wrappers.rs`, `decode.rs:139-152`, `containers.rs:123-134` | the `Context` (errors), the list | `parse_ast`, `parse_with_context`, `decode::node`, `Vec::decode_children` |
| Scalars | `convert.rs`, `decode.rs:55-104`, `scalar.rs`, `traits.rs`, `node.rs:209-295` | none of their own; emit to the `Context` | `type_check`, `raw_decode`, `bytes` |
| Spans | `span.rs` | the offset of the stream; the loop of `line_column_of_end` | `next_span`, `to_line_column` |
| Grammar | `grammar.rs` | the position in the text (chumsky), the nodes read so far, the nodes that are open | characters: `ml_comment`, `number`, `ident`, `escaped_string`, `raw_string`, `literal`; tokens: `nodes`, `prop_or_arg`, `braced_nodes`, `document` |
| AST | `ast.rs` | data only | `BuiltinType::from_str`, cbor codecs |
| Definition | `derive/src/definition.rs`, and what of it `node.rs`, `variants.rs` and `lib.rs` emit | `FieldAttrs`, the `StructBuilder`, the errors emitted | `Definition::parse`, `Enum::new`, `FieldAttrs::update`, `add_field`, `build`, `emit_decoder`, `unwrap_fn` |
| Errors | `errors.rs` | data; `ParseError::merge` | |
| Forwarding containers, AST conversion, crate root | `containers.rs`, `convert_ast.rs`, `src/lib.rs` | none | |

`parse` calls the grammar once and then the decoder of the root type. The decoder of
a struct calls, in the order of its phases, the scalar decoders for arguments and
properties and the decoders of the field types for children. All share one `&mut
Context`. Spans travel through the AST into the errors and become lines and columns
when an error is shown or a `LineSpan` is decoded.

What makes each component correct:

* *Struct decoder*: it accepts exactly the nodes that conform to the struct, every item
  goes to the one field it belongs to, defaults apply exactly where nothing is
  given, whatever does not fit is reported and nothing else is, placeholders never
  go unreported, and an `Err` in the middle loses no earlier item.
* *Enum, newtype, list, parse*: `Ok` is returned exactly for documents that conform;
  the errors name exactly the nodes that do not, in document order; one node's
  failure neither hides nor changes another's result.
* *Scalars*: annotation, kind and text are each checked, in each of the decode modes,
  and `Option` adds the null and nothing else.
* *Spans*: byte spans tile the text; line and column are those of the text.
* *Grammar*: what is written is read back as it was meant, in any layout; a slashdash takes
  away exactly what stands behind it; comments nest; no number is read as a name; going
  back after a failed alternative loses nothing and comes to an end; text that ends
  within braces is reported where they were opened.
* *Definition*: the derive goes through exactly for the declarations that keep the rules
  and have nothing it does not support; every field lands where its attributes say, in the order
  of the declarations; nothing stands behind a catch-all field; the decoders generated bind each
  field they name, once.

## Modules

| Module | What it is |
|---|---|
| `Scalars` | fields and values as data; `DecodeValue`, what decoding comes to in one step; `Admits`, the declarative reference |
| `ScalarDecode` | the same decoding step by step, with the error each step makes |
| `Schemas` | the two inputs of a generated decoder: the struct as the derive sees it, and the AST node |
| `Conformance` | the reference: `Faults`, the places where a node does not conform to a schema, and `AsExpected`, where each item belongs |
| `DecodeContract` | abstract specification of one decoder call, in terms of `Conformance` |
| `StructDecode` | the generated decoder, one action per arm; implements `DecodeContract` |
| `Documents` | the root types, enums and newtypes, documents, and `Faulty` nodes |
| `ParseContract` | abstract specification of `parse` |
| `Parse` | `parse`, the list loop, enum and newtype decoders; each call of a struct decoder is a run of an *instance* of `StructDecode`; implements `ParseContract` |
| `Spans` | the character stream and `to_line_column`, against the grammar's own notion of a line |
| `Lexer` | the rules of the grammar that read characters: comments over several lines, and literals, as a parser that tries alternatives and goes back |
| `Grammar` | the rules that read tokens: nodes, entries, blocks, slashdashes, terminators |
| `Layouts` | what a document looks like and says: where its nodes, entries and braces are and what may come between them (`LaidOut`), and the nodes it stands for (`SaysAll`) |
| `Writing` | documents as trees, and how they can be written as tokens (five styles, slashdashes anywhere), with the places of their nodes |
| `GrammarRules` | `Grammar` reading what is laid out by `Layouts`: `ReadsBackWhatWasWritten` |
| `Declarations` | structs and enums with their attributes as data; how attributes are read (`ModeAt`, `ReadErrors`) |
| `Definitions` | the derive itself, one action per field read, arm generated and decoder emitted |
| `DefinitionRules` | the rules of what may be written, each with the line of `derive_decode.md` it is from (`Legal`); what the derive does not support all the same (`Supported`) and where its decoders name a field too few or too many (`Gap`); and the properties of `Definitions` |
| `ScalarProofs`, `ScalarDecodeProofs`, `DefinitionProofs`, `LexerProofs`, `GrammarProofs`, `SpansProofs` | theorems |
| `StructDecodeProofs` | theorems: what becomes of every item of a node, and that `StructDecode` implements `DecodeContract` |
| `ParseProofs` | theorems: that `Parse` implements `ParseContract`, from the theorems about its calls |
| `MC*` | instances for TLC |

Modules build on one another as `Scalars <- Schemas <- Conformance <- StructDecode`,
and `Conformance <- Documents <- Parse`, with `Call == INSTANCE StructDecode` in `Parse`; and
`Declarations <- Definitions <- DefinitionRules`, `Grammar <- Layouts <- GrammarRules`. `Writing` prints
with recursive operators, so it is kept out of what the proofs reach: only `MCGrammar` uses it, to
make documents for TLC, and `DocumentsAssumption` has TLC check that each is laid out as `Layouts` says.

Operators whose comment starts with "Slip:" are plausible bugs in the definition
that follows them. No behaviour uses them; they serve to see that a property would
notice. `PROJECT.json` says which slip each property is tried on.

### How StructDecode corresponds to the code

The derive generates, for each struct, a function made of the text that `decode_specials`,
`decode_args`, `decode_props`, `decode_children` and `assign_extra` produce. `phase`
is the piece that runs, `pos` the field or item its loop has come to, `vals` the local
variables (`None`, `false` and the empty vector are all `<<>>`), `seen` the
`seen_` flags, `errs` what was emitted to the `Context`, `raised` the `Err` that ended the
call. An item in a field remembers which item of the node it came from (`at`; 0 is the
default) and whether it is the decoded value or a placeholder (`clean`). Every arm of a
generated `match` is an action; its guard says that no earlier arm takes the name,
because Rust tries them in order. `Settle` is the common end of an arm: emit, then
assign or return. `case.entry` says which of the four generated functions runs:
`decode_node`, the body of a tuple variant, an `unwrap` closure, or `decode_children`
of the root.

Abstractions: a scalar is its annotation, the kind of its literal and a flag for what is
wrong with its text; a child is one of three outcomes (`good`, `soft`: `Ok` but with
errors emitted, `hard`: `Err`) and the number of its own items, which is all that
`check_flag_node` looks at. `DecodeContract` is what justifies this: its verdicts are
the same three. Properties are in the order of the AST's `BTreeMap`. A flattened struct
is a list of its optional properties and children; a flattened struct in a flattened
struct is not modelled.

### How Parse corresponds to the code

`Return` is the body of the loop in `Vec::decode_children`, and, for the other roots,
the match in `parse_with_context` and `decode::node` that has the same two arms: what a
call emitted is in the `Context` already, an `Err` goes behind it, an `Ok` is kept.
`Finish` is `Ok(_) if ctx.has_errors()`. The errors are collected per call and moved to
`context` on return, tagged with their node; that is sound because a call never reads
the Context and nobody else does while it runs. A root of a single node or of a
struct of children is a document of one "node".

### How Spans corresponds to the code

`NextSpan` is one call of the iterator behind `Span::stream`. `MakeSpan` is chumsky:
a span begins where one character begins and ends where the same or a later one ends, or is
the empty span at the end of input. `ScanChar` is one turn of the loop of
`line_column_of_end`, which `to_line_column` runs over the text before the span and
then over the text inside it.

### How Lexer corresponds to the code

A chumsky parser is an ordered choice of alternatives. One that fails puts the position
back to where the choice began, and the next is tried. `stage` is the alternative that is
tried and `pos` the position; `Ends` is success, `Tries` the next alternative. Where a rule
only repeats a class of characters it is read in one step (`RunEnd`); the loops with a
choice in them, comments and strings, go character by character.

A comment is the one rule that calls itself, so its state is a stack: `opened` holds where the
comments that are open begin. When the text ends within the inner one, that
call fails and its caller goes back to before its slash, takes the slash for
a plain character, and reads the same text again one level up. `Backtrack` is that. The work doubles with
each comment that is not closed, which `Terminates` says is still finite.

`rule` picks what is read from the start of the text: `ml_comment` or `literal`. Letters
that no rule tells apart are one character each (`e`, `n`, `x`, and `inf` for
the letters of a keyword). The prefixes `0b` and `0o` behave as `0x` does and are left
out; so are `\u{..}` escapes and the recovery after a bad escape, whose only effect is on errors.

Some things are not what a reader of the KDL specification would expect, and the model
has them as they are: `-.a` is read as the identifier `-` and then `.a`; the third
alternative of `bare_ident`, for dotted identifiers, can never be reached; `!` may begin an
identifier but not go on with it; the digits of an exponent may be missing.

### How Grammar corresponds to the code

The text is a sequence of tokens, each standing for what one of `Lexer`'s rules reads, or for a
run of blanks. `nodes` holds the AST as a list, each node before its children, with
positions in the text for every name, value and key; `open` holds one frame for each
call of `nodes` that has a node in hand, with the flags the code keeps in its closures: a
slashdash was before the node (`skip`), before its children (`hide`). Where
the code reads a part and drops it afterwards, the model does the same: hidden children and
slashdashed nodes are read into `nodes` and cut off when their block or node ends.

The grammar goes back as well, but never past a brace: `{` begins nothing but
children, so a block that cannot be read fails the document. Up to there what
comes next is decided by looking ahead (`IsProperty`, `IsArgument`, `EntryAhead`,
`BlockAhead`, `CanEnd`), in the order of the alternatives. `Insert` is `BTreeMap::insert` on
spanned keys, which are compared by their text: the first key's span stays with the last value.
`SetProperty` and `Argument` include all of what the fold over the entries does with one.

Of errors only the one is modelled that a text makes which just ends within braces
(`Unclosed`); which of the others is reported is decided by the furthest position
chumsky has come to, a library that is not in the repository.

A node needs no terminator: it ends where it does not go on. So `node 1a` is two
nodes, and `a"b"` is two as well; the model has this, and the properties do not
object.

### How Definitions corresponds to the code

Here the program is the compiler's plugin and the state is that of `decode_derive`. `stage` is
the function that runs: `container` and `item` are `Definition::parse` and the loop of
`Enum::new`, `fields` the loop of `Struct::new`, `emit` and `children` what `emit_decoder`
calls. `bld` is the `StructBuilder`, one sequence for each of its vectors, with `fld` for the
position of a field among the declarations. `AddField` and `RefuseField` are
`FieldAttrs::update` and `add_field` together: problems of attributes are emitted and
reading goes on, those of `add_field` are an `Err` (`failed`); the assertion and the
`unimplemented!` of the emission are `panic`. `kids` is the loop of `decode_children` over
the fields that need an arm; an `unwrap` builds a struct of one field, whose own arms
come before the next field, as the calls nest. `made` collects the decoders with the Struct
they are made of, so that `Binds` can compare the fields a decoder names with those it
declares. The entry of a decoder says which of the generated functions it is, and of one that only
decodes its payload whether the value goes into `Some(..)` (`optional`) or not (`payload`).

Abstractions: attributes are parsed tokens, with `garbage` for those that cannot be parsed;
names, kebab-case, default expressions and generics are left out, and a type is `Option`,
`bool` or another. Beyond that types are the compiler's: the model does not say which of the
generated code type-checks, except for the `Some(..)` around a payload (the run `newtype`).
Errors are a set, since the extra traits generate some code once
more and repeat its errors. Of an `unwrap` that cannot be read one error is kept, not also those its
inner attributes made before.

## Runs

| Run | What it checks | Instance |
|---|---|---|
| `struct_decode` | `KeepsContract` (refinement of `DecodeContract`), `PlaceholdersAreReported`, `ErrorsInDecodingOrder`, `NoChildPassedOver`, `NothingSilentlyReplaced` | 308,587 states |
| `parse` | `KeepsContract` (refinement of `ParseContract`), `FaultyNodesAreReportedInTurn`, `ErrorsInDecodingOrder`, `ConformingNodesAreIndependent` | 13,403 states |
| `scalar_decode` | `SettlesAsDecodeValue`, `AcceptsExactlyTheAdmitted`, `OptionOnlyAddsNull`, `OneErrorPerPart` | 17,244 states |
| `definitions` | `AcceptsTheLegalItSupports`, `CatchAllComesLast`, `NothingIsLost`, `FieldsAreBoundButForTheGaps` | 72,446 states |
| `spans` | `SpansTileTheText`, `LinesAreTheGrammars`, `BothEndsAreCounted`, `EndIsNotBeforeStart` | 57,563 states |
| `lexer` | `CommentsEndWhereTheyNest`, `NumbersAreNeverNames`, `WordsAreReadWhole`, `StringsEndAtAnUnescapedQuote`, `Terminates` | 210,702 states |
| `grammar` | `ReadsBackWhatWasWritten`, `ReadInOrder`, `ParentsAreTheBracesAround`, `NothingSlashdashedIsKept`, `UnclosedNamesTheInnermost` | 1,770,391 states |
| `type_names`, `own_type`, `crlf_column`, `tuple_filled`, `newtype` | one statement each of the documentation or an assertion that the code does not keep | as above |

Every passing run also checks the `TypeOK` of its module. Deadlock is not checked where a
call, a parse, a conversion or a derive ends; `Grammar` has a `Done` step for its ends, and there it is
checked: whatever the tokens, the parser goes on until it has read or refused the document.

Bounds, and why they are enough:

* `MCStructDecode` has, per section of a struct, all schemas of at most two fields with
  and without the catch-all field, against all nodes of at most three items (two
  properties), and some schemas with every section at once. An arm looks at one
  item and one field; two fields give "an earlier arm takes it" and "the next field is
  empty", three items give a duplicate between others, and one argument
  more than two fields take. Two names give "known", "of the other field" and, in schemas
  with one field, "unknown".
* `MCParse` has documents of up to three nodes, so that a faulty node may be before,
  between and behind conforming ones; each form of root; every kind of variant.
* `MCScalarDecode` has every field there is; annotations are cut to one of each kind that
  a field can tell apart. Nothing is unbounded there.
* `MCSpans` has all texts of up to four characters over a letter, a wide letter, LF, CR and
  VT, and of up to three over the rest, and every span of each: a break pair with a
  letter before and behind it, cut at any place.
* `MCDefinitions` has structs and tuple variants of up to two fields in all of fifteen
  modes, and of three in nine; fields with up to two attributes, in one `#[knus(..)]` or two, inside an
  `unwrap`, or in an `unwrap` within it; enums of up to two variants. The checks of
  `add_field` relate one field to an earlier one, and `kids` nests by the same rule at
  each level, so a third field and a second level show every case.
* `MCLexer` has all texts of up to eight characters over `/`, `*` and a letter, enough for three
  comments one in the other with any of their ends missing; all of up to three over
  nearly every character; and longer ones over the few characters that one rule
  tells apart: strings of six, raw strings and numbers of five.
* `MCGrammar` has all texts of up to four tokens out of all of them, longer ones over the
  tokens of blocks and slashdashes, of properties, and of layout; and documents made by `Writing`: lists of up to two nodes, nodes nested
  three deep, entries of up to three, each with and without slashdash, in five styles that between them
  use every kind of space, line end and terminator. Every rule looks at one node, its
  entries and the frame around it, so a third level repeats the second.

Fairness: only `Lexer` has any, `WF_vars(Next)` in its `Spec`. The parser is one sequential thread that
does not block, so it takes its next step; nothing more is assumed. `Terminates` then
says that the parser of comments goes back only finitely often. The other components are loops
over finite lists, whose end is plain from their shape, and no property speaks of it.

## Proofs

TLAPS checks, for all values of the constants (schemas and nodes of every size, all
fields and values):

* `StructDecodeProofs!TypeCorrect`: `Spec => []TypeOK`. `TypeOK` is inductive; the proof has a
  step for each action, and lemmas for the three common endings (`Settle`, `FillIn`,
  `SetFlag`).
* `StructDecodeProofs!PlaceholdersReported`: `Spec => []PlaceholdersAreReported`. The invariant is
  inductive together with `TypeOK`: an action that stores an item either stores a clean
  one or has just emitted an error at its place, by `DummyIsEmitted`, and errors are never
  removed. `TypeOK` is needed to know that the values decoded are values and
  the fields fields, so that the lemmas about `DecodeValue` apply.
* `StructDecodeProofs!ErrorsComeInOrder`: `Spec => []ErrorsInDecodingOrder`. The errors so far all
  belong to a phase that has come, and in the phase that runs to an item no later than the one
  it looks at (`ErrorsAreBehind`); every action blames at most the place it has come to
  (`StepBlames`), so what it appends comes last.
* `StructDecodeProofs!NothingReplacedSilently`, `ChildrenAccountedFor` and `ContractKept`: `Spec =>
  NothingSilentlyReplaced`, `Spec => []NoChildPassedOver` and `Spec => KeepsContract`, the
  refinement of `DecodeContract`. All three rest on one inductive invariant, `CInv`. What
  must be known at the end is what became of *every* item of the node; so `CInv` says it
  of the items that are `Gone`, those the phases and loops have put behind them:
  `Blameless` (what is reported is a fault of the case), `Thorough` (a fault that is gone is
  reported), `InPlace` (a slot only holds items that belong to it), `Delivered` (an item that is gone
  without fault is in its slot, as long as nothing was reported), `Filled` (a field that takes no
  null has a value once an item for it is gone, which is how duplicates and missing fields are told),
  `SeenRight` (`seen` has the optional properties that are gone). A step lemma per
  action (`...Keeps`) shows what it does to the one item it is at, and
  `TurnsKeep` that a change of phase leaves nothing out. When the call ends with `Ok`,
  everything is gone, so the report is all of `Faults` or, if there are none, the fields are `AsExpected`;
  when it ends with `Err`, `Blameless` is enough.
* `ParseProofs!ContractKept`: `Spec => KeepsContract`, the refinement of `ParseContract`, for
  documents of any length and every struct, newtype or enum; with it `TypeCorrect`,
  `FaultyNodesReported`, `ErrorsComeInOrder` and `NodesAreIndependent`. The proof is one of
  composition. `Decoder == INSTANCE StructDecodeProofs` is the decoder that `Parse` runs, with
  its theorems, and a first part shows that both instances and `Conformance` mean the same
  (`SameStep`, `SameFaults`). `PInv` says that a running call is the one the node gets and
  keeps the decoder's own invariants (`CallRuns`), and what the loop has made of the nodes
  before `at` (`Loop`): exactly the faulty ones are blamed, and while none is, the list has one
  element for each. `CallsResult` is where the two meet: when a call ends, `CInv` says
  that there are errors exactly if the node is faulty, and that otherwise its fields are `AsExpected`.
  `NodeDone` is the step of the loop, for a call and for a node that needs none alike.
* `ScalarProofs!CleanIffAdmitted`: `DecodeValue` is free of errors exactly where `Admits` holds.
  The proof goes by decode mode.
* `ScalarDecodeProofs!ComesToDecodeValue` and `TakesExactlyTheAdmitted`: the steps
  of `ScalarDecode` come to `DecodeValue`, and so to `Admits`. Neither property is inductive: in
  the middle of a decoding nothing says how many errors there are. `IInv` adds
  `SoFar`: after the type check as many errors as `TypeCheck` counts, after the
  bytes were read as many as `Bytes` counts, and nothing returned before the end.
* `ScalarDecodeProofs!TypeCorrect`, `OptionAddsTheNull` and `ReportsEachPartOnce`: from the same `IInv`. The second
  is `Admits` for a field with and without its `Option`; the third
  needs `Parted`, which says at each stage how many errors there can be and
  that those before the literal are about the annotation.
* `LexerProofs!TypeCorrect`, `NumbersStayNumbers` and `WordsStayWhole`, for texts of any length.
  `RunEnd` is defined by counting, not by recursion, so that what a run is can be
  proved without induction: the positions counted form an initial interval, or there
  would be too few of them (`RunIsOfItsClass`), and one more would have been counted
  (`RunIsWhole`). The identifier theorems need `Named`: an identifier is tried only
  where no number begins.
* `LexerProofs!StringsEndWhereTheyShould`: the parser skips a backslash with the character
  behind it, the property counts the backslashes before a quote. `InString` joins the
  two: no quote that has been passed is free, and wherever the parser stands after a
  pair the backslashes right before it are even in number.
* `LexerProofs!CommentsEndAsTheyNest`: the property counts beginnings and ends from the left,
  in one pass; the parser opens comments, finds some of them unclosed, and goes back. That
  `Nesting`, a recursive function, has the values its definition says is proved by
  constructing the solution up to each position (`NestingUnfold`). `InStep` is what holds on the way: a comment
  whose counted end exists is never given up, and when it is read the count is in step
  with the parser (`Kept`); the count is ahead of the number of open comments only by those
  that were given up, which no counted end closes (`Ahead`).
* `GrammarProofs!TypeCorrect`, `ReadsInOrder`, `SlashdashedIsDropped`, `ParentsAreBraces` and
  `NamesTheInnermost`, for any list of tokens.
  `TypeOK` contains what makes the stack a stack: open nodes are in the list, in
  ascending order, and the one whose entries are read is the last; without it
  `CloseBlock` and `EndNode` could cut a node that is still open. `ReadInOrder` is
  inductive with it. `NothingSlashdashedIsKept` speaks of the end only;
  `Undashed` says what holds on the way: reading never goes on
  right behind a slashdash, and a node that began behind one has a frame that remembers it.
  `ParentsAreTheBracesAround` too speaks of the end. On the way a block is either closed and in
  its node, or open and only in a frame; `Around` joins the two, and `Nested` says that the parent
  is the last of the nodes around. That blocks close in the order of the stack is not needed,
  only that names, braces and `pos` come in order (`Braced`): then closing a block
  leaves `Around` as it was, and dropping nodes takes away only what reaches over no node
  that stays. `UnclosedNamesTheInnermost` counts braces, so `Balanced` does: `Surplus` is how
  many more left than right ones are from a position on; the brace of an open block is above
  all that follows, by as much as blocks are open within it, and every other
  left brace has been met. `Plain` runs, which have no brace, keep the surplus; each of the two
  actions on braces changes it by one.
* `GrammarProofs!WrittenIsReadBack`: `WrittenSpec => []ReadsBackWhatWasWritten`, for documents of any
  size in any layout `LaidOut` allows. The reader looks ahead token by token; the property
  speaks of a finished list and of a layout of the whole text. `RInv` is what
  holds on the way, with the position of a name as the identity of its node. `InStep` says where
  reading stands: it is inside the head of no node but the one at hand, and between nodes there
  are only lines up to the next point where one begins or a block ends. `Listed` says
  that the list has exactly the places that were met and are not gone, each read
  as far as `pos`; `Stacked`, that the open frames are exactly the nodes in hand and remember their
  slashdashes. `Left`, `Hid` and `Gone` say what those have taken and when. Each lookahead is
  shown to recognise what is there: an entry (`EntryIsAhead`), a block (`BlockIsAhead`),
  neither (`NothingIsAhead`), a node's end (`TrailIs`). So no step refuses the
  document (`NothingFails`), and each reads one piece of it (one `...KeepsReading` per action,
  `PropsGrow` for `Insert`). Parents come from `Nested`, which is proved above (`ParentFound`).
* `DefinitionProofs!DefinitionTypes` and `CatchAllsComeLast`: `Spec => []TypeOK` and
  `Spec => []CatchAllComesLast`, for declarations of any size. `TypeOK` is not inductive
  alone: what `EmitUnwrap` builds has the right type only if the field it is for is one of
  the item at hand. Nor is `CatchAllComesLast`: a new field comes last only if the ones in
  `bld` were read before. `IInv` is `TypeOK`, `CatchAllComesLast` and `Ranges`: every entry of `built` and
  `kids` stands for a field that exists, and every entry of `bld` for one before `fld`. That the last attribute of a kind is one of its attributes
  (`MaxIsMember`) follows from the well-foundedness of the naturals.
* `DefinitionProofs!NoFieldIsLost` and `AcceptsTheLegal`, for any number of items, fields and
  attributes and unwraps of any depth. `NothingIsLost` says too little to be inductive: `Kept`
  says what an entry *is* (`Exact`: the first `fld - 1` fields, each in the sections
  of its mode as `ReadOf` makes it, and nothing else), what was built of the items behind
  `item`, and that the kind of each is the one its declaration gives (`AsRead`). `AddField`
  is the step that matters (`PushExact`). `AcceptsTheLegalItSupports` speaks of the end only, and of what is written, where the derive
  knows what it has read. The two agree on declarations that are read without an error (`WrittenIsRead`,
  `CountedAsRead`, `ModesAsRead`), so the rules can be put in terms of what is read:
  `InputAsRead` shows that `LegalAsRead` is `Legal` with `Supported`, `GapIsAsRead` the same for `Gap`.
  `Judged` is what holds on the way: whoever is blamed is right (a problem emitted, returned or
  panicked over means that the input is not legal), and while nobody is blamed what has been read
  and emitted is without fault (`Flawless`). Each way to be blamed is matched with the rule it breaks:
  `FieldOk` and `UnwrapsOk` are together `LegalDeclAsRead` (`LegalIsOk`); a closed section is a
  field out of order (`ClosedIsOutOfOrder`, and `OnlyBeforeIsInOrder` for the converse, from
  `CatchAllComesLast`); the assertion for tuples is `LegalTupleAsRead`, by counting the places of a
  Struct against the fields that fill them (`PlacesOf`, `AllFilledMeans`). For the unwraps
  `KidsReachAll` says that one that counts has been emitted or is reached from one that
  waits in `kids`. `Reached` is recursive along the attributes; what it computes is proved by
  constructing its solution from the least position that would have none
  (`CountsUnfold`), and that every unwrap that counts is reached by least counterexample too
  (`CountsUnder`).
* `DefinitionProofs!NothingElseIsMade` and `DecodersBindTheirFields`: what is in `made` at the end, and
  which of it binds the fields it names. It is a theorem about names; that the code type-checks is not claimed. `Decoders` is what an item comes to: its own functions, and for each
  unwrap that counts one closure. `Judged` also says that the decoders of every item
  behind are made and that an unwrap that counts is made once it has been taken from
  `kids`; `MadeForItems` that nothing else is, and nothing at all before all is read. With `Exact`
  this leaves a question about a declaration, answered for each kind of item: which of
  its fields does a function name twice, leave out, or fill with what it has not got?
  A field is named by the sections for its mode (`SectionFields`), by a single one except in a flatten
  (`DeclaredOnceMeans`, `SingleMeans`), and `insert_child` is there exactly where all fields are optional
  (`PartialMeans`). Both directions are proved: what binds its fields (`StructBinds`,
  `TupleBinds`, `PayloadBinds`, `UnwrapsBind`) and that each `Gap` is one (`GapIs`).
* `SpansProofs!SpansTile`, `LinesAgree`, `BothEndsCounted`, `EndsComeAfterStarts` and `TypeCorrect`,
  for texts of any length. `Sums` adds up the bytes or columns of a text's beginnings; what it
  computes is proved like `Nesting` (`SumsUnfold`), and that the sums of a slice are
  differences of sums of the text by going through the positions one by one (`OneByOne`, from the
  well-foundedness of the naturals; `SumsOfPrefix`). `Tiled` says that every span has the bytes of its
  character, so that an offset of a span tells how many characters are before it (`CharsBeforeByte`) and a
  slice is the characters it should be (`ScannedIs`). `Scans` says what a turn of the loop
  knows: the line is the number of breaks so far and `last` is behind the last of them
  (`Reads`), and when a loop ends its result is a scan of its slice (`IsScan`). The rest is about
  scans. Two of them one behind the other are one (`EndIsScan`), except where the slice begins
  between a CR and its LF; and a scan from the start of the text finds the position that the grammar's lines give
  (`ScanIsPosition`), except that between a CR and its LF it is one line ahead (`ScanIsLine`).

Assumptions: only that the inputs are inputs (`InputsAssumption`, `FieldsAssumption`,
`ValuesAssumption`, `DocsAssumption`, `TextsAssumption`, `DocumentsAssumption`), which TLC evaluates in the runs that
use them.

Every invariant of every passing run is a theorem. Model-checked only: liveness (`Terminates`), which
the prover does not do, and that what `Writing` writes is laid out as `Layouts` says, for the documents of
`MCGrammar`. Where a proof needs
an induction over a text, it takes the least counterexample instead, as the library's induction
theorems have an operator as a parameter and cannot be used.

## What the checks show

All the properties of the passing runs hold. On the way five places were met where the
code does not do what its documentation or its own assertion says; each has a run that finds it:

* `type_names`: tuple variants and `unwrap` skip `decode_specials`, so a type annotation on
  such a node is silently accepted (`derive_decode.md:619`).
* `own_type`: `(usize)` and `(isize)` are not recognised (`ast.rs:241`).
* `crlf_column`: behind CR LF every column is one too high (`span.rs:85`).
* `tuple_filled`: `flatten(child, property)` in a tuple fails the derive's own assertion, as the
  field is listed twice (`node.rs:54`).
* `newtype`: the decoder of every newtype puts its payload into `Some(..)`, so only a payload that
  is an `Option` compiles (`node.rs:158`), while `derive_decode.md:10` promises any that is `Decode`.

More differences are in the model without a run of their own. A number's decoder reports
"expected string" (`convert.rs:37`, against `errors.rs:66`). A `default` on a catch-all field
is dropped without a word (`definition.rs:502`, against `derive_decode.md:514`). A value of the wrong
kind in a byte array gives a conversion error on top of the kind error (`errors.rs:113`). A
vertical tab ends a line for the grammar (`grammar.rs:44`) and not for the lines of spans
(`span.rs:85`): `LinesAreTheGrammars` leaves it out and `BothEndsAreCounted` says that it
does not count. `flatten(children)` and `flatten(properties)`, which `derive_decode.md:599` lists,
cannot be parsed (`definition.rs:874`): they are in `Legal` and not in `Supported`. A `default` on a
child that is an `Option` makes its arm ask for `Option<T>: Decode`, which there is not
(`node.rs:837`, against `derive_decode.md:514`); this is about types and outside the model.

`AcceptsTheLegalItSupports` is an equivalence between what the derive does and two lists. `Legal` is
what the documentation allows, taken from its lines and not from the parser: it has
`flatten(children)`. `Supported` leaves out what the derive falls short by: the words of a flatten it cannot
read, a flatten of an `Option`, and tuples whose fields it counts wrongly.

`FieldsAreBoundButForTheGaps` is an equivalence too. It says that a decoder names a field that
nothing before it has bound, or binds one twice, exactly for the declarations `Gap` lists: a
flatten of neither or both directions, special fields in variants, special fields or no mode in
an `unwrap`, and an `Option` of `children` in a struct whose other fields are optional too. A decoder
that binds its fields need not compile: `children` or `span` on an `Option` or a `bool`, a
newtype of no `Option` and a type without the traits it needs pass it and are
refused by the compiler.

## Not modelled

* Of the grammar: every error but that of an unclosed brace, and with them the span
  arithmetic of error reports; `\u{..}` and bad escapes; `0b` and `0o`; what number a literal stands for (a fault flag in `Scalars`).
* The second alternative of `prop_or_arg_inner` (`grammar.rs:584`), which reads a bare identifier. It is
  reached only where the first refuses a key that is no word: of `node -1=2` it takes the `-`
  for an argument, emits an error and goes on at `1=2`, where `Grammar` fails at once
  (`IsArgument`). Either way the document is refused; the errors it is refused with are left out above.
* What else is reported when a text ends right after `/-` within braces: there `Fail` names no
  brace (`error` is 0), and `UnclosedNamesTheInnermost` says nothing of it.
* `ParseError::merge`: which two errors meet there depends on positions that chumsky keeps,
  and chumsky is not in the repository. Only that an unclosed brace wins is in `Grammar`.
* Of the derive: the text of attributes, names and generated code; `DecodeScalar`'s own derive
  beyond the match it generates (`ScalarDecode`).
* Context extensions: a typed map the library never reads for its own decisions.
* `convert_ast.rs`, `Box`/`Rc`/`Arc`/`Spanned`, the minicbor codecs, `src/lib.rs`: copies and
  forwarding, without control of their own.
* Wording of messages, labels, the graphical report: formatting.

## Plan

1. Done: `Scalars`, `Schemas`, `Conformance`, `StructDecode` with its contract, `Parse` with
   its contract, `ScalarDecode`, `Spans`; the theorems above.
2. Done: `Definitions`, with the theorems above. Left: composed with
   `StructDecode`, an accepted definition is a schema of `Schemas`.
3. Done: `Lexer`, `Grammar` with `Layouts` and `Writing`, and the theorems above. Left: `Grammar` composed with `Parse`,
   the `nodes` of `Grammar` as the `doc.nodes` of a document.
4. `Parse` with nested struct decoders below the top level, so that the three outcomes of
   a child are replaced by a real call, and flattened structs inside flattened structs.
5. Done: proofs of all invariants and action properties of every passing run, and of both
   refinements. Only liveness is model-checked.
