---------------------------- MODULE GrammarRules ----------------------------
(***************************************************************************)
(* Reading (Grammar) against writing (Layouts): a document that is laid    *)
(* out as documents are is read back as what it says.                      *)
(***************************************************************************)
EXTENDS Layouts

CONSTANT Documents         \* sets of documents: one is picked, then a member

ASSUME DocumentsAssumption ==
  \A group \in Documents : \A document \in group :
    /\ document.text \in Seq(Token) /\ document.places \in Seq(Place)
    /\ LaidOut(document.text, document.places)

VARIABLE written           \* whether the text is a document, and where its nodes are

WrittenInit ==
  /\ \/ /\ \E group \in Texts : text \in group
        /\ written = [known |-> FALSE, places |-> <<>>]
     \/ \E group \in Documents : \E document \in group :
          /\ text = document.text
          /\ written = [known |-> TRUE, places |-> document.places]
  /\ Begin

WrittenSpec == WrittenInit /\ [][Next /\ UNCHANGED written]_<<vars, written>>

\* What was written is read, and read back as it was: entries go to their node,
\* nodes to their parent and types to their value; of two properties of a name
\* the first key stays with the last value; a slashdash takes away what it is
\* before, be it an entry, the children or the node, and nothing else.
ReadsBackWhatWasWritten ==
  written.known /\ Ended => stage = "done" /\ SaysAll(text, nodes, written.places)
=============================================================================
