--------------------------- MODULE ParseContract ---------------------------
(***************************************************************************)
(* What knus::parse promises: a readable document of which every node      *)
(* conforms is decoded completely, anything else is an Error that names    *)
(* something, and of a list it names every node that does not conform, and *)
(* no other.                                                               *)
(***************************************************************************)
EXTENDS Documents

VARIABLES doc, outcome, blamed, list
vars == <<doc, outcome, blamed, list>>

Init == /\ doc \in Doc /\ WellFormedDoc(doc)
        /\ outcome = "none"
        /\ blamed = {}
        /\ list = <<>>

Blame == /\ outcome = "none"
         /\ doc.readable
         /\ \E k \in FaultyNodes(doc) : blamed' = blamed \cup {k}
         /\ UNCHANGED <<doc, outcome, list>>

Succeed == /\ outcome = "none"
           /\ doc.readable /\ FaultyNodes(doc) = {}
           /\ outcome' = "ok"
           /\ Decoded(doc, list')
           /\ UNCHANGED <<doc, blamed>>

Fail == /\ outcome = "none"
        /\ \/ ~doc.readable
           \/ blamed = FaultyNodes(doc) /\ blamed # {}
        /\ outcome' = "err"
        /\ UNCHANGED <<doc, blamed, list>>

Next == Blame \/ Succeed \/ Fail
Spec == Init /\ [][Next]_vars
=============================================================================
