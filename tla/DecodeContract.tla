--------------------------- MODULE DecodeContract ---------------------------
(***************************************************************************)
(* What a call of a generated decoder promises, whatever order it goes     *)
(* about its work.  The caller knows the case; the call reports some of    *)
(* the case's faults, never anything else, and ends with a verdict:        *)
(*                                                                         *)
(*   "good"  Ok, and nothing reported: every field has the values that     *)
(*           belong to it                                                  *)
(*   "soft"  Ok, and the Context has every one of the case's faults        *)
(*   "hard"  Err with one of the faults; others may have been reported     *)
(*                                                                         *)
(* A case without faults can only end "good", one with faults only "soft"  *)
(* or "hard".  This is what Decode::decode_node, DecodeChildren and        *)
(* parse_with_context rely on, and what a parent assumes of its children.  *)
(***************************************************************************)
EXTENDS Conformance

VARIABLES case, verdict, reported, result
vars == <<case, verdict, reported, result>>

Pending == verdict = "pending"

Init == /\ case \in Case /\ WellFormed(case)
        /\ verdict = "pending"
        /\ reported = {}
        /\ result = <<>>

\* An error goes to the Context.
Report == /\ Pending
          /\ \E f \in Faults(case) : reported' = reported \cup {f}
          /\ UNCHANGED <<case, verdict, result>>

Accept == /\ Pending
          /\ Conforms(case)
          /\ verdict' = "good"
          /\ AsExpected(case, result')
          /\ UNCHANGED <<case, reported>>

\* Ok, but the Context has errors: all there are.
Tolerate == /\ Pending
            /\ reported # {}
            /\ reported = Faults(case)
            /\ verdict' = "soft"
            /\ UNCHANGED <<case, reported, result>>

Refuse == /\ Pending
          /\ \E f \in Faults(case) : reported' = reported \cup {f}
          /\ verdict' = "hard"
          /\ UNCHANGED <<case, result>>

Next == Report \/ Accept \/ Tolerate \/ Refuse
Spec == Init /\ [][Next]_vars
=============================================================================
