--------------------------- MODULE MCScalarDecode ---------------------------
(***************************************************************************)
(* Every field there is, and every value up to the annotations that no     *)
(* field can tell apart.                                                   *)
(***************************************************************************)
EXTENDS ScalarDecode

MCFields == Field
MCValues == [ty : {"none", "custom", "u8", "usize", "f64", "base64"},
             kind : Kind, fault : TextFault]
=============================================================================
