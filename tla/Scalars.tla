------------------------------ MODULE Scalars ------------------------------
(***************************************************************************)
(* How one KDL value becomes one Rust value.  A field is described by its  *)
(* decode mode (plain DecodeScalar, `str`, `bytes`), its scalar type and   *)
(* whether it is an Option; a value by its type annotation, the kind of    *)
(* its literal and what is wrong with the text of the literal, if          *)
(* anything.  Decoding yields how many errors went to Context::emit_error  *)
(* and which kind of Result came back:                                     *)
(*                                                                         *)
(*   "value"  Ok with the decoded value                                    *)
(*   "dummy"  Ok with a placeholder (0, 0.0, "", false, an empty vector)   *)
(*   "null"   Ok(None)                                                     *)
(*   "fail"   Err                                                          *)
(***************************************************************************)
EXTENDS Naturals, FiniteSets

IntTypes == {"i8", "u8", "i16", "u16", "i32", "u32", "i64", "u64",
                "i128", "u128", "isize", "usize"}
FloatTypes  == {"f32", "f64"}
Numeric     == IntTypes \cup FloatTypes

\* enum BuiltinType; the name of a member is what BuiltinType::as_str returns.
BuiltinType == Numeric \cup {"base64"}

\* The strings BuiltinType::from_str recognises.
FromStr == BuiltinType \ {"usize", "isize"}

\* TypeName::from_string followed by as_builtin: "none" is an absent
\* annotation, "custom" a TypeName::Custom.
AsBuiltin(name) == IF name \in FromStr THEN name ELSE "custom"

Kind == {"Int", "Decimal", "String", "Bool", "Null", "Nan", "Inf", "NegInf"}

\* "text": the conversion of the literal's text fails (an integer out of the
\* type's range, a float the parser refuses, FromStr, a bad base64 string).
\* "length": the decoded bytes do not fit the array they go to.
TextFault == {"none", "text", "length"}

Plain  == Numeric \cup {"String", "bool", "enum"}
Target == Plain \cup {"FromStr", "Vec", "array"}

\* What the derive accepts: the mode decides which targets make sense.
Field == [mode : {"normal"}, ty : Plain, opt : BOOLEAN]
           \cup [mode : {"str"}, ty : {"FromStr"}, opt : BOOLEAN]
           \cup [mode : {"bytes"}, ty : {"Vec", "array"}, opt : BOOLEAN]

Annotation == {"none", "custom"} \cup BuiltinType
Value      == [ty : Annotation, kind : Kind, fault : TextFault]
Outcome    == [emits : Nat, res : {"value", "dummy", "null", "fail"}]

Result(n, r) == [emits |-> n, res |-> r]
Count(b)     == IF b THEN 1 ELSE 0

----------------------------------------------------------------------------

\* DecodeScalar::type_check: a numeric type allows its own name, every other
\* type allows no annotation at all.
TypeCheck(f, v) ==
  Count(v.ty # "none" /\ (f.ty \in Numeric => AsBuiltin(v.ty) # f.ty))

\* The literal kind each type is read from.
KindOf(ty) == CASE ty \in IntTypes   -> "Int"
                [] ty \in FloatTypes -> "Decimal"
                [] ty = "bool"       -> "Bool"
                [] OTHER             -> "String"

\* Slip: the placeholder is returned without an error.
RawDecode_Silent(f, v) ==
  IF f.opt /\ v.kind = "Null" THEN Result(0, "null")
  ELSE IF v.kind = KindOf(f.ty) /\ (f.ty \in {"String", "bool"} \/ v.fault # "text")
       THEN Result(0, "value")
       ELSE Result(0, IF f.ty = "enum" THEN "fail" ELSE "dummy")

\* DecodeScalar::raw_decode.  The number, String and bool decoders emit and
\* go on with a placeholder; the derived enum decoder returns Err.
RawDecode(f, v) ==
  LET good == /\ v.kind = KindOf(f.ty)
              /\ f.ty \in {"String", "bool"} \/ v.fault # "text"
  IN CASE f.opt /\ v.kind = "Null"                           -> Result(0, "null")
       [] ~(f.opt /\ v.kind = "Null") /\ good                -> Result(0, "value")
       [] ~(f.opt /\ v.kind = "Null") /\ ~good /\ f.ty = "enum" -> Result(0, "fail")
       [] OTHER                                              -> Result(1, "dummy")

\* DecodeMode::Str.
DecodeStr(f, v) ==
  LET typed == Count(v.ty # "none")
  IN CASE v.kind = "String" /\ v.fault # "text" -> Result(typed, "value")
       [] v.kind = "String" /\ v.fault = "text" -> Result(typed, "fail")
       [] v.kind = "Null" /\ f.opt              -> Result(typed, "null")
       [] v.kind # "String" /\ ~f.opt           -> Result(typed, "fail")
       [] OTHER                                 -> Result(typed + 1, "null")

\* decode::bytes: the vector, or an error and an empty vector.
Bytes(v) ==
  LET annotated == v.ty # "none"
      readable  == /\ v.kind = "String"
                   /\ annotated => AsBuiltin(v.ty) = "base64" /\ v.fault # "text"
  IN IF readable THEN Result(0, "value") ELSE Result(1, "dummy")

\* DecodeMode::Bytes: bytes(..).try_into().  A placeholder has length 0, which
\* an array refuses.
DecodeBytes(f, v) ==
  IF f.opt /\ v.kind = "Null" THEN Result(0, "null")
  ELSE LET b    == Bytes(v)
           fits == f.ty = "Vec" \/ (b.res = "value" /\ v.fault # "length")
       IN CASE fits             -> b
            [] ~fits /\ f.opt   -> Result(b.emits + 1, "null")
            [] OTHER            -> Result(b.emits, "fail")

\* decode_value: the code the derive generates for one argument or property.
DecodeValue(f, v) ==
  CASE f.mode = "normal" ->
         LET r == RawDecode(f, v) IN Result(TypeCheck(f, v) + r.emits, r.res)
    [] f.mode = "str"    -> DecodeStr(f, v)
    [] f.mode = "bytes"  -> DecodeBytes(f, v)

----------------------------------------------------------------------------

(***************************************************************************)
(* The reference: which values a field admits, said without the decoder.   *)
(***************************************************************************)
TypeAdmitted(f, v) ==
  v.ty = "none" \/ (f.ty \in Numeric /\ v.ty \in FromStr /\ v.ty = f.ty)
                \/ (f.mode = "bytes" /\ v.ty = "base64")

LiteralAdmitted(f, v) ==
  /\ v.kind = KindOf(f.ty)
  /\ f.ty \in Numeric \cup {"enum", "FromStr"} => v.fault # "text"
  /\ f.mode = "bytes" /\ v.ty = "base64" => v.fault # "text"
  /\ f.ty = "array" => v.fault # "length"

\* An optional `bytes` field looks at the literal first: a null is taken
\* whatever its annotation.
NullAdmitted(f, v) ==
  f.opt /\ v.kind = "Null" /\ (f.mode = "bytes" \/ TypeAdmitted(f, v))

Admits(f, v) == \/ NullAdmitted(f, v)
                \/ TypeAdmitted(f, v) /\ LiteralAdmitted(f, v)

\* Decoding left no trace of a problem.
Clean(d) == d.emits = 0 /\ d.res \in {"value", "null"}
=============================================================================
