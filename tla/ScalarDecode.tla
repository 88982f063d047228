---------------------------- MODULE ScalarDecode ----------------------------
(***************************************************************************)
(* The decoding of one argument or property value, with the errors it      *)
(* makes: DecodeScalar::decode of a plain field (the type annotation is    *)
(* checked, then the literal is decoded), the generated code of a `str`    *)
(* field, which has the same two steps, and decode::bytes with the         *)
(* conversion that follows it.  Scalars says in one step what comes out;   *)
(* here are the steps, and which DecodeError each of them makes.           *)
(***************************************************************************)
EXTENDS Scalars, SequencesExt

\* The fields and values to consider.
CONSTANTS Fields, Values
ASSUME FieldsAssumption == Fields \subseteq Field
ASSUME ValuesAssumption == Values \subseteq Value

VARIABLES field,    \* the field the value is decoded for
          value,    \* the value
          stage,    \* "type" and "literal", for bytes "bytes" and "convert"; "done"
          emitted,  \* the errors that went to the Context
          returned, \* the Err, as a sequence of at most one
          res       \* what came back, as in Scalars
vars == <<field, value, stage, emitted, returned, res>>

Stages == {"type", "literal", "bytes", "convert", "done"}

\* A DecodeError: its variant, and what it says was expected.
Err(variant, expected) == [variant |-> variant, expected |-> expected]
TypeName(expected)   == Err("TypeName", expected)
ScalarKind(expected) == Err("ScalarKind", expected)
Conversion           == Err("Conversion", "another text")
DecodeError == [variant  : {"TypeName", "ScalarKind", "Conversion"},
                expected : Target \cup Kind \cup {"no type", "base64", "another text"}]

Init == /\ field \in Fields
        /\ value \in Values
        /\ stage = IF field.mode = "bytes" THEN "bytes" ELSE "type"
        /\ emitted = <<>> /\ returned = <<>> /\ res = "none"

----------------------------------------------------------------------------

Emits(e) == emitted' = Append(emitted, e)
Input    == UNCHANGED <<field, value>>

Done(r)  == stage' = "done" /\ res' = r
Ok(r)    == Done(r) /\ UNCHANGED returned
Fails(e) == Done("fail") /\ returned' = <<e>>

\* type_check: an annotation the field does not allow is emitted.
Expected(f) == IF f.ty \in Numeric THEN f.ty ELSE "no type"

\* Slip: a wrong annotation is the end of it.
CheckType_IsFatal ==
  /\ stage = "type"
  /\ IF TypeCheck(field, value) > 0 THEN Fails(TypeName(Expected(field)))
                                    ELSE stage' = "literal" /\ UNCHANGED <<returned, res>>
  /\ Input /\ UNCHANGED emitted

CheckType ==
  /\ stage = "type"
  /\ IF TypeCheck(field, value) > 0 THEN Emits(TypeName(Expected(field)))
                                    ELSE UNCHANGED emitted
  /\ stage' = "literal"
  /\ Input /\ UNCHANGED <<returned, res>>

\* The kind a decoder names when it gets another one; a number's decoder
\* names a string.
Wanted(ty) == IF ty = "bool" THEN "Bool" ELSE "String"

\* Option<T>::raw_decode.
NullLiteral ==
  /\ stage = "literal" /\ field.opt /\ value.kind = "Null"
  /\ Ok("null")
  /\ Input /\ UNCHANGED emitted

Literal == stage = "literal" /\ ~(field.opt /\ value.kind = "Null")

\* Slip: a text that FromStr refuses is emitted and returned.
RightKind_ReportsTwice ==
  /\ Literal /\ value.kind = KindOf(field.ty)
  /\ \/ /\ value.fault # "text" \/ field.ty \in {"String", "bool"}
        /\ Ok("value") /\ UNCHANGED emitted
     \/ /\ value.fault = "text" /\ field.ty \in Numeric
        /\ Emits(Conversion) /\ Ok("dummy")
     \/ /\ value.fault = "text" /\ field.ty \in {"enum", "FromStr"}
        /\ Fails(Conversion) /\ Emits(Conversion)
  /\ Input

\* T::raw_decode, or the match on the literal of a `str` field.
RightKind ==
  /\ Literal /\ value.kind = KindOf(field.ty)
  /\ \/ /\ value.fault # "text" \/ field.ty \in {"String", "bool"}
        /\ Ok("value") /\ UNCHANGED emitted
     \/ /\ value.fault = "text" /\ field.ty \in Numeric
        /\ Emits(Conversion) /\ Ok("dummy")
     \/ /\ value.fault = "text" /\ field.ty \in {"enum", "FromStr"}
        /\ Fails(Conversion) /\ UNCHANGED emitted
  /\ Input

\* Slip: an optional `str` field takes any other literal for a null.
WrongKind_TakenForNull ==
  /\ Literal /\ value.kind # KindOf(field.ty)
  /\ \/ /\ field.ty \in Numeric \cup {"String", "bool"}
        /\ Emits(ScalarKind(Wanted(field.ty))) /\ Ok("dummy")
     \/ /\ field.ty = "FromStr" /\ field.opt
        /\ Ok("null") /\ UNCHANGED emitted
     \/ /\ field.ty = "enum" \/ (field.ty = "FromStr" /\ ~field.opt)
        /\ Fails(ScalarKind(Wanted(field.ty))) /\ UNCHANGED emitted
  /\ Input

WrongKind ==
  /\ Literal /\ value.kind # KindOf(field.ty)
  /\ \/ /\ field.ty \in Numeric \cup {"String", "bool"}
        /\ Emits(ScalarKind(Wanted(field.ty))) /\ Ok("dummy")
     \/ /\ field.ty = "FromStr" /\ field.opt
        /\ Emits(ScalarKind("String")) /\ Ok("null")
     \/ /\ field.ty = "enum" \/ (field.ty = "FromStr" /\ ~field.opt)
        /\ Fails(ScalarKind("String")) /\ UNCHANGED emitted
  /\ Input

NullBytes ==
  /\ stage = "bytes" /\ field.opt /\ value.kind = "Null"
  /\ Ok("null")
  /\ Input /\ UNCHANGED emitted

\* decode::bytes: the annotation decides how the literal is read.
ReadBytes ==
  LET encoded == value.ty # "none" /\ AsBuiltin(value.ty) = "base64"
      error == CASE value.ty # "none" /\ ~encoded -> TypeName("base64")
                 [] (value.ty = "none" \/ encoded) /\ value.kind # "String"
                      -> ScalarKind("String")
                 [] OTHER -> Conversion
  IN /\ stage = "bytes" /\ ~(field.opt /\ value.kind = "Null")
     /\ \/ /\ Bytes(value).res = "value"
           /\ res' = "value" /\ UNCHANGED emitted
        \/ /\ Bytes(value).res = "dummy"
           /\ res' = "dummy" /\ Emits(error)
     /\ stage' = "convert"
     /\ Input /\ UNCHANGED returned

\* Slip: `.ok()` for an optional field, its error is lost.
ConvertBytes_Ok ==
  /\ stage = "convert"
  /\ LET fits == field.ty = "Vec" \/ (res = "value" /\ value.fault # "length")
     IN \/ fits /\ Ok(res) /\ UNCHANGED emitted
        \/ ~fits /\ field.opt /\ Ok("null") /\ UNCHANGED emitted
        \/ ~fits /\ ~field.opt /\ Fails(Conversion) /\ UNCHANGED emitted
  /\ Input

\* Slip: the error of an optional field is returned with its None.
ConvertBytes_ReturnsBoth ==
  /\ stage = "convert"
  /\ LET fits == field.ty = "Vec" \/ (res = "value" /\ value.fault # "length")
     IN \/ fits /\ Ok(res) /\ UNCHANGED emitted
        \/ /\ ~fits
           /\ Done(IF field.opt THEN "null" ELSE "fail")
           /\ returned' = <<Conversion>> /\ UNCHANGED emitted
  /\ Input

\* try_into the type of the field: the empty vector that stands for unreadable
\* bytes does not become an array either.
ConvertBytes ==
  /\ stage = "convert"
  /\ LET fits == field.ty = "Vec" \/ (res = "value" /\ value.fault # "length")
     IN \/ fits /\ Ok(res) /\ UNCHANGED emitted
        \/ ~fits /\ field.opt /\ Emits(Conversion) /\ Ok("null")
        \/ ~fits /\ ~field.opt /\ Fails(Conversion) /\ UNCHANGED emitted
  /\ Input

Next == \/ CheckType \/ NullLiteral \/ RightKind \/ WrongKind
        \/ NullBytes \/ ReadBytes \/ ConvertBytes

Spec == Init /\ [][Next]_vars
----------------------------------------------------------------------------

(***************************************************************************)
(* Properties.                                                             *)
(***************************************************************************)
Errors == emitted \o returned
Ended  == stage = "done"

\* The variables have their types.
TypeOK ==
  /\ field \in Field /\ value \in Value
  /\ stage \in Stages
  /\ emitted \in Seq(DecodeError)
  /\ returned \in Seq(DecodeError) /\ Len(returned) <= 1
  /\ res \in {"none", "value", "dummy", "null", "fail"}
  /\ returned # <<>> <=> res = "fail"

\* The steps come to what Scalars says of the whole, which is what the decoder
\* of a struct builds on.
SettlesAsDecodeValue ==
  Ended => /\ Len(emitted) = DecodeValue(field, value).emits
           /\ res = DecodeValue(field, value).res

\* A value is taken without an error exactly if the field admits it: its
\* annotation, its kind and its text all fit, and no decode mode (plain, str,
\* bytes) or Option lets another one through.
AcceptsExactlyTheAdmitted ==
  Ended => (Errors = <<>> <=> Admits(field, value))

\* Option<T> adds the null and nothing else: any other value is taken or
\* refused as it is for T (containers.rs, and the two `if optional` branches of
\* decode_value).
OptionOnlyAddsNull ==
  Ended /\ value.kind # "Null" =>
    (Errors = <<>> <=> Clean(DecodeValue([field EXCEPT !.opt = FALSE], value)))

\* Of the errors of one value the annotation's comes first and at most one is
\* about the literal, except that bytes that cannot be read may not fit either.
OneErrorPerPart ==
  /\ Cardinality({k \in DOMAIN Errors : Errors[k].variant = "TypeName"}) <= 1
  /\ \A k \in DOMAIN Errors : Errors[k].variant = "TypeName" => k = 1
  /\ Len(Errors) <= 2
  /\ Len(Errors) = 2 /\ field.ty # "array" => Errors[1].variant = "TypeName"

----------------------------------------------------------------------------

(***************************************************************************)
(* What the documentation says and the code does not do.                   *)
(***************************************************************************)
\* ast.rs:241: as_builtin returns the BuiltinType if the name matches one, so
\* a value annotated with the type of its own field is allowed.
OwnTypeIsAllowed ==
  value.ty = field.ty => \A e \in Range(Errors) : e.variant # "TypeName"
=============================================================================
