------------------------ MODULE ScalarDecodeProofs ------------------------
(***************************************************************************)
(* The steps of decoding a value come to what Scalars says in one step,    *)
(* for every field and every value.  A struct's decoder, and the proofs    *)
(* about it, use DecodeValue only: these theorems say that they may.       *)
(***************************************************************************)
EXTENDS ScalarDecode, ScalarProofs, FiniteSetTheorems

\* What the steps so far have come to.
SoFar ==
  /\ stage \in {"type", "literal"} => field.mode # "bytes"
  /\ stage \in {"bytes", "convert"} => field.mode = "bytes"
  /\ stage \in {"type", "bytes"} => emitted = <<>>
  /\ stage # "done" => returned = <<>>
  /\ stage = "literal" => Len(emitted) = TypeCheck(field, value)
  /\ stage = "convert" => /\ ~(field.opt /\ value.kind = "Null")
                          /\ res = Bytes(value).res
                          /\ Len(emitted) = Bytes(value).emits

IInv == TypeOK /\ SoFar /\ SettlesAsDecodeValue

----------------------------------------------------------------------------

LEMMA Grown ==
  ASSUME NEW T, NEW s \in Seq(T), NEW x \in T
  PROVE  Append(s, x) \in Seq(T) /\ Len(Append(s, x)) = Len(s) + 1
  OBVIOUS

LEMMA One ==
  ASSUME NEW T, NEW x \in T
  PROVE  <<x>> \in Seq(T) /\ Len(<<x>>) = 1 /\ <<x>> # <<>>
  OBVIOUS

LEMMA ErrorsAreDecodeErrors ==
  /\ Conversion \in DecodeError
  /\ \A k \in Kind : ScalarKind(k) \in DecodeError
  /\ TypeName("base64") \in DecodeError
  /\ \A f \in Field : TypeName(Expected(f)) \in DecodeError
<1>1. \A f \in Field : f.ty \in Target BY DEF Field, Target
<1>2. \A f \in Field : Expected(f) \in Target \cup {"no type"} BY <1>1 DEF Expected
<1> QED BY <1>2 DEF DecodeError, Err, Conversion, ScalarKind, TypeName

\* What a field of a plain or `str` mode makes of a literal, with the check of
\* the annotation before it.
LEMMA NullOutcome ==
  ASSUME NEW f \in Field, NEW v \in Value, f.mode # "bytes",
         f.opt, v.kind = "Null"
  PROVE  DecodeValue(f, v) = Result(TypeCheck(f, v), "null")
<1>1. CASE f.mode = "normal"
  <2>1. RawDecode(f, v) = Result(0, "null") BY DEF RawDecode
  <2>2. TypeCheck(f, v) \in Nat BY DEF TypeCheck, Count
  <2> QED BY <1>1, <2>1, <2>2 DEF DecodeValue, Result
<1>2. CASE f.mode = "str"
  <2>1. f.ty \notin Numeric BY <1>2 DEF Field, Numeric, IntTypes, FloatTypes
  <2>2. TypeCheck(f, v) = Count(v.ty # "none") BY <2>1 DEF TypeCheck, Count
  <2> QED BY <1>2, <2>2 DEF DecodeValue, DecodeStr, Result
<1> QED BY <1>1, <1>2 DEF Field

LEMMA LiteralOutcome ==
  ASSUME NEW f \in Field, NEW v \in Value, f.mode # "bytes",
         ~(f.opt /\ v.kind = "Null")
  PROVE  LET good == v.kind = KindOf(f.ty)
             text == v.fault = "text" /\ f.ty \notin {"String", "bool"}
             n    == TypeCheck(f, v)
         IN /\ good /\ ~text => DecodeValue(f, v) = Result(n, "value")
            /\ (~good \/ text) /\ f.ty \in Plain \ {"enum"} =>
                 DecodeValue(f, v) = Result(n + 1, "dummy")
            /\ (~good \/ text) /\ f.ty = "enum" => DecodeValue(f, v) = Result(n, "fail")
            /\ good /\ text /\ f.ty = "FromStr" => DecodeValue(f, v) = Result(n, "fail")
            /\ ~good /\ f.ty = "FromStr" /\ ~f.opt => DecodeValue(f, v) = Result(n, "fail")
            /\ ~good /\ f.ty = "FromStr" /\ f.opt => DecodeValue(f, v) = Result(n + 1, "null")
<1>1. TypeCheck(f, v) \in Nat BY DEF TypeCheck, Count
<1>2. CASE f.mode = "normal"
  <2>1. f.ty \in Plain /\ f.ty # "FromStr"
    BY <1>2 DEF Field, Plain, Numeric, IntTypes, FloatTypes
  <2>2. DecodeValue(f, v) = Result(TypeCheck(f, v) + RawDecode(f, v).emits, RawDecode(f, v).res)
    BY <1>2 DEF DecodeValue
  <2>3. RawDecode(f, v) = IF v.kind = KindOf(f.ty) /\ (f.ty \in {"String", "bool"} \/ v.fault # "text")
                          THEN Result(0, "value")
                          ELSE IF f.ty = "enum" THEN Result(0, "fail") ELSE Result(1, "dummy")
    <3> DEFINE good == v.kind = KindOf(f.ty) /\ (f.ty \in {"String", "bool"} \/ v.fault # "text")
    <3>1. CASE good BY <3>1 DEF RawDecode
    <3>2. CASE ~good BY <3>2 DEF RawDecode
    <3> QED BY <3>1, <3>2
  <2> QED BY <1>1, <2>1, <2>2, <2>3 DEF Result
<1>3. CASE f.mode = "str"
  <2>1. f.ty = "FromStr" /\ f.ty \notin Plain /\ f.ty \notin Numeric
    BY <1>3 DEF Field, Plain, Numeric, IntTypes, FloatTypes
  <2>2. KindOf(f.ty) = "String" BY <2>1 DEF KindOf, Numeric
  <2>3. TypeCheck(f, v) = Count(v.ty # "none") BY <2>1 DEF TypeCheck, Count
  <2>4. DecodeValue(f, v) = DecodeStr(f, v) BY <1>3 DEF DecodeValue
  <2> QED BY <2>1, <2>2, <2>3, <2>4 DEF DecodeStr
<1> QED BY <1>2, <1>3 DEF Field

\* Reading bytes ends well or with one error.
LEMMA BytesOutcome ==
  ASSUME NEW v \in Value
  PROVE  Bytes(v) \in {Result(0, "value"), Result(1, "dummy")}
  BY DEF Bytes

\* What becomes of bytes that were read.
LEMMA FitOutcome ==
  ASSUME NEW f \in Field, NEW v \in Value, f.mode = "bytes",
         ~(f.opt /\ v.kind = "Null")
  PROVE  LET b    == Bytes(v)
             fits == f.ty = "Vec" \/ (b.res = "value" /\ v.fault # "length")
         IN /\ fits => DecodeValue(f, v) = b
            /\ ~fits /\ f.opt => DecodeValue(f, v) = Result(b.emits + 1, "null")
            /\ ~fits /\ ~f.opt => DecodeValue(f, v) = Result(b.emits, "fail")
<1>1. DecodeValue(f, v) = DecodeBytes(f, v) BY DEF DecodeValue
<1> QED BY <1>1 DEF DecodeBytes

----------------------------------------------------------------------------

LEMMA InitHolds == Init => IInv
<1> SUFFICES ASSUME Init PROVE IInv OBVIOUS
<1> USE DEF Init
<1>1. field \in Field /\ value \in Value BY FieldsAssumption, ValuesAssumption
<1>2. <<>> \in Seq(DecodeError) /\ Len(<<>>) = 0 OBVIOUS
<1>3. TypeOK BY <1>1, <1>2 DEF TypeOK, Stages
<1>4. SoFar BY DEF SoFar
<1>5. SettlesAsDecodeValue BY DEF SettlesAsDecodeValue, Ended
<1> QED BY <1>3, <1>4, <1>5 DEF IInv

\* The end of a decoding in mode "normal" or "str".
LEMMA LiteralStep ==
  ASSUME IInv, RightKind \/ WrongKind \/ NullLiteral
  PROVE  IInv'
<1> USE DEF IInv, TypeOK, SoFar
<1>1. /\ field \in Field /\ value \in Value /\ field.mode # "bytes"
      /\ stage = "literal" /\ stage' = "done"
      /\ field' = field /\ value' = value
  BY DEF RightKind, WrongKind, NullLiteral, Literal, Ok, Fails, Done, Input
<1>2. /\ emitted \in Seq(DecodeError) /\ Len(emitted) = TypeCheck(field, value)
      /\ returned = <<>>
  BY <1>1
<1> DEFINE n == TypeCheck(field, value)
           Comes(e, r) == /\ emitted' \in Seq(DecodeError) /\ Len(emitted') = e
                          /\ res' = r
                          /\ returned' = IF r = "fail" THEN returned' ELSE <<>>
                          /\ returned' \in Seq(DecodeError) /\ Len(returned') <= 1
                          /\ r = "fail" => returned' # <<>>
                          /\ DecodeValue(field, value) = Result(e, r)
<1>3. SUFFICES \E e \in Nat : \E r \in {"value", "dummy", "null", "fail"} : Comes(e, r)
  <2>1. PICK e \in Nat, r \in {"value", "dummy", "null", "fail"} : Comes(e, r) BY <1>3
  <2>2. TypeOK' BY <1>1, <2>1 DEF Stages
  <2>3. SoFar' BY <1>1
  <2>4. SettlesAsDecodeValue' BY <1>1, <2>1 DEF SettlesAsDecodeValue, Result
  <2> QED BY <2>2, <2>3, <2>4
<1>4. n \in Nat BY DEF TypeCheck, Count
<1>5. \A e \in DecodeError :
        /\ Append(emitted, e) \in Seq(DecodeError)
        /\ Len(Append(emitted, e)) = n + 1
        /\ <<e>> \in Seq(DecodeError) /\ Len(<<e>>) = 1 /\ <<e>> # <<>>
  BY <1>2, Grown, One
<1>6. CASE NullLiteral
  <2>1. DecodeValue(field, value) = Result(n, "null")
    BY <1>1, <1>6, NullOutcome DEF NullLiteral
  <2>2. Comes(n, "null") BY <1>2, <1>6, <2>1 DEF NullLiteral, Ok, Done
  <2> QED BY <1>4, <2>2
<1>7. CASE RightKind
  <2>1. ~(field.opt /\ value.kind = "Null") /\ value.kind = KindOf(field.ty)
    BY <1>7 DEF RightKind, Literal
  <2>2. CASE /\ value.fault # "text" \/ field.ty \in {"String", "bool"}
             /\ Ok("value") /\ UNCHANGED emitted
    <3>1. DecodeValue(field, value) = Result(n, "value")
      BY <1>1, <2>1, <2>2, LiteralOutcome
    <3>2. Comes(n, "value") BY <1>2, <2>2, <3>1 DEF Ok, Done
    <3> QED BY <1>4, <3>2
  <2>3. CASE /\ value.fault = "text" /\ field.ty \in Numeric
             /\ Emits(Conversion) /\ Ok("dummy")
    <3>1. field.ty \in Plain \ {"enum", "String", "bool"}
      BY <2>3 DEF Plain, Numeric, IntTypes, FloatTypes
    <3>2. DecodeValue(field, value) = Result(n + 1, "dummy")
      BY <1>1, <2>1, <2>3, <3>1, LiteralOutcome
    <3>3. Comes(n + 1, "dummy")
      BY <1>2, <1>5, <2>3, <3>2, ErrorsAreDecodeErrors DEF Ok, Done, Emits
    <3> QED BY <1>4, <3>3
  <2>4. CASE /\ value.fault = "text" /\ field.ty \in {"enum", "FromStr"}
             /\ Fails(Conversion) /\ UNCHANGED emitted
    <3>1. DecodeValue(field, value) = Result(n, "fail")
      BY <1>1, <2>1, <2>4, LiteralOutcome
    <3>2. Comes(n, "fail")
      BY <1>2, <1>5, <2>4, <3>1, ErrorsAreDecodeErrors DEF Fails, Done
    <3> QED BY <1>4, <3>2
  <2> QED BY <1>7, <2>2, <2>3, <2>4 DEF RightKind
<1>8. CASE WrongKind
  <2>1. ~(field.opt /\ value.kind = "Null") /\ value.kind # KindOf(field.ty)
    BY <1>8 DEF WrongKind, Literal
  <2>2. ScalarKind(Wanted(field.ty)) \in DecodeError /\ ScalarKind("String") \in DecodeError
    BY ErrorsAreDecodeErrors DEF Wanted, Kind
  <2>3. CASE /\ field.ty \in Numeric \cup {"String", "bool"}
             /\ Emits(ScalarKind(Wanted(field.ty))) /\ Ok("dummy")
    <3>1. field.ty \in Plain \ {"enum"}
      BY <2>3 DEF Plain, Numeric, IntTypes, FloatTypes
    <3>2. DecodeValue(field, value) = Result(n + 1, "dummy")
      BY <1>1, <2>1, <3>1, LiteralOutcome
    <3>3. Comes(n + 1, "dummy") BY <1>2, <1>5, <2>2, <2>3, <3>2 DEF Ok, Done, Emits
    <3> QED BY <1>4, <3>3
  <2>4. CASE /\ field.ty = "FromStr" /\ field.opt
             /\ Emits(ScalarKind("String")) /\ Ok("null")
    <3>1. DecodeValue(field, value) = Result(n + 1, "null")
      BY <1>1, <2>1, <2>4, LiteralOutcome
    <3>2. Comes(n + 1, "null") BY <1>2, <1>5, <2>2, <2>4, <3>1 DEF Ok, Done, Emits
    <3> QED BY <1>4, <3>2
  <2>5. CASE /\ field.ty = "enum" \/ (field.ty = "FromStr" /\ ~field.opt)
             /\ Fails(ScalarKind("String")) /\ UNCHANGED emitted
    <3>1. DecodeValue(field, value) = Result(n, "fail")
      BY <1>1, <2>1, <2>5, LiteralOutcome
    <3>2. Comes(n, "fail") BY <1>2, <1>5, <2>2, <2>5, <3>1 DEF Fails, Done
    <3> QED BY <1>4, <3>2
  <2> QED BY <1>8, <2>3, <2>4, <2>5 DEF WrongKind
<1> QED BY <1>6, <1>7, <1>8

LEMMA CheckTypeStep == ASSUME IInv, CheckType PROVE IInv'
<1> USE DEF IInv, TypeOK, SoFar, CheckType, Input
<1>1. emitted = <<>> /\ TypeCheck(field, value) \in {0, 1} BY DEF TypeCheck, Count
<1>2. /\ emitted' \in Seq(DecodeError) /\ Len(emitted') = TypeCheck(field, value)
  <2>1. CASE TypeCheck(field, value) > 0
    <3>1. TypeName(Expected(field)) \in DecodeError BY ErrorsAreDecodeErrors
    <3>2. emitted' = Append(emitted, TypeName(Expected(field))) BY <2>1 DEF Emits
    <3> QED BY <1>1, <2>1, <3>1, <3>2, Grown
  <2>2. CASE ~(TypeCheck(field, value) > 0)
    BY <1>1, <2>2
  <2> QED BY <2>1, <2>2
<1>3. TypeOK' BY <1>2 DEF Stages
<1>4. SoFar' BY <1>2
<1>5. SettlesAsDecodeValue' BY DEF SettlesAsDecodeValue, Ended
<1> QED BY <1>3, <1>4, <1>5

LEMMA NullBytesStep == ASSUME IInv, NullBytes PROVE IInv'
<1> USE DEF IInv, TypeOK, SoFar, NullBytes, Input, Ok, Done
<1>1. TypeOK' BY DEF Stages
<1>2. SoFar' OBVIOUS
<1>3. DecodeValue(field, value) = Result(0, "null")
  BY DEF DecodeValue, DecodeBytes
<1>4. Len(emitted') = 0 OBVIOUS
<1>5. SettlesAsDecodeValue' BY <1>3, <1>4 DEF SettlesAsDecodeValue, Result
<1> QED BY <1>1, <1>2, <1>5

LEMMA ReadBytesStep == ASSUME IInv, ReadBytes PROVE IInv'
<1> USE DEF IInv, TypeOK, SoFar, Input
<1> DEFINE encoded == value.ty # "none" /\ AsBuiltin(value.ty) = "base64"
           error == CASE value.ty # "none" /\ ~encoded -> TypeName("base64")
                      [] (value.ty = "none" \/ encoded) /\ value.kind # "String"
                           -> ScalarKind("String")
                      [] OTHER -> Conversion
<1>1. /\ emitted = <<>> /\ returned = <<>> /\ stage' = "convert" /\ returned' = returned
      /\ field' = field /\ value' = value /\ field.mode = "bytes"
      /\ ~(field.opt /\ value.kind = "Null")
  BY DEF ReadBytes
<1>2. error \in DecodeError BY ErrorsAreDecodeErrors DEF Kind
<1>3. /\ emitted' \in Seq(DecodeError) /\ Len(emitted') = Bytes(value).emits
      /\ res' = Bytes(value).res /\ res' \in {"value", "dummy"}
  <2>1. \/ Bytes(value).res = "value" /\ res' = "value" /\ emitted' = emitted
        \/ Bytes(value).res = "dummy" /\ res' = "dummy" /\ emitted' = Append(emitted, error)
    BY DEF ReadBytes, Emits
  <2>2. \/ Bytes(value).emits = 0 /\ Bytes(value).res = "value"
        \/ Bytes(value).emits = 1 /\ Bytes(value).res = "dummy"
    BY BytesOutcome DEF Result
  <2> HIDE DEF error
  <2>3. emitted \in Seq(DecodeError) /\ Len(emitted) = 0 BY <1>1
  <2>4. Append(emitted, error) \in Seq(DecodeError) /\ Len(Append(emitted, error)) = 1
    BY <1>2, <2>3, Grown
  <2> QED BY <2>1, <2>2, <2>3, <2>4
<1>4. TypeOK' BY <1>1, <1>3 DEF Stages
<1>5. SoFar' BY <1>1, <1>3
<1>6. SettlesAsDecodeValue' BY <1>1 DEF SettlesAsDecodeValue, Ended
<1> QED BY <1>4, <1>5, <1>6

LEMMA ConvertBytesStep == ASSUME IInv, ConvertBytes PROVE IInv'
<1> USE DEF IInv, TypeOK, SoFar, Input
<1> DEFINE n    == Bytes(value).emits
           fits == field.ty = "Vec" \/ (res = "value" /\ value.fault # "length")
<1>1. /\ returned = <<>> /\ stage' = "done" /\ field' = field /\ value' = value
      /\ ~(field.opt /\ value.kind = "Null")
      /\ res = Bytes(value).res /\ Len(emitted) = n /\ n \in Nat
      /\ field.mode = "bytes" /\ res \in {"value", "dummy"}
  BY BytesOutcome DEF ConvertBytes, Ok, Fails, Done, Result
<1>2. /\ Append(emitted, Conversion) \in Seq(DecodeError)
      /\ Len(Append(emitted, Conversion)) = n + 1
      /\ <<Conversion>> \in Seq(DecodeError)
      /\ Len(<<Conversion>>) = 1 /\ <<Conversion>> # <<>>
  BY <1>1, ErrorsAreDecodeErrors, Grown, One
<1>3. /\ emitted' \in Seq(DecodeError) /\ returned' \in Seq(DecodeError)
      /\ Len(returned') <= 1 /\ (returned' # <<>> <=> res' = "fail")
      /\ res' \in {"value", "dummy", "null", "fail"}
      /\ DecodeValue(field, value) = Result(Len(emitted'), res')
  <2>1. CASE fits /\ Ok(res) /\ UNCHANGED emitted
    <3>1. DecodeValue(field, value) = Bytes(value) BY <1>1, <2>1, FitOutcome
    <3>2. Bytes(value) = Result(n, res) BY <1>1, BytesOutcome DEF Result
    <3> QED BY <1>1, <2>1, <3>1, <3>2 DEF Ok, Done
  <2>2. CASE ~fits /\ field.opt /\ Emits(Conversion) /\ Ok("null")
    <3>1. DecodeValue(field, value) = Result(n + 1, "null") BY <1>1, <2>2, FitOutcome
    <3> QED BY <1>1, <1>2, <2>2, <3>1 DEF Ok, Done, Emits
  <2>3. CASE ~fits /\ ~field.opt /\ Fails(Conversion) /\ UNCHANGED emitted
    <3>1. DecodeValue(field, value) = Result(n, "fail") BY <1>1, <2>3, FitOutcome
    <3> QED BY <1>1, <1>2, <2>3, <3>1 DEF Fails, Done
  <2> QED BY <2>1, <2>2, <2>3 DEF ConvertBytes
<1>4. TypeOK' BY <1>1, <1>3 DEF Stages
<1>5. SoFar' BY <1>1
<1>6. SettlesAsDecodeValue' BY <1>1, <1>3 DEF SettlesAsDecodeValue, Result
<1> QED BY <1>4, <1>5, <1>6

LEMMA Inductive == IInv /\ [Next]_vars => IInv'
<1> SUFFICES ASSUME IInv, [Next]_vars PROVE IInv' OBVIOUS
<1>1. CASE CheckType BY <1>1, CheckTypeStep
<1>2. CASE RightKind \/ WrongKind \/ NullLiteral BY <1>2, LiteralStep
<1>3. CASE NullBytes BY <1>3, NullBytesStep
<1>4. CASE ReadBytes BY <1>4, ReadBytesStep
<1>5. CASE ConvertBytes BY <1>5, ConvertBytesStep
<1>6. CASE UNCHANGED vars
  BY <1>6 DEF IInv, TypeOK, SoFar, SettlesAsDecodeValue, Ended, vars
<1> QED BY <1>1, <1>2, <1>3, <1>4, <1>5, <1>6 DEF Next

\* What the steps of decoding a value keep, from the first to the last.
LEMMA Invariant == Spec => []IInv
  BY InitHolds, Inductive, PTL DEF Spec

\* The steps come to what DecodeValue says: the same number of errors in the
\* Context and the same kind of result (traits.rs, DecodeScalar::decode; the
\* code of decode_value; decode::bytes).
THEOREM ComesToDecodeValue == Spec => []SettlesAsDecodeValue
<1>1. IInv => SettlesAsDecodeValue BY DEF IInv
<1> QED BY <1>1, Invariant, PTL

LEMMA AdmittedIsTaken == IInv => AcceptsExactlyTheAdmitted
<1> SUFFICES ASSUME IInv, Ended PROVE Errors = <<>> <=> Admits(field, value)
  BY DEF AcceptsExactlyTheAdmitted
<1> DEFINE d == DecodeValue(field, value)
<1>1. /\ field \in Field /\ value \in Value
      /\ emitted \in Seq(DecodeError) /\ returned \in Seq(DecodeError)
      /\ returned # <<>> <=> res = "fail"
      /\ Len(emitted) = d.emits /\ res = d.res
  BY DEF IInv, TypeOK, SettlesAsDecodeValue
<1>2. Errors = <<>> <=> emitted = <<>> /\ returned = <<>> BY <1>1 DEF Errors
<1>3. emitted = <<>> <=> Len(emitted) = 0 BY <1>1
<1>4. d.res \in {"value", "dummy", "null", "fail"} BY <1>1, DecodeValueType DEF Outcome
<1>5. d.res = "dummy" => d.emits > 0 BY <1>1, DummyIsEmitted
<1>6. Errors = <<>> <=> Clean(d) BY <1>1, <1>2, <1>3, <1>4, <1>5 DEF Clean
<1> QED BY <1>1, <1>6, CleanIffAdmitted

\* A value is taken without an error exactly if its field admits it, whatever
\* the decode mode and whether or not the field is an Option.
THEOREM TakesExactlyTheAdmitted == Spec => []AcceptsExactlyTheAdmitted
BY AdmittedIsTaken, Invariant, PTL

\* The variables keep their types, and an Err comes back exactly where nothing
\* else does (traits.rs, DecodeScalar::decode), for every field and value.
THEOREM TypeCorrect == Spec => []TypeOK
<1>1. IInv => TypeOK BY DEF IInv
<1> QED BY <1>1, Invariant, PTL

\* Option<T> takes the values that T takes and the null, and no others
\* (containers.rs, Option; decode_value), for every field and value.
THEOREM OptionAddsTheNull == Spec => []OptionOnlyAddsNull
<1>1. IInv => OptionOnlyAddsNull
  <2> SUFFICES ASSUME IInv, Ended, value.kind # "Null"
               PROVE  Errors = <<>> <=>
                        Clean(DecodeValue([field EXCEPT !.opt = FALSE], value))
    BY DEF OptionOnlyAddsNull
  <2> DEFINE bare == [field EXCEPT !.opt = FALSE]
  <2>1. field \in Field /\ value \in Value BY DEF IInv, TypeOK
  <2>2. bare \in Field /\ bare.mode = field.mode /\ bare.ty = field.ty
    BY <2>1 DEF Field
  <2> HIDE DEF bare
  <2>3. Clean(DecodeValue(bare, value)) <=> Admits(bare, value)
    BY <2>1, <2>2, CleanIffAdmitted
  <2>4. Admits(bare, value) <=> Admits(field, value)
    BY <2>2 DEF Admits, NullAdmitted, TypeAdmitted, LiteralAdmitted
  <2>5. Errors = <<>> <=> Admits(field, value)
    BY AdmittedIsTaken DEF AcceptsExactlyTheAdmitted
  <2> QED BY <2>3, <2>4, <2>5 DEF bare
<1> QED BY <1>1, Invariant, PTL

----------------------------------------------------------------------------
(***************************************************************************)
(* One error for each part of a value.                                     *)
(***************************************************************************)

\* Only the first error can be about the annotation.  A literal is looked at
\* behind nothing else, and bytes behind at most one error.
Parted ==
  /\ Len(Errors) <= 2
  /\ \A k \in DOMAIN Errors : Errors[k].variant = "TypeName" => k = 1
  /\ stage \in {"literal", "convert"} => Len(Errors) <= 1
  /\ stage = "literal" => \A k \in DOMAIN Errors : Errors[k].variant = "TypeName"
  /\ Len(Errors) = 2 /\ field.ty # "array" => Errors[1].variant = "TypeName"

\* Until decoding has ended all errors have been emitted.
LEMMA ErrorsSoFar ==
  ASSUME IInv, stage # "done"
  PROVE  Errors = emitted /\ Errors \in Seq(DecodeError) /\ returned = <<>>
  BY DEF IInv, TypeOK, SoFar, Errors

\* An error is added behind the others, whether it is emitted or returned.
Adds(e) == \/ emitted' = Append(emitted, e) /\ returned' = <<>>
           \/ emitted' = emitted /\ returned' = <<e>>

LEMMA AddsOne ==
  ASSUME IInv, stage # "done", NEW e \in DecodeError, Adds(e)
  PROVE  /\ Len(Errors') = Len(Errors) + 1 /\ Len(Errors) \in Nat
         /\ DOMAIN Errors' = 1..(Len(Errors) + 1) /\ DOMAIN Errors = 1..Len(Errors)
         /\ \A k \in DOMAIN Errors : Errors'[k] = Errors[k]
         /\ Errors'[Len(Errors) + 1] = e
<1>1. Errors = emitted /\ emitted \in Seq(DecodeError) BY ErrorsSoFar
<1>2. CASE emitted' = Append(emitted, e) /\ returned' = <<>>
  <2>1. Errors' = Append(emitted, e) BY <1>1, <1>2 DEF Errors
  <2> QED BY <1>1, <2>1
<1>3. CASE emitted' = emitted /\ returned' = <<e>>
  <2>1. Errors' = emitted \o <<e>> BY <1>3 DEF Errors
  <2>2. emitted \o <<e>> = Append(emitted, e) BY <1>1
  <2> QED BY <1>1, <2>1, <2>2
<1> QED BY <1>2, <1>3 DEF Adds

\* The literal makes one error or none, and not about the annotation.
LEMMA LiteralIsParted ==
  ASSUME IInv, Parted, RightKind \/ WrongKind \/ NullLiteral
  PROVE  Parted'
<1>1. stage = "literal" /\ stage' = "done" /\ field' = field
  BY DEF RightKind, WrongKind, NullLiteral, Literal, Ok, Fails, Done, Input
<1>2. returned = <<>> BY <1>1, ErrorsSoFar
<1>3. \/ UNCHANGED <<emitted, returned>>
      \/ \E e \in DecodeError : e.variant # "TypeName" /\ Adds(e)
  <2>1. /\ ScalarKind(Wanted(field.ty)) \in DecodeError
        /\ ScalarKind("String") \in DecodeError /\ Conversion \in DecodeError
    BY ErrorsAreDecodeErrors DEF Wanted, Kind
  <2>2. /\ Conversion.variant # "TypeName"
        /\ \A k : ScalarKind(k).variant # "TypeName"
    BY DEF Conversion, ScalarKind, Err
  <2>3. \/ UNCHANGED <<emitted, returned>>
        \/ Adds(Conversion) \/ Adds(ScalarKind("String"))
        \/ Adds(ScalarKind(Wanted(field.ty)))
    BY <1>2 DEF RightKind, WrongKind, NullLiteral, Ok, Fails, Emits, Adds
  <2> QED BY <2>1, <2>2, <2>3
<1>4. CASE UNCHANGED <<emitted, returned>>
  BY <1>1, <1>4 DEF Parted, Errors
<1>5. ASSUME NEW e \in DecodeError, e.variant # "TypeName", Adds(e)
      PROVE  Parted'
  BY <1>1, <1>5, AddsOne DEF Parted
<1> QED BY <1>3, <1>4, <1>5

\* So do the bytes, and whether they fit an array.
LEMMA BytesAreParted ==
  ASSUME IInv, Parted, ReadBytes \/ ConvertBytes
  PROVE  Parted'
<1>1. CASE ReadBytes
  <2>1. /\ stage = "bytes" /\ stage' = "convert" /\ emitted = <<>> /\ returned = <<>>
        /\ UNCHANGED <<field, returned>>
    BY <1>1 DEF ReadBytes, Input, IInv, SoFar
  <2>2. emitted' = <<>> \/ \E e : emitted' = <<e>>
    BY <1>1, <2>1 DEF ReadBytes, Emits
  <2>3. Errors' = <<>> \/ \E e : Errors' = <<e>>
    BY <2>1, <2>2 DEF Errors
  <2>4. Len(Errors') = 0 \/ Len(Errors') = 1 BY <2>3
  <2>5. \A k \in DOMAIN Errors' : k = 1 BY <2>3
  <2> QED BY <2>1, <2>4, <2>5 DEF Parted
<1>2. CASE ConvertBytes
  <2>1. /\ stage = "convert" /\ stage' = "done" /\ field' = field
        /\ field.mode = "bytes" /\ returned = <<>>
    BY <1>2 DEF ConvertBytes, Ok, Fails, Done, Input, IInv, SoFar
  <2>2. field.ty \in {"Vec", "array"} BY <2>1 DEF IInv, TypeOK, Field
  <2>3. \/ UNCHANGED <<emitted, returned>>
        \/ field.ty # "Vec" /\ Adds(Conversion)
    BY <1>2, <2>1 DEF ConvertBytes, Ok, Fails, Emits, Adds
  <2>4. CASE UNCHANGED <<emitted, returned>>
    BY <2>1, <2>4 DEF Parted, Errors
  <2>5. CASE field.ty # "Vec" /\ Adds(Conversion)
    <3>1. Conversion \in DecodeError /\ Conversion.variant # "TypeName"
      BY ErrorsAreDecodeErrors DEF Conversion, Err
    <3>2. field.ty = "array" BY <2>2, <2>5
    <3> HIDE DEF Conversion
    <3> QED BY <2>1, <2>5, <3>1, <3>2, AddsOne DEF Parted
  <2> QED BY <2>3, <2>4, <2>5
<1> QED BY <1>1, <1>2

LEMMA StepIsParted == IInv /\ Parted /\ [Next]_vars => Parted'
<1> SUFFICES ASSUME IInv, Parted, [Next]_vars PROVE Parted' OBVIOUS
<1>1. CASE CheckType
  <2>1. /\ stage = "type" /\ stage' = "literal" /\ emitted = <<>> /\ returned = <<>>
        /\ UNCHANGED <<field, returned>>
    BY <1>1 DEF CheckType, Input, IInv, SoFar
  <2>2. emitted' = <<>> \/ emitted' = <<TypeName(Expected(field))>>
    BY <1>1, <2>1 DEF CheckType, Emits
  <2>3. TypeName(Expected(field)).variant = "TypeName" BY DEF TypeName, Err
  <2>4. Errors' = <<>> \/ Errors' = <<TypeName(Expected(field))>>
    BY <2>1, <2>2 DEF Errors
  <2> QED BY <2>1, <2>3, <2>4 DEF Parted
<1>2. CASE RightKind \/ WrongKind \/ NullLiteral BY <1>2, LiteralIsParted
<1>3. CASE NullBytes
  <2>1. emitted = <<>> /\ emitted' = <<>> /\ returned' = <<>> /\ stage' = "done"
    BY <1>3 DEF NullBytes, Ok, Done, IInv, SoFar
  <2>2. Errors' = <<>> BY <2>1 DEF Errors
  <2> QED BY <2>1, <2>2 DEF Parted
<1>4. CASE ReadBytes \/ ConvertBytes BY <1>4, BytesAreParted
<1>5. CASE UNCHANGED vars BY <1>5 DEF Parted, Errors, vars
<1> QED BY <1>1, <1>2, <1>3, <1>4, <1>5 DEF Next

\* A value is reported once for its annotation and once for its literal, in
\* this order, and twice for bytes only where they go to an array (traits.rs,
\* DecodeScalar::decode; decode::bytes), for every field and value.
THEOREM ReportsEachPartOnce == Spec => []OneErrorPerPart
<1>1. Init => Parted BY DEF Init, Parted, Errors
<1>2. Parted => OneErrorPerPart
  <2> SUFFICES ASSUME Parted
               PROVE  Cardinality({k \in DOMAIN Errors : Errors[k].variant = "TypeName"}) <= 1
    BY DEF Parted, OneErrorPerPart
  <2>1. {k \in DOMAIN Errors : Errors[k].variant = "TypeName"} \subseteq {1}
    BY DEF Parted
  <2>2. IsFiniteSet({1}) /\ Cardinality({1}) = 1 BY FS_Singleton
  <2> QED BY <2>1, <2>2, FS_Subset
<1> QED BY <1>1, <1>2, InitHolds, Inductive, StepIsParted, PTL DEF Spec
=============================================================================
