---------------------------- MODULE ScalarProofs ----------------------------
(***************************************************************************)
(* What decoding one value guarantees, for every field and every value.    *)
(***************************************************************************)
EXTENDS Scalars, TLAPS

\* Decoding a value ends in one of the four ways, with a number of errors.
LEMMA DecodeValueType ==
  ASSUME NEW f \in Field, NEW v \in Value
  PROVE  DecodeValue(f, v) \in Outcome
<1> USE DEF Result, Outcome, Count
<1>1. CASE f.mode = "normal"
  <2>1. RawDecode(f, v) \in Outcome BY DEF RawDecode
  <2>2. TypeCheck(f, v) \in Nat BY DEF TypeCheck
  <2>3. DecodeValue(f, v) = [emits |-> TypeCheck(f, v) + RawDecode(f, v).emits,
                             res |-> RawDecode(f, v).res]
    BY <1>1 DEF DecodeValue
  <2> QED BY <2>1, <2>2, <2>3
<1>2. CASE f.mode = "str"
  <2>1. DecodeStr(f, v) \in Outcome BY DEF DecodeStr
  <2> QED BY <1>2, <2>1 DEF DecodeValue
<1>3. CASE f.mode = "bytes"
  <2>1. Bytes(v) \in Outcome BY DEF Bytes
  <2>2. DecodeBytes(f, v) \in Outcome BY <2>1 DEF DecodeBytes
  <2> QED BY <1>3, <2>2 DEF DecodeValue
<1> QED BY <1>1, <1>2, <1>3 DEF Field

\* A placeholder is never returned without an error in the Context.
LEMMA DummyIsEmitted ==
  ASSUME NEW f \in Field, NEW v \in Value, DecodeValue(f, v).res = "dummy"
  PROVE  DecodeValue(f, v).emits > 0
<1> USE DEF Result, Outcome, Count
<1>1. CASE f.mode = "normal"
  <2>1. RawDecode(f, v).res = "dummy" => RawDecode(f, v).emits = 1 BY DEF RawDecode
  <2>2. TypeCheck(f, v) \in Nat BY DEF TypeCheck
  <2> QED BY <1>1, <2>1, <2>2 DEF DecodeValue
<1>2. CASE f.mode = "str"
  BY <1>2 DEF DecodeValue, DecodeStr
<1>3. CASE f.mode = "bytes"
  <2>1. Bytes(v).res = "dummy" => Bytes(v).emits = 1 BY DEF Bytes
  <2> QED BY <1>3, <2>1 DEF DecodeValue, DecodeBytes
<1> QED BY <1>1, <1>2, <1>3 DEF Field

\* The decoder of a value reports nothing and returns no Err exactly when the
\* field admits the value.
THEOREM CleanIffAdmitted ==
  ASSUME NEW f \in Field, NEW v \in Value
  PROVE  Clean(DecodeValue(f, v)) <=> Admits(f, v)
<1> USE DEF Result, Clean, Count, Admits, NullAdmitted, TypeAdmitted, LiteralAdmitted
<1>1. CASE f.mode = "normal"
  <2>1. Clean(DecodeValue(f, v)) <=>
          TypeCheck(f, v) = 0 /\ RawDecode(f, v) \in {Result(0, "value"), Result(0, "null")}
    BY <1>1 DEF DecodeValue, RawDecode, TypeCheck
  <2>2. TypeCheck(f, v) = 0 <=> TypeAdmitted(f, v)
    BY <1>1 DEF TypeCheck, AsBuiltin, Field, Plain, FromStr, BuiltinType, Numeric,
                IntTypes, FloatTypes
  <2>3. f.ty \in Plain BY <1>1 DEF Field
  <2>4. RawDecode(f, v) \in {Result(0, "value"), Result(0, "null")} <=>
          (f.opt /\ v.kind = "Null") \/ LiteralAdmitted(f, v)
    <3> HIDE DEF LiteralAdmitted
    <3> USE DEF RawDecode, KindOf, Numeric, IntTypes, FloatTypes
    <3>1. CASE f.opt /\ v.kind = "Null"
      <4>1. RawDecode(f, v) = Result(0, "null") BY <3>1
      <4> QED BY <3>1, <4>1
    <3>2. CASE ~(f.opt /\ v.kind = "Null")
      <4>1. LiteralAdmitted(f, v) <=>
              /\ v.kind = KindOf(f.ty)
              /\ f.ty \in Numeric \cup {"enum"} => v.fault # "text"
        BY <1>1, <2>3 DEF LiteralAdmitted, Plain
      <4>2. f.ty \in {"String", "bool"} <=> f.ty \notin Numeric \cup {"enum"}
        BY <2>3 DEF Plain
      <4>3. f.ty = "enum" => f.ty \notin Numeric OBVIOUS
      <4> DEFINE good == v.kind = KindOf(f.ty) /\ (f.ty \in {"String", "bool"} \/ v.fault # "text")
      <4>4. CASE good
        <5>1. RawDecode(f, v) = Result(0, "value") BY <3>2, <4>4
        <5>2. LiteralAdmitted(f, v) BY <4>1, <4>2, <4>4
        <5> QED BY <5>1, <5>2
      <4>5. CASE ~good
        <5>1. RawDecode(f, v) \in {Result(0, "fail"), Result(1, "dummy")} BY <3>2, <4>5
        <5>2. ~LiteralAdmitted(f, v) BY <4>1, <4>2, <4>5
        <5> QED BY <3>2, <5>1, <5>2
      <4> QED BY <4>4, <4>5
    <3> QED BY <3>1, <3>2
  <2> QED BY <1>1, <2>1, <2>2, <2>4
<1>2. CASE f.mode = "str"
  <2>1. f.ty = "FromStr" /\ f.ty \notin Numeric
    BY <1>2 DEF Field, Numeric, IntTypes, FloatTypes
  <2>2. v.kind \in Kind BY DEF Value
  <2>3. DecodeValue(f, v) = DecodeStr(f, v) BY <1>2 DEF DecodeValue
  <2>4. Clean(DecodeStr(f, v)) <=>
          /\ v.ty = "none"
          /\ \/ v.kind = "String" /\ v.fault # "text"
             \/ v.kind = "Null" /\ f.opt
    BY <2>2 DEF DecodeStr, Kind
  <2>5. Admits(f, v) <=>
          /\ v.ty = "none"
          /\ \/ v.kind = "String" /\ v.fault # "text"
             \/ v.kind = "Null" /\ f.opt
    BY <1>2, <2>1, <2>2 DEF Kind, KindOf, Numeric
  <2> QED BY <2>3, <2>4, <2>5
<1>3. CASE f.mode = "bytes"
  <2>1. f.ty \in {"Vec", "array"} BY <1>3 DEF Field
  <2> QED BY <1>3, <2>1 DEF DecodeValue, DecodeBytes, Bytes, AsBuiltin, FromStr, BuiltinType,
                KindOf, Field, Value, TextFault, Numeric, IntTypes, FloatTypes
<1> QED BY <1>1, <1>2, <1>3 DEF Field
=============================================================================
