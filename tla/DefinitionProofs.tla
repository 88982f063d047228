-------------------------- MODULE DefinitionProofs --------------------------
(***************************************************************************)
(* Theorems about Definitions, for declarations of any size.               *)
(***************************************************************************)
EXTENDS DefinitionRules, FiniteSetTheorems, WellFoundedInduction, TLAPS

\* The greatest of a set of positions is one of them.  (The least upper bound
\* is in the set, or the number before it would be a bound as well.)
LEMMA MaxIsMember ==
  ASSUME NEW n \in Nat, NEW S \in SUBSET (1..n), S # {}
  PROVE  Max(S) \in S
<1> DEFINE B == {x \in Nat : \A h \in S : h <= x}
           R == OpToRel(<, Nat)
<1>1. n \in B
  OBVIOUS
<1>2. PICK x \in B : \A y \in B : ~(<<y, x>> \in R)
  <2>1. B \subseteq Nat /\ B # {}
    BY <1>1
  <2> HIDE DEF B
  <2>2. QED
    BY <2>1, WFMin, NatLessThanWellFounded
<1>3. \A y \in B : ~(y < x)
  BY <1>2 DEF OpToRel
<1>4. x \in S
  <2>1. SUFFICES ASSUME x \notin S PROVE FALSE
    OBVIOUS
  <2>2. \A h \in S : h < x
    BY <2>1
  <2>3. x - 1 \in B
    <3>1. PICK h \in S : TRUE
      OBVIOUS
    <3>2. x - 1 \in Nat
      BY <2>2, <3>1
    <3>3. QED
      BY <2>2, <3>2
  <2>4. QED
    BY <2>3, <1>3
<1>5. \E m \in S : \A y \in S : m >= y
  BY <1>4
<1>6. QED
  BY <1>5 DEF Max

\* The least of a set of numbers.
LEMMA LeastOf ==
  ASSUME NEW B \in SUBSET Nat, B # {}
  PROVE  \E x \in B : \A y \in B : ~(y < x)
<1> DEFINE R == OpToRel(<, Nat)
<1>1. PICK x \in B : \A y \in B : ~(<<y, x>> \in R)
  <2>1. B \subseteq Nat /\ B # {}
    OBVIOUS
  <2>2. IsWellFoundedOn(R, Nat)
    BY NatLessThanWellFounded
  <2> HIDE DEF R
  <2>3. QED
    BY <2>1, <2>2, WFMin
<1>2. QED
  BY <1>1 DEF OpToRel

----------------------------------------------------------------------------
\* Sequences

LEMMA ElementOf ==
  ASSUME NEW T, NEW s \in Seq(T), NEW i \in DOMAIN s
  PROVE  s[i] \in T
  OBVIOUS

LEMMA AppendedTo ==
  ASSUME NEW T, NEW s \in Seq(T), NEW x \in T
  PROVE  /\ Append(s, x) \in Seq(T)
         /\ Len(Append(s, x)) = Len(s) + 1
         /\ \A i \in DOMAIN Append(s, x) :
              IF i \in DOMAIN s THEN Append(s, x)[i] = s[i]
                                ELSE i = Len(s) + 1 /\ Append(s, x)[i] = x
<1>1. Append(s, x) \in Seq(T) /\ Len(Append(s, x)) = Len(s) + 1
  OBVIOUS
<1>2. DOMAIN Append(s, x) = 1..(Len(s) + 1) /\ DOMAIN s = 1..Len(s) /\ Len(s) \in Nat
  BY <1>1
<1>3. \A i \in 1..(Len(s) + 1) : Append(s, x)[i] = IF i <= Len(s) THEN s[i] ELSE x
  OBVIOUS
<1>4. QED
  BY <1>1, <1>2, <1>3

LEMMA JoinedWith ==
  ASSUME NEW T, NEW s \in Seq(T), NEW t \in Seq(T)
  PROVE  /\ s \o t \in Seq(T)
         /\ \A j \in DOMAIN (s \o t) : \/ \E h \in DOMAIN s : (s \o t)[j] = s[h]
                                    \/ \E h \in DOMAIN t : (s \o t)[j] = t[h]
  OBVIOUS

LEMMA TailOf ==
  ASSUME NEW T, NEW s \in Seq(T), s # <<>>
  PROVE  /\ Head(s) \in T /\ Tail(s) \in Seq(T)
         /\ 1 \in DOMAIN s /\ Head(s) = s[1]
         /\ \A j \in DOMAIN Tail(s) : \E h \in DOMAIN s : Tail(s)[j] = s[h]
  OBVIOUS

\* Types

LEMMA LatestType ==
  ASSUME NEW d \in Decl, NEW k, NEW kind
  PROVE  /\ Latest(d, k, kind) \in Nat
         /\ OfKind(d, k, kind) # {} => Latest(d, k, kind) \in DOMAIN d.attrs
<1>1. d.attrs \in Seq(Attr)
  BY DEF Decl
<1>2. OfKind(d, k, kind) \in SUBSET (1..Len(d.attrs)) /\ Len(d.attrs) \in Nat
  BY <1>1 DEF OfKind
<1>3. CASE OfKind(d, k, kind) = {}
  BY <1>3 DEF Latest
<1>4. CASE OfKind(d, k, kind) # {}
  <2>1. Max(OfKind(d, k, kind)) \in OfKind(d, k, kind)
    BY <1>2, <1>4, MaxIsMember
  <2>2. QED
    BY <2>1, <1>1, <1>2, <1>4 DEF Latest
<1>5. QED
  BY <1>3, <1>4

LEMMA ModeType ==
  ASSUME NEW d \in Decl, NEW k
  PROVE  ModeAt(d, k) \in Mode
<1>1. d.attrs \in Seq(Attr)
  BY DEF Decl
<1>2. CASE OfKind(d, k, "mode") = {}
  BY <1>2 DEF ModeAt, NoMode, Mode
<1>3. CASE OfKind(d, k, "mode") # {}
  <2>1. d.attrs[Latest(d, k, "mode")] \in Attr
    BY <1>1, <1>3, LatestType
  <2>2. QED
    BY <2>1, <1>3 DEF ModeAt, Attr
<1>4. QED
  BY <1>2, <1>3

LEMMA EntryType ==
  ASSUME NEW d \in Decl, NEW k, NEW f \in Nat, NEW option \in BOOLEAN, NEW bool \in BOOLEAN
  PROVE  /\ EntryOf(d, k, f, option, bool) \in Entry
         /\ EntryOf(d, k, f, option, bool).fld = f
<1>1. Latest(d, k, "unwrap") \in Nat
  BY LatestType
<1>2. (KeepsDefault(ModeAt(d, k)) /\ OfKind(d, k, "default") # {}) \in BOOLEAN
  BY DEF KeepsDefault
<1>3. ASSUME NEW w PROVE KindIn(ModeAt(d, k), bool, w) \in {"one", "flatten", "multi", "bool"}
  BY DEF KindIn
<1>4. QED
  BY <1>1, <1>2, <1>3 DEF EntryOf, Entry

LEMMA PushType ==
  ASSUME NEW b \in Object, NEW ss, NEW e \in Entry
  PROVE  Push(b, ss, e) \in Object
<1>1. ASSUME NEW s \in Section PROVE Append(b[s], e) \in Seq(Entry) /\ b[s] \in Seq(Entry)
  BY DEF Object
<1>2. QED
  BY <1>1 DEF Push, Object

LEMMA NoFieldsType == NoFields \in Object
  BY DEF NoFields, Object

----------------------------------------------------------------------------
\* The invariant

Within(obj, n) == \A s \in Section : \A j \in DOMAIN obj[s] : obj[s][j].fld \in 1..n
Size(i) == Len(Items[i].fields)

\* What is kept of a field points at a field of the item it was read from.
BuiltInRange ==
  \A i \in DOMAIN built : /\ built[i].item \in DOMAIN Items
                          /\ Within(built[i].obj, Size(built[i].item))

Ranges ==
  /\ item # 0 /\ fld # 0
  /\ stage = "fields" => /\ item \in DOMAIN Items /\ fld - 1 <= Size(item)
                         /\ Within(bld, fld - 1)
  /\ BuiltInRange
  /\ stage = "children" => /\ item \in DOMAIN built
                           /\ \A j \in DOMAIN kids :
                                kids[j].fld \in 1..Size(built[item].item)

IInv == TypeOK /\ Ranges /\ CatchAllComesLast

LEMMA ItemTypes ==
  ASSUME TypeOK
  PROVE  /\ Items \in Seq(Item)
         /\ \A i \in DOMAIN Items :
              /\ Items[i] \in Item
              /\ Size(i) \in Nat /\ DOMAIN Items[i].fields = 1..Size(i)
              /\ \A f \in DOMAIN Items[i].fields : Items[i].fields[f] \in Decl
<1>1. Items \in Seq(Item)
  BY DEF TypeOK, Input, Items
<1>2. ASSUME NEW i \in DOMAIN Items PROVE Items[i] \in Item /\ Items[i].fields \in Seq(Decl)
  <2>1. Items[i] \in Item
    BY <1>1, ElementOf
  <2>2. QED
    BY <2>1 DEF Item
<1>3. QED
  BY <1>1, <1>2 DEF Size

Whys == {"container", "unreadable", "repeated", "unsupported", "decode", "refused"}

LEMMA ErrorType ==
  ASSUME NEW whys \in SUBSET Whys, NEW i \in Nat, NEW f \in Nat
  PROVE  ErrorsAt(whys, i, f) \subseteq Error
  BY DEF ErrorsAt, Error, Whys

LEMMA WhysOfDecl ==
  ASSUME NEW d, NEW k, NEW option
  PROVE  ReadErrors(d) \subseteq Whys /\ DecodeErrors(d, k, option) \subseteq Whys
<1>1. ReadErrors(d) \subseteq Whys
  BY DEF ReadErrors, Whys
<1>2. DecodeErrors(d, k, option) \subseteq Whys
  BY DEF DecodeErrors, Whys
<1>3. QED
  BY <1>1, <1>2

LEMMA WhysOfVariant ==
  ASSUME NEW it
  PROVE  VariantErrors(it) \subseteq Whys
  BY DEF VariantErrors, Whys

LEMMA KidsType ==
  ASSUME NEW obj \in Object, NEW n \in Nat, Within(obj, n)
  PROVE  /\ Kids(obj) \in Seq(Entry)
         /\ \A j \in DOMAIN Kids(obj) : Kids(obj)[j].fld \in 1..n
<1>1. obj["child"] \in Seq(Entry) /\ obj["children"] \in Seq(Entry)
  BY DEF Object, Section
<1>2. /\ \A j \in DOMAIN obj["child"] : obj["child"][j].fld \in 1..n
      /\ \A j \in DOMAIN obj["children"] : obj["children"][j].fld \in 1..n
  BY DEF Within, Section
<1>3. /\ Kids(obj) \in Seq(Entry)
      /\ \A j \in DOMAIN Kids(obj) : \/ \E h \in DOMAIN obj["child"] : Kids(obj)[j] = obj["child"][h]
                                   \/ \E h \in DOMAIN obj["children"] : Kids(obj)[j] = obj["children"][h]
  <2> DEFINE s == obj["child"]
             t == obj["children"]
  <2>1. s \in Seq(Entry) /\ t \in Seq(Entry) /\ Kids(obj) = s \o t
    BY <1>1 DEF Kids
  <2> HIDE DEF s, t
  <2>2. /\ s \o t \in Seq(Entry)
        /\ \A j \in DOMAIN (s \o t) : \/ \E h \in DOMAIN s : (s \o t)[j] = s[h]
                                   \/ \E h \in DOMAIN t : (s \o t)[j] = t[h]
    BY <2>1, JoinedWith
  <2>3. QED
    BY <2>1, <2>2 DEF s, t
<1>4. QED
  BY <1>2, <1>3

\* A field added behind n others.
LEMMA PushWithin ==
  ASSUME NEW b \in Object, NEW ss, NEW e \in Entry, NEW n \in Nat, NEW m \in Nat,
         Within(b, n), n <= m, e.fld \in 1..m
  PROVE  Within(Push(b, ss, e), m)
<1>1. ASSUME NEW s \in Section, NEW j \in DOMAIN Push(b, ss, e)[s]
      PROVE  Push(b, ss, e)[s][j].fld \in 1..m
  <2>1. b[s] \in Seq(Entry) /\ \A h \in DOMAIN b[s] : b[s][h].fld \in 1..n
    BY DEF Object, Within
  <2>2. CASE s \in ss
    <3>1. Push(b, ss, e)[s] = Append(b[s], e)
      BY <2>2 DEF Push
    <3>2. QED
      BY <2>1, <3>1, <1>1
  <2>3. CASE s \notin ss
    BY <2>1, <2>3, <1>1 DEF Push
  <2>4. QED
    BY <2>2, <2>3
<1>2. QED
  BY <1>1 DEF Within

LEMMA NoFieldsWithin ==
  ASSUME NEW n
  PROVE  Within(NoFields, n)
  BY DEF NoFields, Within

LEMMA NoFieldsOnlyBefore == OnlyBefore(NoFields)
  BY DEF NoFields, OnlyBefore, CatchAll, Section

\* A catch-all is pushed alone.
LEMMA GoesAlone ==
  ASSUME NEW mode \in Mode, NEW c \in CatchAll, c \in Goes(mode)
  PROVE  Goes(mode) = {c}
<1>1. mode.m # "flatten"
  BY DEF Goes, CatchAll
<1>2. QED
  BY <1>1 DEF Goes, CatchAll

\* What add_field checks keeps the catch-all fields last.
LEMMA PushOnlyBefore ==
  ASSUME NEW b \in Object, NEW mode \in Mode, NEW e \in Entry, NEW n \in Nat,
         OnlyBefore(b), Within(b, n), e.fld = n + 1, ~Closed(b, mode)
  PROVE  OnlyBefore(Push(b, Goes(mode), e))
<1> DEFINE p == Push(b, Goes(mode), e)
<1>1. \A s \in Section : b[s] \in Seq(Entry)
  BY DEF Object
<1>2. CatchAll \subseteq Section
  BY DEF CatchAll, Section
<1>3. ASSUME NEW c \in CatchAll
      PROVE  /\ Len(p[c]) <= 1
             /\ \A s \in Section : Closes(c, s) =>
                  \A i \in DOMAIN p[s], j \in DOMAIN p[c] :
                    s # c => p[s][i].fld < p[c][j].fld
  <2>1. CASE b[c] # <<>>
    <3>1. \A s \in Section : Closes(c, s) => s \notin Goes(mode)
      BY <2>1 DEF Closed
    <3>2. Closes(c, c)
      BY DEF Closes, CatchAll
    <3>3. p[c] = b[c] /\ \A s \in Section : Closes(c, s) => p[s] = b[s]
      BY <3>1, <3>2, <1>2 DEF Push
    <3>4. QED
      BY <3>3 DEF OnlyBefore
  <2>2. CASE b[c] = <<>> /\ c \notin Goes(mode)
    <3>1. p[c] = <<>>
      BY <2>2, <1>2 DEF Push
    <3>2. QED
      BY <3>1
  <2>3. CASE b[c] = <<>> /\ c \in Goes(mode)
    <3>1. Len(p[c]) = 1 /\ \A j \in DOMAIN p[c] : p[c][j] = e
      <4>1. c \in Section
        BY <1>2
      <4>2. p[c] = Append(b[c], e)
        BY <2>3, <4>1 DEF Push
      <4>3. b[c] \in Seq(Entry) /\ Len(b[c]) = 0 /\ DOMAIN b[c] = {}
        BY <2>3, <1>1, <4>1
      <4>4. Len(Append(b[c], e)) = 1 /\ \A j \in DOMAIN Append(b[c], e) : Append(b[c], e)[j] = e
        BY <4>3, AppendedTo
      <4>5. QED
        BY <4>2, <4>4
    <3>2. ASSUME NEW s \in Section, s # c PROVE p[s] = b[s]
      BY <2>3, <3>2, GoesAlone DEF Push
    <3>3. ASSUME NEW s \in Section, NEW i \in DOMAIN b[s] PROVE b[s][i].fld < e.fld
      BY <3>3 DEF Within
    <3>4. QED
      BY <3>1, <3>2, <3>3
  <2>4. QED
    BY <2>1, <2>2, <2>3
<1>4. QED
  BY <1>3 DEF OnlyBefore

LEMMA BuiltAppend ==
  ASSUME TypeOK, Ranges, CatchAllComesLast,
         NEW kind \in ItemKind, NEW obj \in Object, item \in DOMAIN Items,
         Within(obj, Size(item)), OnlyBefore(obj), input' = input,
         built' = Append(built, [item |-> item, kind |-> kind, obj |-> obj])
  PROVE  built' \in Seq(BuiltItem) /\ BuiltInRange' /\ BuiltOnlyBefore'
<1> DEFINE x == [item |-> item, kind |-> kind, obj |-> obj]
<1>1. built \in Seq(BuiltItem) /\ item \in Nat
  BY DEF TypeOK
<1>2. x \in BuiltItem /\ x.item = item /\ x.obj = obj
  BY <1>1 DEF BuiltItem
<1>3. built' = Append(built, x)
  OBVIOUS
<1> HIDE DEF x
<1>4. built' \in Seq(BuiltItem)
  BY <1>1, <1>2, <1>3, AppendedTo
<1>5. \A i \in DOMAIN built' : built'[i] = x \/ (i \in DOMAIN built /\ built'[i] = built[i])
  BY <1>1, <1>2, <1>3, AppendedTo
<1>6. Items' = Items /\ \A i : Size(i)' = Size(i)
  BY DEF Items, Size
<1>7. ASSUME NEW i \in DOMAIN built'
      PROVE  /\ built'[i].item \in DOMAIN Items
             /\ Within(built'[i].obj, Size(built'[i].item))
             /\ OnlyBefore(built'[i].obj)
  <2>1. CASE built'[i] = x
    BY <2>1, <1>2
  <2>2. CASE i \in DOMAIN built /\ built'[i] = built[i]
    BY <2>2 DEF Ranges, BuiltInRange, CatchAllComesLast, BuiltOnlyBefore
  <2>3. QED
    BY <1>5, <2>1, <2>2
<1>8. BuiltInRange'
  BY <1>6, <1>7 DEF BuiltInRange
<1>9. BuiltOnlyBefore'
  BY <1>7 DEF BuiltOnlyBefore
<1>10. QED
  BY <1>4, <1>8, <1>9

LEMMA KindType ==
  ASSUME NEW inp, NEW it, NEW obj
  PROVE  KindOf(inp, it, obj) \in ItemKind
  BY DEF KindOf, ItemKind

\* The decoders of an item that was read.
LEMMA MadeType ==
  ASSUME TypeOK, Ranges, NEW i \in DOMAIN built
  PROVE  MadeOf(built[i]) \subseteq Made
<1>1. built[i] \in BuiltItem /\ built[i].item \in DOMAIN Items
  BY ElementOf DEF TypeOK, Ranges, BuiltInRange
<1>2. built[i].item \in Nat /\ built[i].obj \in Object
  BY <1>1 DEF BuiltItem
<1>3. DOMAIN Items[built[i].item].fields \in SUBSET Nat
  BY <1>1, ItemTypes
<1>4. Entries(built[i]) \subseteq {"node", "children", "variant", "unwrap", "partial",
                                  "payload", "optional"}
  BY DEF Entries
<1>5. QED
  BY <1>2, <1>3, <1>4 DEF MadeOf, Made

LEMMA InitIInv == Init => IInv
<1> SUFFICES ASSUME Init PROVE IInv
  OBVIOUS
<1>1. input \in Input /\ WellFormedInput(input)
  BY InputsAssumption DEF Init
<1>2. TypeOK
  <2>1. /\ bld \in Object /\ built \in Seq(BuiltItem) /\ kids \in Seq(Entry)
        /\ errors \subseteq Error /\ made \subseteq Made
    BY NoFieldsType DEF Init
  <2>2. QED
    BY <1>1, <2>1 DEF Init, TypeOK
<1>3. Ranges
  BY DEF Init, Ranges, BuiltInRange
<1>4. CatchAllComesLast
  BY NoFieldsOnlyBefore DEF Init, CatchAllComesLast, BuiltOnlyBefore
<1>5. QED
  BY <1>2, <1>3, <1>4 DEF IInv

\* Steps that leave the builder and what was built alone: what is left is the
\* stage, and the item when the stage depends on it.
LEMMA Elsewhere ==
  ASSUME IInv, UNCHANGED <<input, fld, bld, built>>,
         item' \in Nat \ {0},
         stage' \in {"container", "item", "emit", "children", "done", "failed", "panic"},
         kids' \in Seq(Entry), errors' \subseteq Error, made' \subseteq Made,
         stage' = "children" =>
           /\ item' \in DOMAIN built
           /\ \A j \in DOMAIN kids' : kids'[j].fld \in 1..Size(built[item'].item)
  PROVE  IInv'
<1>1. TypeOK'
  BY DEF IInv, TypeOK
<1>2. Ranges'
  <2>1. Items' = Items /\ \A i : Size(i)' = Size(i)
    BY DEF Items, Size
  <2>2. BuiltInRange'
    BY <2>1 DEF IInv, Ranges, BuiltInRange
  <2>3. stage' = "children" =>
          /\ item' \in DOMAIN built'
          /\ \A j \in DOMAIN kids' : kids'[j].fld \in 1..Size(built[item].item)'
    BY DEF Items, Size
  <2>4. QED
    BY <2>2, <2>3 DEF IInv, Ranges
<1>3. CatchAllComesLast'
  BY DEF IInv, CatchAllComesLast, BuiltOnlyBefore
<1>4. QED
  BY <1>1, <1>2, <1>3 DEF IInv

LEMMA AddFieldStep ==
  ASSUME IInv, AddField
  PROVE  IInv'
<1> DEFINE d == Fields[fld]
           option == d.ty = "Option"
           bool == d.ty = "bool"
           mode == ModeAt(d, 0)
           e == EntryOf(d, 0, fld, option, bool)
<1>1. /\ item \in DOMAIN Items /\ fld \in 1..Size(item)
      /\ item \in Nat /\ fld \in Nat /\ Size(item) \in Nat
      /\ bld \in Object /\ Within(bld, fld - 1) /\ OnlyBefore(bld)
  BY ItemTypes DEF IInv, TypeOK, Ranges, AddField, Fields, Size, CatchAllComesLast
<1>2. d \in Decl
  BY <1>1, ItemTypes DEF IInv, Fields
<1>3. mode \in Mode /\ e \in Entry /\ e.fld = fld
  <2>1. option \in BOOLEAN /\ bool \in BOOLEAN
    OBVIOUS
  <2> HIDE DEF d, option, bool
  <2>2. QED
    BY <2>1, <1>1, <1>2, ModeType, EntryType
<1>4. ~Closed(bld, mode)
  BY DEF AddField, RefusedNow, Refuses
<1>5. /\ bld' = Push(bld, Goes(mode), e)
      /\ errors' = errors \cup ErrorsAt(ReadErrors(d) \cup DecodeErrors(d, 0, option), item, fld)
      /\ fld' = fld + 1
      /\ UNCHANGED <<input, stage, item, built, kids, made>>
      /\ stage = "fields"
  BY DEF AddField
<1> HIDE DEF d, option, bool, mode, e
<1>6. bld' \in Object
  BY <1>1, <1>3, <1>5, PushType
<1>7. Within(bld', fld)
  <2>1. fld - 1 \in Nat /\ fld - 1 <= fld /\ e.fld \in 1..fld
    BY <1>1, <1>3
  <2>2. QED
    BY <2>1, <1>1, <1>3, <1>5, PushWithin
<1>8. OnlyBefore(bld')
  <2>1. fld - 1 \in Nat /\ e.fld = (fld - 1) + 1
    BY <1>1, <1>3
  <2>2. QED
    BY <2>1, <1>1, <1>3, <1>4, <1>5, PushOnlyBefore
<1>9. errors' \subseteq Error
  <2>1. ErrorsAt(ReadErrors(d) \cup DecodeErrors(d, 0, option), item, fld) \subseteq Error
    BY <1>1, ErrorType, WhysOfDecl
  <2>2. QED
    BY <2>1, <1>5 DEF IInv, TypeOK
<1>10. TypeOK'
  <2>1. fld' \in Nat
    BY <1>1, <1>5
  <2>2. /\ UNCHANGED <<input, stage, item, built, kids, made>>
        /\ bld' \in Object /\ errors' \subseteq Error
    BY <1>5, <1>6, <1>9
  <2>3. QED
    BY <2>1, <2>2 DEF IInv, TypeOK
<1>11. Ranges'
  <2>1. Items' = Items /\ \A i : Size(i)' = Size(i)
    BY <1>5 DEF Items, Size
  <2>2. BuiltInRange'
    BY <2>1, <1>5 DEF IInv, Ranges, BuiltInRange
  <2>3. fld' # 0 /\ item' # 0 /\ fld' - 1 = fld /\ item' \in DOMAIN Items' /\ stage' # "children"
    BY <2>1, <1>1, <1>5 DEF IInv, Ranges
  <2>4. fld' - 1 <= Size(item)' /\ Within(bld, fld - 1)'
    BY <2>1, <2>3, <1>1, <1>5, <1>7 DEF Size
  <2>5. QED
    BY <2>2, <2>3, <2>4 DEF Ranges
<1>12. CatchAllComesLast'
  BY <1>5, <1>8 DEF IInv, CatchAllComesLast, BuiltOnlyBefore
<1>13. QED
  BY <1>10, <1>11, <1>12 DEF IInv

LEMMA EmitUnwrapStep ==
  ASSUME IInv, EmitUnwrap
  PROVE  IInv'
<1> DEFINE f == Head(kids).fld
           at == Head(kids).wrap
           of == built[item].item
           d == Items[of].fields[f]
           e == EntryOf(d, at, f, FALSE, FALSE)
           obj == Push(NoFields, Goes(ModeAt(d, at)), e)
           n == Size(of)
<1>1. /\ kids \in Seq(Entry) /\ kids # <<>>
      /\ item \in DOMAIN built /\ item \in Nat /\ item # 0
      /\ \A j \in DOMAIN kids : kids[j].fld \in 1..n
      /\ of \in DOMAIN Items
  BY DEF IInv, TypeOK, Ranges, BuiltInRange, EmitUnwrap
<1>2. f \in 1..n /\ n \in Nat /\ of \in Nat
  BY <1>1, TailOf, ItemTypes DEF IInv
<1>3. d \in Decl
  BY <1>1, <1>2, ItemTypes DEF IInv
<1>4. /\ errors' = errors \cup ErrorsAt(DecodeErrors(d, at, FALSE), of, f)
      /\ kids' = Kids(obj) \o Tail(kids)
      /\ made' = made \cup {[entry |-> "unwrap", item |-> of, obj |-> obj, fields |-> {f}]}
      /\ UNCHANGED <<input, stage, item, fld, bld, built>>
      /\ stage = "children"
  BY DEF EmitUnwrap
<1>5. e \in Entry /\ e.fld = f
  <2> HIDE DEF d, f, at
  <2>1. f \in Nat
    BY <1>2
  <2>2. QED
    BY <2>1, <1>3, EntryType
<1> HIDE DEF f, at, of, d, e, n
<1>6. obj \in Object /\ Within(obj, n)
  <2>1. obj \in Object
    BY <1>5, NoFieldsType, PushType
  <2>2. Within(obj, n)
    BY <1>2, <1>5, NoFieldsType, NoFieldsWithin, PushWithin
  <2>3. QED
    BY <2>1, <2>2
<1> HIDE DEF obj
<1>7. kids' \in Seq(Entry) /\ \A j \in DOMAIN kids' : kids'[j].fld \in 1..n
  <2>1. /\ Kids(obj) \in Seq(Entry)
        /\ \A j \in DOMAIN Kids(obj) : Kids(obj)[j].fld \in 1..n
    BY <1>2, <1>6, KidsType
  <2>2. /\ Tail(kids) \in Seq(Entry)
        /\ \A j \in DOMAIN Tail(kids) : Tail(kids)[j].fld \in 1..n
    BY <1>1, TailOf
  <2>3. QED
    BY <2>1, <2>2, <1>4, JoinedWith
<1>8. errors' \subseteq Error
  <2>1. ErrorsAt(DecodeErrors(d, at, FALSE), of, f) \subseteq Error
    <3>1. of \in Nat /\ f \in Nat
      BY <1>2
    <3>2. DecodeErrors(d, at, FALSE) \subseteq Whys
      BY WhysOfDecl
    <3>3. QED
      BY <3>1, <3>2, ErrorType
  <2>2. QED
    BY <2>1, <1>4 DEF IInv, TypeOK
<1>9. made' \subseteq Made
  <2>1. [entry |-> "unwrap", item |-> of, obj |-> obj, fields |-> {f}] \in Made
    BY <1>2, <1>6 DEF Made
  <2>2. QED
    BY <2>1, <1>4 DEF IInv, TypeOK
<1>10. \A j \in DOMAIN kids' : kids'[j].fld \in 1..Size(built[item'].item)
  BY <1>4, <1>7 DEF n, of
<1>11. QED
  BY <1>1, <1>4, <1>7, <1>8, <1>9, <1>10, Elsewhere

LEMMA StepIInv ==
  ASSUME IInv, [Next]_vars
  PROVE  IInv'
<1>1. /\ item \in Nat \ {0} /\ kids \in Seq(Entry) /\ errors \subseteq Error /\ made \subseteq Made
      /\ bld \in Object /\ built \in Seq(BuiltItem) /\ item + 1 \in Nat \ {0}
  BY DEF IInv, TypeOK, Ranges
<1>2. /\ Items \in Seq(Item) /\ DOMAIN Items = 1..Len(Items) /\ Len(Items) \in Nat
      /\ DOMAIN built = 1..Len(built) /\ Len(built) \in Nat
  BY <1>1, ItemTypes DEF IInv
<1>3. CASE ReadContainer
  <2>1. errors' \subseteq Error
    <3>1. ErrorsAt({"container"}, 0, 0) \subseteq Error
      BY ErrorType DEF Whys
    <3>2. QED
      BY <3>1, <1>3 DEF ReadContainer
  <2>2. QED
    BY <2>1, <1>1, <1>3, Elsewhere DEF ReadContainer
<1>4. ASSUME ReadVariantAttrs PROVE errors' \subseteq Error
  <2>1. ErrorsAt(VariantErrors(Items[item]), item, 0) \subseteq Error
    BY <1>1, ErrorType, WhysOfVariant
  <2>2. QED
    BY <2>1, <1>1, <1>4 DEF ReadVariantAttrs
<1>5. CASE SkipVariant
  BY <1>1, <1>4, <1>5, Elsewhere DEF SkipVariant
<1>6. CASE ReadPlainVariant
  <2>1. item \in DOMAIN Items
    BY <1>1, <1>2, <1>6 DEF ReadPlainVariant
  <2>2. built' \in Seq(BuiltItem) /\ BuiltInRange' /\ BuiltOnlyBefore'
    BY <2>1, <1>6, BuiltAppend, KindType, NoFieldsType, NoFieldsWithin, NoFieldsOnlyBefore
       DEF IInv, ReadPlainVariant
  <2>3. errors' \subseteq Error
    BY <1>4, <1>6 DEF ReadPlainVariant
  <2>4. TypeOK'
    BY <2>2, <2>3, <1>1, <1>6 DEF IInv, TypeOK, ReadPlainVariant
  <2>5. Ranges'
    BY <2>2, <1>1, <1>6 DEF IInv, Ranges, ReadPlainVariant
  <2>6. CatchAllComesLast'
    BY <2>2, <1>6 DEF IInv, CatchAllComesLast, ReadPlainVariant
  <2>7. QED
    BY <2>4, <2>5, <2>6 DEF IInv
<1>7. CASE BeginFields
  <2>1. item \in DOMAIN Items
    BY <1>1, <1>2, <1>7 DEF BeginFields
  <2>2. errors' \subseteq Error
    BY <1>4, <1>7 DEF BeginFields
  <2>3. TypeOK'
    BY <2>2, <1>1, <1>7, NoFieldsType DEF IInv, TypeOK, BeginFields
  <2>4. Items' = Items /\ \A i : Size(i)' = Size(i)
    BY <1>7 DEF BeginFields, Items, Size
  <2>5. BuiltInRange'
    BY <2>4, <1>7 DEF IInv, Ranges, BuiltInRange, BeginFields
  <2>6. Size(item)' \in Nat /\ item' = item /\ fld' = 1 /\ bld' = NoFields /\ stage' = "fields"
    BY <2>1, <2>4, <1>7, ItemTypes DEF IInv, BeginFields, Size
  <2>7. Ranges'
    BY <2>1, <2>4, <2>5, <2>6, <1>1, NoFieldsWithin DEF Ranges
  <2>8. CatchAllComesLast'
    BY <1>7, NoFieldsOnlyBefore DEF IInv, CatchAllComesLast, BuiltOnlyBefore, BeginFields
  <2>9. QED
    BY <2>3, <2>7, <2>8 DEF IInv
<1>8. CASE AddField
  BY <1>8, AddFieldStep
<1>9. CASE RefuseField
  <2>1. errors' \subseteq Error
    <3> DEFINE d == Fields[fld]
               whys == {"refused"} \cup ReadErrors(d) \cup DecodeErrors(d, 0, d.ty = "Option")
    <3>1. whys \subseteq Whys
      BY WhysOfDecl DEF Whys
    <3>2. fld \in Nat
      BY DEF IInv, TypeOK
    <3>3. errors' = errors \cup ErrorsAt(whys, item, fld)
      BY <1>9 DEF RefuseField
    <3> HIDE DEF whys
    <3>4. ErrorsAt(whys, item, fld) \subseteq Error
      BY <3>1, <3>2, <1>1, ErrorType
    <3>5. QED
      BY <3>3, <3>4, <1>1
  <2>2. QED
    BY <2>1, <1>1, <1>9, Elsewhere DEF RefuseField
<1>10. CASE EndFields
  <2>1. /\ item \in DOMAIN Items /\ Within(bld, fld - 1) /\ fld - 1 <= Size(item)
        /\ Size(item) \in Nat /\ fld \in Nat /\ OnlyBefore(bld)
    BY <1>10, ItemTypes DEF EndFields, IInv, TypeOK, Ranges, CatchAllComesLast
  <2>2. Within(bld, Size(item))
    BY <2>1 DEF Within
  <2>3. built' \in Seq(BuiltItem) /\ BuiltInRange' /\ BuiltOnlyBefore'
    BY <2>1, <2>2, <1>1, <1>10, BuiltAppend, KindType DEF IInv, EndFields
  <2>4. TypeOK'
    BY <2>3, <1>1, <1>10 DEF IInv, TypeOK, EndFields
  <2>5. Ranges'
    BY <2>3, <1>1, <1>10 DEF IInv, Ranges, EndFields
  <2>6. CatchAllComesLast'
    BY <2>1, <2>3, <1>10 DEF CatchAllComesLast, EndFields
  <2>7. QED
    BY <2>4, <2>5, <2>6 DEF IInv
<1>11. CASE EndItems
  BY <1>1, <1>11, Elsewhere DEF EndItems
<1>12. CASE EmitNamedVariant
  BY <1>1, <1>12, Elsewhere DEF EmitNamedVariant
<1>13. CASE EmitPlain
  <2>1. item \in DOMAIN built
    BY <1>1, <1>2, <1>13 DEF EmitPlain
  <2>2. made' \subseteq Made
    BY <2>1, <1>1, <1>13, MadeType DEF IInv, EmitPlain
  <2>3. QED
    BY <2>2, <1>1, <1>13, Elsewhere DEF EmitPlain
<1>14. CASE BeginDecoder
  <2>1. item \in DOMAIN built
    BY <1>1, <1>2, <1>14 DEF BeginDecoder
  <2>2. built[item] \in BuiltItem
    BY <2>1, <1>1, ElementOf
  <2>3. built[item].obj \in Object /\ built[item].item \in DOMAIN Items
        /\ Within(built[item].obj, Size(built[item].item))
    BY <2>1, <2>2 DEF BuiltItem, IInv, Ranges, BuiltInRange
  <2>4. /\ Kids(built[item].obj) \in Seq(Entry)
        /\ \A j \in DOMAIN Kids(built[item].obj) :
             Kids(built[item].obj)[j].fld \in 1..Size(built[item].item)
    BY <2>3, ItemTypes, KidsType DEF IInv
  <2>5. QED
    BY <2>1, <2>4, <1>1, <1>14, Elsewhere DEF BeginDecoder
<1>15. CASE EmitArm
  <2>1. /\ stage = "children" /\ item \in DOMAIN built
        /\ \A j \in DOMAIN kids : kids[j].fld \in 1..Size(built[item].item)
    BY <1>15 DEF EmitArm, IInv, Ranges
  <2>2. /\ Tail(kids) \in Seq(Entry)
        /\ \A j \in DOMAIN Tail(kids) : Tail(kids)[j].fld \in 1..Size(built[item].item)
    BY <2>1, <1>1, <1>15, TailOf DEF EmitArm
  <2>3. QED
    BY <2>1, <2>2, <1>1, <1>15, Elsewhere DEF EmitArm
<1>16. CASE EmitUnwrap
  BY <1>16, EmitUnwrapStep
<1>17. CASE EmitDecoder
  <2>1. item \in DOMAIN built
    BY <1>17 DEF EmitDecoder, IInv, Ranges
  <2>2. made' \subseteq Made
    BY <2>1, <1>1, <1>17, MadeType DEF IInv, EmitDecoder
  <2>3. QED
    BY <2>2, <1>1, <1>17, Elsewhere DEF EmitDecoder
<1>18. CASE AssertionFails
  BY <1>1, <1>18, Elsewhere DEF AssertionFails
<1>19. CASE EndEmission
  BY <1>1, <1>19, Elsewhere DEF EndEmission
<1>20. CASE UNCHANGED vars
  <2>1. TypeOK'
    BY <1>20 DEF IInv, TypeOK, vars
  <2>2. Ranges'
    BY <1>20 DEF IInv, Ranges, BuiltInRange, Items, Size, vars
  <2>3. CatchAllComesLast'
    BY <1>20 DEF IInv, CatchAllComesLast, BuiltOnlyBefore, vars
  <2>4. QED
    BY <2>1, <2>2, <2>3 DEF IInv
<1>21. QED
  BY <1>3, <1>5, <1>6, <1>7, <1>8, <1>9, <1>10, <1>11, <1>12, <1>13, <1>14, <1>15,
     <1>16, <1>17, <1>18, <1>19, <1>20 DEF Next

LEMMA AlwaysIInv == Spec => []IInv
  BY InitIInv, StepIInv, PTL DEF Spec

\* The type invariant of Definitions.
THEOREM DefinitionTypes == Spec => []TypeOK
<1>1. IInv => TypeOK
  BY DEF IInv
<1>2. QED
  BY <1>1, AlwaysIInv, PTL

\* Whatever the declarations, add_field lets no field of its kind follow a
\* catch-all field, and no second catch-all.
THEOREM CatchAllsComeLast == Spec => []CatchAllComesLast
<1>1. IInv => CatchAllComesLast
  BY DEF IInv
<1>2. QED
  BY <1>1, AlwaysIInv, PTL

----------------------------------------------------------------------------
\* What is kept of the fields

\* The sections a field is in.
Holders(obj, f) == {s \in Section : \E j \in DOMAIN obj[s] : obj[s][j].fld = f}

\* Each part of the node that a field takes has a section of its own.
Fits(mode, sections) ==
  /\ {Part(s) : s \in sections} = Feeds(mode)
  /\ Cardinality(sections) = Cardinality(Feeds(mode))
  /\ CatchesAll(mode) <=> sections \cap CatchAll # {}

LEMMA HoldsIs ==
  ASSUME NEW obj, NEW it, NEW n
  PROVE  Holds(obj, it, n) <=>
           /\ InOrder(obj)
           /\ \A f \in 1..n : Fits(ModesOf(it)[f], Holders(obj, f))
BY DEF Holds, Fits, Holders

\* A flatten that could be read lists nothing but the two directions.
LEMMA FlattensBothWays ==
  ASSUME NEW d \in Decl, NEW k
  PROVE  ModeAt(d, k).of \subseteq {"child", "property"}
<1>1. CASE OfKind(d, k, "mode") = {}
  BY <1>1 DEF ModeAt, NoMode
<1>2. CASE OfKind(d, k, "mode") # {}
  <2> DEFINE j == Latest(d, k, "mode")
  <2>1. d.attrs \in Seq(Attr)
    BY DEF Decl
  <2>2. OfKind(d, k, "mode") \in SUBSET (1..Len(d.attrs)) /\ Len(d.attrs) \in Nat
    BY <2>1 DEF OfKind
  <2>3. j \in OfKind(d, k, "mode")
    BY <2>2, <1>2, MaxIsMember DEF Latest
  <2>4. Parses(d.attrs[j])
    BY <2>3 DEF OfKind, Readable
  <2>5. QED
    BY <2>4, <1>2 DEF Parses, ModeAt
<1>3. QED
  BY <1>1, <1>2

LEMMA GoesWhereItFits ==
  ASSUME NEW mode \in Mode, mode.of \subseteq {"child", "property"}
  PROVE  Goes(mode) \subseteq Section /\ Fits(mode, Goes(mode))
<1>1. Goes(mode) \subseteq Section
  BY DEF Goes, Section, Mode
<1>2. CASE mode.m = "flatten"
  <2>1. Goes(mode) = mode.of /\ Feeds(mode) = mode.of
    <3>1. Feeds(mode) = {Listed(word) : word \in mode.of}
      BY <1>2 DEF Feeds
    <3>2. \A word \in mode.of : Listed(word) = word
      BY DEF Listed
    <3>3. {Listed(word) : word \in mode.of} = mode.of
      BY <3>2, Zenon
    <3>4. Goes(mode) = mode.of
      BY <1>2 DEF Goes
    <3>5. QED
      BY <3>1, <3>3, <3>4
  <2>2. \A s \in mode.of : Part(s) = s
    BY DEF Part
  <2>3. ~CatchesAll(mode) /\ mode.of \cap CatchAll = {}
    BY <1>2 DEF CatchesAll, CatchAll
  <2>4. {Part(s) : s \in mode.of} = mode.of
    BY <2>2, Zenon
  <2>5. QED
    BY <1>1, <2>1, <2>3, <2>4 DEF Fits
<1>3. CASE mode.m # "flatten"
  <2>1. PICK s \in Section : Goes(mode) = {s} /\ Feeds(mode) = {Part(s)}
                             /\ (CatchesAll(mode) <=> s \in CatchAll)
    <3>1. CASE mode.m = "none"
      BY <3>1 DEF Goes, Feeds, Part, CatchesAll, CatchAll, Section
    <3>2. CASE mode.m = "children" /\ mode.name
      BY <3>2 DEF Goes, Feeds, Part, CatchesAll, CatchAll, Section
    <3>3. CASE mode.m = "children" /\ ~mode.name
      BY <3>3 DEF Goes, Feeds, Part, CatchesAll, CatchAll, Section
    <3>4. CASE mode.m \in {"argument", "arguments", "property", "properties"}
      BY <3>4 DEF Goes, Feeds, Part, CatchesAll, CatchAll, Section
    <3>5. CASE mode.m \in {"child", "span", "node_name", "type_name"}
      BY <3>5 DEF Goes, Feeds, Part, CatchesAll, CatchAll, Section
    <3>6. QED
      BY <1>3, <3>1, <3>2, <3>3, <3>4, <3>5 DEF Mode
  <2>2. Cardinality({s}) = 1 /\ Cardinality({Part(s)}) = 1
    BY FS_Singleton
  <2>3. {Part(t) : t \in {s}} = {Part(s)}
    OBVIOUS
  <2>4. QED
    BY <2>1, <2>2, <2>3, <1>1 DEF Fits
<1>4. QED
  BY <1>2, <1>3

\* What EntryOf makes of a field of an item.
ReadOf(it, f) ==
  EntryOf(it.fields[f], 0, f, it.fields[f].ty = "Option", it.fields[f].ty = "bool")

\* A builder holds the first n fields of an item, in order, and nothing else.
Exact(obj, it, n) ==
  /\ InOrder(obj)
  /\ \A f \in 1..n : Holders(obj, f) = Goes(ModesOf(it)[f])
  /\ \A s \in Section : \A j \in DOMAIN obj[s] : obj[s][j] = ReadOf(it, obj[s][j].fld)

\* The fields of an item.
LEMMA FieldTypes ==
  ASSUME NEW it \in Item
  PROVE  /\ Len(it.fields) \in Nat /\ DOMAIN it.fields = 1..Len(it.fields)
         /\ \A f \in 1..Len(it.fields) :
              /\ it.fields[f] \in Decl
              /\ ModesOf(it)[f] = ModeAt(it.fields[f], 0)
              /\ ModesOf(it)[f] \in Mode
              /\ ModesOf(it)[f].of \subseteq {"child", "property"}
              /\ ReadOf(it, f) \in Entry /\ ReadOf(it, f).fld = f
<1>1. it.fields \in Seq(Decl)
  BY DEF Item
<1>2. ASSUME NEW f \in 1..Len(it.fields)
      PROVE  /\ it.fields[f] \in Decl
             /\ ModesOf(it)[f] = ModeAt(it.fields[f], 0)
             /\ ModesOf(it)[f] \in Mode
             /\ ModesOf(it)[f].of \subseteq {"child", "property"}
             /\ ReadOf(it, f) \in Entry /\ ReadOf(it, f).fld = f
  <2> DEFINE d == it.fields[f]
             option == d.ty = "Option"
             bool == d.ty = "bool"
  <2>1. d \in Decl /\ f \in Nat
    BY <1>1, <1>2
  <2>2. ModesOf(it)[f] = ModeAt(d, 0)
    BY <1>1, <1>2 DEF ModesOf
  <2>3. option \in BOOLEAN /\ bool \in BOOLEAN
    OBVIOUS
  <2>4. ReadOf(it, f) = EntryOf(d, 0, f, option, bool)
    BY DEF ReadOf
  <2> HIDE DEF d, option, bool
  <2>5. EntryOf(d, 0, f, option, bool) \in Entry /\ EntryOf(d, 0, f, option, bool).fld = f
    BY <2>1, <2>3, EntryType
  <2>6. ModeAt(d, 0) \in Mode /\ ModeAt(d, 0).of \subseteq {"child", "property"}
    BY <2>1, ModeType, FlattensBothWays
  <2>7. QED
    BY <2>1, <2>2, <2>4, <2>5, <2>6 DEF d
<1>3. Len(it.fields) \in Nat /\ DOMAIN it.fields = 1..Len(it.fields)
  BY <1>1
<1>4. QED
  BY <1>2, <1>3

LEMMA ExactHolds ==
  ASSUME NEW it \in Item, NEW obj, NEW n \in Nat, n <= Len(it.fields), Exact(obj, it, n)
  PROVE  Holds(obj, it, n)
<1>1. ASSUME NEW f \in 1..n
      PROVE  Fits(ModesOf(it)[f], Holders(obj, f))
  <2>1. f \in 1..Len(it.fields)
    BY FieldTypes
  <2>2. Fits(ModesOf(it)[f], Goes(ModesOf(it)[f]))
    BY <2>1, FieldTypes, GoesWhereItFits
  <2>3. QED
    BY <2>2 DEF Exact
<1>2. QED
  BY <1>1, HoldsIs DEF Exact

LEMMA NoFieldsExact ==
  ASSUME NEW it
  PROVE  Exact(NoFields, it, 0)
BY DEF Exact, InOrder, NoFields

\* The field read next is added behind those before it.
LEMMA PushExact ==
  ASSUME NEW b \in Object, NEW it \in Item, NEW n \in Nat, n + 1 <= Len(it.fields),
         Within(b, n), Exact(b, it, n)
  PROVE  Exact(Push(b, Goes(ModesOf(it)[n + 1]), ReadOf(it, n + 1)), it, n + 1)
<1> DEFINE ss == Goes(ModesOf(it)[n + 1])
           e == ReadOf(it, n + 1)
           p == Push(b, ss, e)
<1>0. n + 1 \in 1..Len(it.fields) /\ e \in Entry /\ e.fld = n + 1 /\ ss \subseteq Section
  <2>1. n + 1 \in 1..Len(it.fields)
    BY FieldTypes
  <2>2. QED
    BY <2>1, FieldTypes, GoesWhereItFits
<1> HIDE DEF ss, e
<1>1. ASSUME NEW s \in Section
      PROVE  /\ b[s] \in Seq(Entry) /\ p[s] \in Seq(Entry)
             /\ \A i \in DOMAIN b[s] : b[s][i].fld \in 1..n
             /\ s \notin ss => p[s] = b[s]
             /\ s \in ss => /\ Len(p[s]) = Len(b[s]) + 1
                            /\ \A i \in DOMAIN p[s] :
                                 IF i \in DOMAIN b[s] THEN p[s][i] = b[s][i]
                                                      ELSE i = Len(b[s]) + 1 /\ p[s][i] = e
  <2>1. b[s] \in Seq(Entry)
    BY DEF Object
  <2>2. CASE s \in ss
    <3>1. p[s] = Append(b[s], e)
      BY <2>2 DEF Push
    <3>2. QED
      BY <2>1, <2>2, <3>1, <1>0, AppendedTo DEF Within
  <2>3. CASE s \notin ss
    BY <2>1, <2>3 DEF Push, Within
  <2>4. QED
    BY <2>2, <2>3
<1> HIDE DEF p
<1>2. InOrder(b) /\ \A f \in 1..n : Holders(b, f) = Goes(ModesOf(it)[f])
  BY DEF Exact
<1>3. InOrder(p)
  <2>1. SUFFICES ASSUME NEW s \in Section, NEW i \in DOMAIN p[s], NEW j \in DOMAIN p[s], i < j
                 PROVE  p[s][i].fld < p[s][j].fld
    BY DEF InOrder
  <2>2. \A h \in DOMAIN b[s], g \in DOMAIN b[s] : h < g => b[s][h].fld < b[s][g].fld
    BY <1>2 DEF InOrder
  <2>3. CASE s \notin ss
    BY <2>1, <2>2, <2>3, <1>1
  <2>4. CASE s \in ss
    <3>1. DOMAIN b[s] = 1..Len(b[s]) /\ DOMAIN p[s] = 1..(Len(b[s]) + 1) /\ Len(b[s]) \in Nat
      BY <2>4, <1>1
    <3>2. i \in DOMAIN b[s] /\ p[s][i] = b[s][i]
      BY <2>1, <2>4, <3>1, <1>1
    <3>3. CASE j \in DOMAIN b[s]
      BY <2>1, <2>2, <2>4, <3>2, <3>3, <1>1
    <3>4. CASE j \notin DOMAIN b[s]
      BY <2>4, <3>2, <3>4, <1>0, <1>1
    <3>5. QED
      BY <3>3, <3>4
  <2>5. QED
    BY <2>3, <2>4
<1>4. \A f \in 1..n : Holders(p, f) = Holders(b, f)
  <2>1. SUFFICES ASSUME NEW f \in 1..n, NEW s \in Section
                 PROVE  (\E j \in DOMAIN p[s] : p[s][j].fld = f)
                          <=> (\E j \in DOMAIN b[s] : b[s][j].fld = f)
    BY DEF Holders
  <2>2. CASE s \notin ss
    BY <2>2, <1>1
  <2>3. CASE s \in ss
    <3>1. DOMAIN b[s] = 1..Len(b[s]) /\ DOMAIN p[s] = 1..(Len(b[s]) + 1) /\ Len(b[s]) \in Nat
      BY <2>3, <1>1
    <3>2. DOMAIN b[s] \subseteq DOMAIN p[s] /\ f # e.fld
      BY <3>1, <1>0
    <3>3. QED
      BY <2>3, <3>2, <1>1
  <2>4. QED
    BY <2>2, <2>3
<1>5. Holders(p, n + 1) = ss
  <2>1. ASSUME NEW s \in Section
        PROVE  (\E j \in DOMAIN p[s] : p[s][j].fld = n + 1) <=> s \in ss
    <3>1. \A j \in DOMAIN b[s] : b[s][j].fld # n + 1
      BY <1>1
    <3>2. CASE s \notin ss
      BY <3>1, <3>2, <1>1
    <3>3. CASE s \in ss
      <4>1. DOMAIN b[s] = 1..Len(b[s]) /\ DOMAIN p[s] = 1..(Len(b[s]) + 1) /\ Len(b[s]) \in Nat
        BY <3>3, <1>1
      <4>2. Len(b[s]) + 1 \in DOMAIN p[s] /\ Len(b[s]) + 1 \notin DOMAIN b[s]
        BY <4>1
      <4>3. p[s][Len(b[s]) + 1] = e
        BY <3>3, <4>2, <1>1
      <4>4. QED
        BY <3>3, <4>2, <4>3, <1>0
    <3>4. QED
      BY <3>2, <3>3
  <2>2. QED
    BY <2>1, <1>0 DEF Holders
<1>6. \A f \in 1..(n + 1) : Holders(p, f) = Goes(ModesOf(it)[f])
  <2>1. \A f \in 1..(n + 1) : f \in 1..n \/ f = n + 1
    OBVIOUS
  <2>2. QED
    BY <2>1, <1>2, <1>4, <1>5 DEF ss
<1>7. \A s \in Section : \A j \in DOMAIN p[s] : p[s][j] = ReadOf(it, p[s][j].fld)
  <2>1. SUFFICES ASSUME NEW s \in Section, NEW j \in DOMAIN p[s]
                 PROVE  p[s][j] = ReadOf(it, p[s][j].fld)
    OBVIOUS
  <2>2. \A h \in DOMAIN b[s] : b[s][h] = ReadOf(it, b[s][h].fld)
    BY DEF Exact
  <2>3. e = ReadOf(it, e.fld)
    BY <1>0 DEF e
  <2>4. CASE s \notin ss
    BY <2>2, <2>4, <1>1
  <2>5. CASE s \in ss
    <3>1. CASE j \in DOMAIN b[s]
      BY <2>2, <2>5, <3>1, <1>1
    <3>2. CASE j \notin DOMAIN b[s]
      BY <2>3, <2>5, <3>2, <1>1
    <3>3. QED
      BY <3>1, <3>2
  <2>6. QED
    BY <2>4, <2>5
<1>8. QED
  BY <1>3, <1>6, <1>7 DEF Exact, p, ss, e

Skipped(i) == "skip" \in VariantAttrs(Items[i])

ItemsBuilt == {built[i].item : i \in DOMAIN built}
BuiltSoFar == \A i : i \in ItemsBuilt <=> i \in 1..(item - 1) /\ ~Skipped(i)
BuiltAscends == \A i, j \in DOMAIN built : i < j => built[i].item < built[j].item

\* What an item has become is told by its declaration.
Takes(inp, it) == inp.kind = "struct" \/ it.shape = "tuple"
AsRead(inp, x) ==
  /\ x.item \in DOMAIN inp.items
  /\ "skip" \notin VariantAttrs(inp.items[x.item])
  /\ x.kind = KindOf(inp, inp.items[x.item], x.obj)
  /\ Takes(inp, inp.items[x.item]) =>
       Exact(x.obj, inp.items[x.item], Len(inp.items[x.item].fields))
  /\ ~Takes(inp, inp.items[x.item]) => x.obj = NoFields
BuiltAsRead == \A b \in DOMAIN built : AsRead(input, built[b])

\* NothingIsLost says the second of these only of the stage "item", nothing of
\* the start and nothing of what the entries are.
Kept ==
  /\ stage = "container" => item = 1 /\ built = <<>>
  /\ stage \in {"item", "fields"} => BuiltSoFar
  /\ stage \in {"emit", "children", "done"} =>
       \A i \in DOMAIN Items : i \in ItemsBuilt \/ Skipped(i)
  /\ stage = "fields" => /\ ~Skipped(item) /\ Takes(input, Items[item])
                         /\ Exact(bld, Items[item], fld - 1)
  /\ stage = "children" => built[item].kind \in {"Struct", "Tuple"}
  /\ BuiltAscends /\ BuiltAsRead

LEMMA KeptIsNothingLost ==
  ASSUME IInv, Kept
  PROVE  NothingIsLost
<1>1. stage = "fields" => Holds(bld, Items[item], fld - 1)
  <2>1. SUFFICES ASSUME stage = "fields" PROVE Holds(bld, Items[item], fld - 1)
    OBVIOUS
  <2>2. /\ Items[item] \in Item /\ fld - 1 \in Nat /\ fld - 1 <= Len(Items[item].fields)
        /\ Exact(bld, Items[item], fld - 1)
    BY <2>1, ItemTypes DEF IInv, TypeOK, Ranges, Kept, Size
  <2>3. QED
    BY <2>2, ExactHolds
<1>2. ASSUME NEW b \in DOMAIN built, Takes(input, Items[built[b].item])
      PROVE  Holds(built[b].obj, Items[built[b].item], Len(Items[built[b].item].fields))
  <2> DEFINE it == Items[built[b].item]
  <2>1. AsRead(input, built[b])
    BY DEF Kept, BuiltAsRead
  <2>2. it \in Item /\ Len(it.fields) \in Nat /\ Exact(built[b].obj, it, Len(it.fields))
    BY <1>2, <2>1, ItemTypes DEF IInv, AsRead, Items, Size
  <2> HIDE DEF it
  <2>3. QED
    BY <2>2, ExactHolds DEF it
<1>3. stage = "item" => {built[i].item : i \in DOMAIN built} =
        {i \in 1..(item - 1) : "skip" \notin VariantAttrs(Items[i])}
  BY DEF Kept, BuiltSoFar, ItemsBuilt, Skipped
<1>4. QED
  BY <1>1, <1>2, <1>3 DEF NothingIsLost, Kept, BuiltAscends, Takes

\* An item is built behind those before it.
LEMMA KeptAppend ==
  ASSUME IInv, Kept, stage \in {"item", "fields"}, item \in DOMAIN Items, ~Skipped(item),
         NEW kind \in ItemKind, NEW obj \in Object,
         AsRead(input, [item |-> item, kind |-> kind, obj |-> obj]),
         built' = Append(built, [item |-> item, kind |-> kind, obj |-> obj]),
         input' = input, item' = item + 1
  PROVE  BuiltSoFar' /\ BuiltAscends' /\ BuiltAsRead'
<1> DEFINE x == [item |-> item, kind |-> kind, obj |-> obj]
<1>1. built \in Seq(BuiltItem) /\ item \in Nat \ {0}
  BY DEF IInv, TypeOK, Ranges
<1>2. /\ x \in BuiltItem /\ x.item = item /\ built' = Append(built, x)
      /\ AsRead(input, x)
  BY <1>1 DEF BuiltItem
<1> HIDE DEF x
<1>3. /\ Len(built) \in Nat /\ DOMAIN built = 1..Len(built)
      /\ DOMAIN built' = 1..(Len(built) + 1)
      /\ \A i \in DOMAIN built : built'[i] = built[i]
      /\ built'[Len(built) + 1] = x
  <2>1. /\ Len(built) \in Nat /\ DOMAIN built = 1..Len(built)
        /\ built' \in Seq(BuiltItem) /\ Len(built') = Len(built) + 1
    BY <1>1, <1>2, AppendedTo
  <2>2. DOMAIN built' = 1..(Len(built) + 1)
    BY <2>1
  <2>3. QED
    BY <1>1, <1>2, <2>1, <2>2, AppendedTo
<1>4. \A i \in DOMAIN built' : i \in DOMAIN built \/ i = Len(built) + 1
  BY <1>3
<1>5. \A i : Skipped(i)' <=> Skipped(i)
  BY DEF Items, Skipped
<1>6. \A i : i \in ItemsBuilt <=> i \in 1..(item - 1) /\ ~Skipped(i)
  BY DEF Kept, BuiltSoFar
<1>7. ItemsBuilt' = ItemsBuilt \cup {item}
  <2>1. ItemsBuilt' = {built'[i].item : i \in DOMAIN built'}
    BY DEF ItemsBuilt
  <2>2. DOMAIN built' = DOMAIN built \cup {Len(built) + 1}
    BY <1>3
  <2>3. QED
    BY <2>1, <2>2, <1>2, <1>3 DEF ItemsBuilt
<1>8. BuiltSoFar'
  <2>1. BuiltSoFar' <=> \A i : i \in ItemsBuilt' <=> i \in 1..(item + 1 - 1) /\ ~Skipped(i)
    BY <1>1, <1>5 DEF BuiltSoFar
  <2>2. \A i : i \in 1..(item + 1 - 1) <=> i \in 1..(item - 1) \/ i = item
    BY <1>1
  <2>3. QED
    BY <2>1, <2>2, <1>6, <1>7
<1>9. BuiltAscends'
  <2>1. \A i \in DOMAIN built : built[i].item < item
    <3>1. \A i \in DOMAIN built : built[i].item \in 1..(item - 1)
      BY <1>6 DEF ItemsBuilt
    <3>2. QED
      BY <3>1, <1>1
  <2>2. SUFFICES ASSUME NEW i \in DOMAIN built', NEW j \in DOMAIN built', i < j
                 PROVE  built'[i].item < built'[j].item
    BY DEF BuiltAscends
  <2>3. i \in DOMAIN built
    BY <2>2, <1>3
  <2>4. CASE j \in DOMAIN built
    BY <2>2, <2>3, <2>4, <1>3 DEF Kept, BuiltAscends
  <2>5. CASE j = Len(built) + 1
    BY <2>1, <2>3, <2>5, <1>2, <1>3
  <2>6. QED
    BY <2>4, <2>5, <1>4
<1>10. BuiltAsRead'
  <2>1. \A b \in DOMAIN built' : AsRead(input, built'[b])
    BY <1>2, <1>3, <1>4 DEF Kept, BuiltAsRead
  <2>2. QED
    BY <2>1 DEF BuiltAsRead
<1>11. QED
  BY <1>8, <1>9, <1>10

LEMMA InitKept == Init => Kept
BY DEF Init, Kept, BuiltAscends, BuiltAsRead

\* Steps that build nothing.
LEMMA KeptElsewhere ==
  ASSUME Kept, UNCHANGED <<input, built>>,
         \/ stage' \in {"failed", "panic"}
         \/ /\ stage' \in {"emit", "done"}
            /\ stage \in {"emit", "children", "done"}
         \/ /\ stage' = "children" /\ stage \in {"emit", "children"}
            /\ built[item'].kind \in {"Struct", "Tuple"}
  PROVE  Kept'
<1>1. BuiltAscends' /\ BuiltAsRead' /\ ItemsBuilt' = ItemsBuilt /\ Items' = Items
  BY DEF Kept, BuiltAscends, BuiltAsRead, ItemsBuilt, Items
<1>2. \A i : Skipped(i)' <=> Skipped(i)
  BY DEF Skipped, Items
<1>3. QED
  BY <1>1, <1>2 DEF Kept

LEMMA UnwrapLeaves ==
  ASSUME EmitUnwrap
  PROVE  /\ UNCHANGED <<input, item, built>>
         /\ stage = "children" /\ stage' = "children"
<1> DEFINE f == Head(kids).fld
           at == Head(kids).wrap
           of == built[item].item
           d == Items[of].fields[f]
           e == EntryOf(d, at, f, FALSE, FALSE)
           obj == Push(NoFields, Goes(ModeAt(d, at)), e)
<1>1. /\ errors' = errors \cup ErrorsAt(DecodeErrors(d, at, FALSE), of, f)
      /\ kids' = Kids(obj) \o Tail(kids)
      /\ made' = made \cup {[entry |-> "unwrap", item |-> of, obj |-> obj, fields |-> {f}]}
      /\ UNCHANGED <<input, stage, item, fld, bld, built>>
      /\ stage = "children"
  BY Zenon DEF EmitUnwrap
<1> HIDE DEF f, at, of, d, e, obj
<1>2. QED
  BY <1>1

LEMMA AddFieldKept ==
  ASSUME IInv, Kept, AddField
  PROVE  Kept'
<1> DEFINE n == fld - 1
           it == Items[item]
<1>1. /\ it \in Item /\ n \in Nat /\ fld = n + 1 /\ n + 1 <= Len(it.fields)
      /\ bld \in Object /\ Within(bld, n)
  BY ItemTypes DEF IInv, TypeOK, Ranges, AddField, Fields, Size
<1>2. /\ bld' = Push(bld, Goes(ModeAt(it.fields[fld], 0)), ReadOf(it, fld))
      /\ fld' = fld + 1
      /\ UNCHANGED <<input, stage, item, built, kids, made>>
      /\ stage = "fields"
  BY DEF AddField, Fields, ReadOf
<1>3. ModesOf(it)[n + 1] = ModeAt(it.fields[fld], 0)
  BY <1>1, FieldTypes
<1>4. Exact(bld, it, n)
  BY <1>2 DEF Kept
<1> HIDE DEF it, n
<1>5. Exact(bld', it, n + 1)
  BY <1>1, <1>2, <1>3, <1>4, PushExact
<1>6. /\ BuiltAscends' /\ BuiltAsRead' /\ BuiltSoFar' /\ ~Skipped(item)'
      /\ Takes(input, Items[item])'
  BY <1>2 DEF Kept, BuiltAscends, BuiltAsRead, BuiltSoFar, ItemsBuilt, Skipped, Items
<1>7. Exact(bld, Items[item], fld - 1)'
  <2>1. fld' - 1 = n + 1 /\ Items' = Items /\ item' = item
    BY <1>1, <1>2 DEF Items
  <2>2. QED
    BY <2>1, <1>5 DEF it
<1>8. stage' = "fields"
  BY <1>2
<1>9. QED
  BY <1>6, <1>7, <1>8 DEF Kept

LEMMA StepKept ==
  ASSUME IInv, Kept, [Next]_vars
  PROVE  Kept'
<1>1. /\ item \in Nat \ {0} /\ fld \in Nat /\ bld \in Object
      /\ Items \in Seq(Item) /\ DOMAIN Items = 1..Len(Items) /\ Len(Items) \in Nat
  BY ItemTypes DEF IInv, TypeOK, Ranges
<1>2. CASE ReadContainer
  <2>1. item = 1 /\ built = <<>> /\ item' = item /\ built' = built /\ stage' = "item"
    BY <1>2 DEF ReadContainer, Kept
  <2>2. QED
    BY <2>1 DEF Kept, BuiltSoFar, ItemsBuilt, BuiltAscends, BuiltAsRead
<1>3. CASE SkipVariant
  <2>1. /\ Skipped(item) /\ BuiltSoFar /\ item' = item + 1 /\ stage' = "item"
        /\ UNCHANGED <<input, built>>
    BY <1>3 DEF SkipVariant, Skipped, Kept
  <2>2. BuiltAscends' /\ BuiltAsRead' /\ ItemsBuilt' = ItemsBuilt
        /\ \A i : Skipped(i)' <=> Skipped(i)
    BY <2>1 DEF Kept, BuiltAscends, BuiltAsRead, ItemsBuilt, Skipped, Items
  <2>3. BuiltSoFar'
    <3>1. \A i : i \in 1..(item + 1 - 1) <=> i \in 1..(item - 1) \/ i = item
      BY <1>1
    <3>2. BuiltSoFar' <=> \A i : i \in ItemsBuilt <=> i \in 1..(item + 1 - 1) /\ ~Skipped(i)
      BY <1>1, <2>1, <2>2 DEF BuiltSoFar
    <3>3. QED
      BY <3>1, <3>2, <2>1 DEF BuiltSoFar
  <2>4. QED
    BY <2>1, <2>2, <2>3 DEF Kept
<1>4. CASE ReadPlainVariant
  <2> DEFINE x == [item |-> item, kind |-> KindOf(input, Items[item], NoFields), obj |-> NoFields]
  <2>1. /\ item \in DOMAIN Items /\ ~Skipped(item) /\ ~Takes(input, Items[item])
        /\ stage = "item" /\ stage' = "item"
    BY <1>1, <1>4 DEF ReadPlainVariant, Skipped, Takes
  <2>2. AsRead(input, x)
    BY <2>1 DEF AsRead, Skipped, Items
  <2>3. BuiltSoFar' /\ BuiltAscends' /\ BuiltAsRead'
    BY <2>1, <2>2, <1>4, KeptAppend, KindType, NoFieldsType DEF ReadPlainVariant
  <2>4. QED
    BY <2>1, <2>3 DEF Kept
<1>5. CASE BeginFields
  <2>1. /\ ~Skipped(item) /\ BuiltSoFar /\ stage' = "fields" /\ fld' = 1 /\ bld' = NoFields
        /\ Takes(input, Items[item])
        /\ UNCHANGED <<input, item, built>>
    BY <1>5 DEF BeginFields, Skipped, Kept, Takes
  <2>2. /\ BuiltAscends' /\ BuiltAsRead' /\ BuiltSoFar' /\ ~Skipped(item)'
        /\ Takes(input, Items[item])'
    BY <2>1 DEF Kept, BuiltAscends, BuiltAsRead, BuiltSoFar, ItemsBuilt, Skipped, Items
  <2>3. Exact(bld, Items[item], fld - 1)'
    BY <2>1, NoFieldsExact
  <2>4. QED
    BY <2>1, <2>2, <2>3 DEF Kept
<1>6. CASE AddField
  BY <1>6, AddFieldKept
<1>7. CASE RefuseField
  BY <1>7, KeptElsewhere DEF RefuseField
<1>8. CASE EndFields
  <2> DEFINE x == [item |-> item, kind |-> KindOf(input, Items[item], bld), obj |-> bld]
  <2>1. /\ item \in DOMAIN Items /\ ~Skipped(item) /\ fld - 1 <= Size(item)
        /\ Exact(bld, Items[item], fld - 1) /\ stage = "fields" /\ stage' = "item"
        /\ Size(item) \in Nat /\ fld > Size(item) /\ Takes(input, Items[item])
    BY <1>8, ItemTypes DEF EndFields, IInv, Ranges, Kept, Fields, Size
  <2>2. Exact(bld, Items[item], Size(item))
    <3>1. fld - 1 = Size(item)
      BY <2>1, <1>1
    <3>2. QED
      BY <3>1, <2>1
  <2>3. AsRead(input, x)
    BY <2>1, <2>2 DEF AsRead, Skipped, Items, Size
  <2>4. BuiltSoFar' /\ BuiltAscends' /\ BuiltAsRead'
    BY <2>1, <2>3, <1>1, <1>8, KeptAppend, KindType DEF EndFields
  <2>5. QED
    BY <2>1, <2>4 DEF Kept
<1>9. CASE EndItems
  <2>1. /\ item > Len(Items) /\ stage' = "emit" /\ UNCHANGED <<input, built>> /\ BuiltSoFar
    BY <1>9 DEF EndItems, Kept
  <2>2. \A i \in DOMAIN Items : i \in 1..(item - 1)
    BY <1>1, <2>1
  <2>3. \A i \in DOMAIN Items : i \in ItemsBuilt \/ Skipped(i)
    BY <2>1, <2>2 DEF BuiltSoFar
  <2>4. BuiltAscends' /\ BuiltAsRead' /\ ItemsBuilt' = ItemsBuilt /\ Items' = Items
    BY <2>1 DEF Kept, BuiltAscends, BuiltAsRead, ItemsBuilt, Items
  <2>5. \A i : Skipped(i)' <=> Skipped(i)
    BY <2>1 DEF Skipped, Items
  <2>6. QED
    BY <2>1, <2>3, <2>4, <2>5 DEF Kept
<1>10. CASE EmitNamedVariant \/ EmitPlain \/ BeginDecoder
  BY <1>10, KeptElsewhere DEF EmitNamedVariant, EmitPlain, BeginDecoder
<1>11. CASE EmitArm
  BY <1>11, KeptElsewhere DEF EmitArm, Kept
<1>12. CASE EmitUnwrap
  BY <1>12, UnwrapLeaves, KeptElsewhere DEF Kept
<1>13. CASE EmitDecoder \/ AssertionFails \/ EndEmission
  BY <1>13, KeptElsewhere DEF EmitDecoder, AssertionFails, EndEmission
<1>14. CASE UNCHANGED vars
  BY <1>14 DEF Kept, BuiltSoFar, ItemsBuilt, BuiltAscends, BuiltAsRead, Skipped, Items, vars
<1>15. QED
  BY <1>2, <1>3, <1>4, <1>5, <1>6, <1>7, <1>8, <1>9, <1>10, <1>11, <1>12, <1>13, <1>14
     DEF Next

\* However the fields are spread over the attributes, each is kept once for
\* every part of the node it takes, in the order of the declarations, and the
\* variants that are not skipped follow one another as declared.
THEOREM NoFieldIsLost == Spec => []NothingIsLost
<1>1. Init => IInv /\ Kept
  BY InitIInv, InitKept
<1>2. IInv /\ Kept /\ [Next]_vars => (IInv /\ Kept)'
  BY StepIInv, StepKept
<1>3. IInv /\ Kept => NothingIsLost
  BY KeptIsNothingLost
<1>4. QED
  BY <1>1, <1>2, <1>3, PTL DEF Spec
----------------------------------------------------------------------------
\* The rules and the gaps once more, in terms of what the derive reads.  For
\* declarations that it reads without an error this is what is written.

ReadModes(d) == [k \in 0..Len(d.attrs) |-> ModeAt(d, k)]
CountsAsRead(d) == Reached(d, ReadModes(d))

LegalDeclAsRead(d, named) ==
  /\ \A j \in DOMAIN d.attrs :
       /\ Parses(d.attrs[j]) /\ d.attrs[j].kind # "skip"
       /\ \A h \in DOMAIN d.attrs :
            (d.attrs[h].in = d.attrs[j].in /\ d.attrs[h].kind = d.attrs[j].kind) => h = j
  /\ \A k \in CountsAsRead(d) :
       OfKind(d, k, "decode") # {} =>
         ModeAt(d, k).m \in {"none", "argument", "arguments", "property", "properties"}
  /\ LET mode == ModeAt(d, 0)
     IN /\ mode.m = "child" => named
        /\ mode.m = "property" => named \/ mode.name
        /\ mode.m = "flatten" => d.ty # "Option"

LegalOrderAsRead(it) ==
  LET modes == ModesOf(it)
  IN \A f, g \in DOMAIN it.fields :
       f < g /\ CatchesAll(modes[f]) => Feeds(modes[f]) \cap Feeds(modes[g]) = {}

LegalTupleAsRead(it) ==
  LET modes == ModesOf(it)
      filled == {f \in DOMAIN it.fields : ~Unfilled(modes[f])}
  IN \/ it.shape # "tuple"
     \/ /\ \A f \in filled : ~FilledTwice(modes[f])
        /\ filled = 1..Cardinality(filled)
     \/ \E f \in filled : filled = {f} /\ modes[f].m = "none"

LegalItemAsRead(inp, it) ==
  \/ "skip" \in VariantAttrs(it) /\ VariantErrors(it) = {}
  \/ /\ VariantErrors(it) = {}
     /\ inp.kind = "enum" => it.shape # "named"
     /\ \A f \in DOMAIN it.fields : LegalDeclAsRead(it.fields[f], it.shape = "named")
     /\ LegalOrderAsRead(it) /\ LegalTupleAsRead(it)

LegalAsRead(inp) == ~inp.attrs /\ \A i \in DOMAIN inp.items : LegalItemAsRead(inp, inp.items[i])

OptionalAsRead(d) ==
  LET mode == ModeAt(d, 0)
  IN \/ mode.m \in {"none", "flatten"}
     \/ d.ty = "Option" /\ mode.m \in {"property", "child"}
     \/ d.ty = "Option" /\ mode.m = "children" /\ mode.name
     \/ mode.m = "child" /\ d.ty = "bool" /\ Latest(d, 0, "unwrap") = 0

GapAsRead(inp, it) ==
  \/ \E f \in DOMAIN it.fields :
       \/ Unfilled(ModesOf(it)[f]) \/ FilledTwice(ModesOf(it)[f])
       \/ inp.kind = "enum" /\ ModesOf(it)[f].m \in Special
       \/ \E k \in CountsAsRead(it.fields[f]) \ {0} :
            LET mode == ModeAt(it.fields[f], k)
            IN mode.m \in Special \cup {"none"} \/ Unfilled(mode) \/ FilledTwice(mode)
  \/ /\ inp.kind = "struct"
     /\ \A f \in DOMAIN it.fields : OptionalAsRead(it.fields[f])
     /\ \E f \in DOMAIN it.fields : ModesOf(it)[f].m = "children"

\* An unwrap that stands in a child or in children.
Above(d, k) == /\ d.attrs[k].kind = "unwrap" /\ d.attrs[k].in < k
               /\ ModeAt(d, d.attrs[k].in).m \in {"child", "children"}

\* CountsAsRead is what its recursive function says.  (The function exists up to the
\* first position, and from each position up to the next.)
LEMMA CountsUnfold ==
  ASSUME NEW d \in Decl
  PROVE  /\ CountsAsRead(d) \subseteq 0..Len(d.attrs)
         /\ \A k \in 0..Len(d.attrs) :
              k \in CountsAsRead(d) <=> k = 0 \/ (Above(d, k) /\ d.attrs[k].in \in CountsAsRead(d))
<1> DEFINE n == Len(d.attrs)
           modes == ReadModes(d)
           Solves(g, m) == g = [k \in 0..m |-> \/ k = 0
                                               \/ /\ d.attrs[k].kind = "unwrap" /\ d.attrs[k].in < k
                                                  /\ g[d.attrs[k].in]
                                                  /\ modes[d.attrs[k].in].m \in {"child", "children"}]
           Right(g, k) == \/ k = 0
                          \/ /\ d.attrs[k].kind = "unwrap" /\ d.attrs[k].in < k
                             /\ g[d.attrs[k].in]
                             /\ modes[d.attrs[k].in].m \in {"child", "children"}
           yes == CHOOSE g : Solves(g, n)
<1>1. /\ n \in Nat /\ d.attrs \in Seq(Attr)
      /\ \A k \in 1..n : d.attrs[k].in \in Nat
  <2>1. d.attrs \in Seq(Attr)
    BY DEF Decl
  <2>2. n \in Nat /\ \A k \in 1..n : d.attrs[k] \in Attr
    BY <2>1
  <2>3. QED
    BY <2>1, <2>2 DEF Attr
<1>2. \A m, g : Solves(g, m) <=> g = [k \in 0..m |-> Right(g, k)]
  OBVIOUS
<1>3. \E g : Solves(g, n)
  <2> DEFINE Open == {m \in 0..n : ~\E g : Solves(g, m)}
  <2>1. SUFFICES ASSUME Open # {} PROVE FALSE
    <3>1. n \in 0..n
      BY <1>1
    <3> HIDE DEF Solves, n
    <3>2. QED
      BY <3>1
  <2>2. PICK m \in Open : \A y \in Open : ~(y < m)
    <3> HIDE DEF Solves
    <3>1. Open \subseteq Nat
      BY <1>1
    <3> HIDE DEF Open
    <3>2. QED
      BY <2>1, <3>1, LeastOf
  <2>3. m \in Nat /\ m <= n
    BY <2>2, <1>1
  <2>4. CASE m = 0
    <3> DEFINE g == [k \in 0..0 |-> TRUE]
    <3>1. g = [k \in 0..0 |-> Right(g, k)]
      <4>1. \A k \in 0..0 : Right(g, k) = TRUE
        OBVIOUS
      <4> HIDE DEF Right
      <4>2. QED
        BY <4>1
    <3> HIDE DEF g, Right, Solves
    <3>2. Solves(g, 0)
      BY <3>1, <1>2
    <3>3. QED
      BY <3>2, <2>2, <2>4
  <2>5. CASE m # 0
    <3>1. m - 1 \in 0..n /\ m - 1 < m
      BY <2>3, <2>5, <1>1
    <3>2. PICK h : Solves(h, m - 1)
      <4> HIDE DEF Solves
      <4>1. QED
        BY <3>1, <2>2
    <3> DEFINE g == [k \in 0..m |-> Right(h, k)]
    <3>3. h = [k \in 0..(m - 1) |-> Right(h, k)]
      <4> HIDE DEF Solves, Right
      <4>1. QED
        BY <3>2, <1>2
    <3>4. \A k \in 0..(m - 1) : g[k] = h[k]
      <4>1. \A k \in 0..(m - 1) : k \in 0..m
        BY <2>3
      <4> HIDE DEF Right
      <4>2. QED
        BY <4>1, <3>3
    <3>5. \A k \in 0..m : Right(g, k) = Right(h, k)
      <4>1. ASSUME NEW k \in 0..m PROVE Right(g, k) = Right(h, k)
        <5>1. k # 0 /\ d.attrs[k].in < k => d.attrs[k].in \in 0..(m - 1)
          BY <2>3, <1>1
        <5> HIDE DEF g
        <5>2. k # 0 /\ d.attrs[k].in < k => g[d.attrs[k].in] = h[d.attrs[k].in]
          BY <5>1, <3>4
        <5>3. QED
          BY <5>2
      <4> HIDE DEF g, Right
      <4>2. QED
        BY <4>1
    <3>6. g = [k \in 0..m |-> Right(g, k)]
      <4>1. g = [k \in 0..m |-> Right(h, k)]
        OBVIOUS
      <4> HIDE DEF g, Right
      <4>2. QED
        BY <4>1, <3>5
    <3>7. Solves(g, m)
      <4> HIDE DEF g, Right, Solves
      <4>1. QED
        BY <3>6, <1>2
    <3> HIDE DEF g, Solves
    <3>8. QED
      BY <3>7, <2>2
  <2>6. QED
    BY <2>4, <2>5
<1>4. Solves(yes, n)
  BY <1>3
<1>5. CountsAsRead(d) = {k \in 0..n : yes[k]}
  BY DEF CountsAsRead, Reached
<1> HIDE DEF yes
<1>6. yes = [k \in 0..n |-> Right(yes, k)]
  <2> HIDE DEF Solves, Right
  <2>1. QED
    BY <1>4, <1>2
<1>7. \A k \in 0..n : yes[k] <=> Right(yes, k)
  <2> HIDE DEF Right
  <2>1. QED
    BY <1>6
<1>8. ASSUME NEW k \in 0..n
      PROVE  k \in CountsAsRead(d) <=> k = 0 \/ (Above(d, k) /\ d.attrs[k].in \in CountsAsRead(d))
  <2>1. k # 0 /\ Above(d, k) => d.attrs[k].in \in 0..n
    BY <1>1 DEF Above
  <2>2. k # 0 /\ d.attrs[k].in < k =>
          /\ d.attrs[k].in \in 0..n
          /\ modes[d.attrs[k].in] = ModeAt(d, d.attrs[k].in)
    BY <1>1 DEF ReadModes
  <2> HIDE DEF modes
  <2>3. QED
    BY <2>1, <2>2, <1>5, <1>7 DEF Above
<1>9. QED
  BY <1>5, <1>8
----------------------------------------------------------------------------
\* What the rules say of a field

\* Its attributes can be read, and none is repeated.
Proper(d) ==
  \A j \in DOMAIN d.attrs :
    /\ Parses(d.attrs[j]) /\ d.attrs[j].kind # "skip"
    /\ \A h \in DOMAIN d.attrs :
         (d.attrs[h].in = d.attrs[j].in /\ d.attrs[h].kind = d.attrs[j].kind) => h = j

LEMMA AttrTypes ==
  ASSUME NEW d \in Decl
  PROVE  /\ Len(d.attrs) \in Nat /\ DOMAIN d.attrs = 1..Len(d.attrs)
         /\ \A j \in DOMAIN d.attrs : j \in Nat /\ d.attrs[j] \in Attr /\ d.attrs[j].in \in Nat
<1>1. d.attrs \in Seq(Attr)
  BY DEF Decl
<1>2. \A j \in DOMAIN d.attrs : d.attrs[j] \in Attr
  BY <1>1
<1>3. QED
  BY <1>1, <1>2 DEF Attr

LEMMA AllReadable ==
  ASSUME NEW d, NEW j \in DOMAIN d.attrs
  PROVE  Proper(d) => Readable(d, j)
BY DEF Proper, Readable

LEMMA NoReadErrors ==
  ASSUME NEW d \in Decl
  PROVE  ReadErrors(d) = {} <=> Proper(d)
<1> DEFINE a == d.attrs
           D == DOMAIN d.attrs
           Unreadable == \E j \in D : ~Readable(d, j)
           Unsupported == \E j \in D : j \in OfKind(d, a[j].in, "skip")
           Repeated == \E j \in D : /\ a[j].kind # "skip"
                                    /\ \E h \in OfKind(d, a[j].in, a[j].kind) :
                                         h < j /\ Readable(d, j)
<1>1. ReadErrors(d) = {} <=> ~Unreadable /\ ~Unsupported /\ ~Repeated
  <2>1. "unreadable" \in ReadErrors(d) <=> Unreadable
    BY DEF ReadErrors
  <2>2. "unsupported" \in ReadErrors(d) <=> Unsupported
    BY DEF ReadErrors
  <2>3. "repeated" \in ReadErrors(d) <=> Repeated
    BY DEF ReadErrors
  <2>4. ReadErrors(d) \subseteq {"unreadable", "repeated", "unsupported"}
    BY DEF ReadErrors
  <2> HIDE DEF Unreadable, Unsupported, Repeated
  <2>5. QED
    BY <2>1, <2>2, <2>3, <2>4
<1>2. ASSUME Proper(d) PROVE ~Unreadable /\ ~Unsupported /\ ~Repeated
  <2>1. ~Unreadable
    BY <1>2, AllReadable
  <2>2. ~Unsupported
    BY <1>2 DEF Proper, OfKind
  <2>3. ~Repeated
    <3>1. SUFFICES ASSUME NEW j \in D, NEW h \in OfKind(d, a[j].in, a[j].kind), h < j
                   PROVE  FALSE
      OBVIOUS
    <3>2. h \in D /\ a[h].in = a[j].in /\ a[h].kind = a[j].kind
      BY <3>1 DEF OfKind
    <3>3. h = j /\ j \in Nat
      BY <3>2, <1>2, AttrTypes DEF Proper
    <3>4. QED
      BY <3>1, <3>3
  <2>4. QED
    BY <2>1, <2>2, <2>3
<1>3. ASSUME ~Unreadable, ~Unsupported, ~Repeated PROVE Proper(d)
  <2>1. SUFFICES ASSUME NEW j \in D
                 PROVE  /\ Parses(a[j]) /\ a[j].kind # "skip"
                        /\ \A h \in D : (a[h].in = a[j].in /\ a[h].kind = a[j].kind) => h = j
    BY DEF Proper
  <2>2. \A h \in D : Readable(d, h)
    BY <1>3
  <2>3. Parses(a[j])
    BY <2>2 DEF Readable
  <2>4. a[j].kind # "skip"
    BY <2>2, <1>3 DEF OfKind
  <2>5. ASSUME NEW h \in D, a[h].in = a[j].in, a[h].kind = a[j].kind, h # j
        PROVE  FALSE
    <3>1. h \in Nat /\ j \in Nat
      BY AttrTypes
    <3>2. h \in OfKind(d, a[j].in, a[j].kind) /\ j \in OfKind(d, a[h].in, a[h].kind)
      BY <2>2, <2>5 DEF OfKind
    <3>3. h < j \/ j < h
      BY <3>1, <2>5
    <3>4. a[h].kind # "skip"
      BY <2>4, <2>5
    <3>5. QED
      BY <3>2, <3>3, <3>4, <2>2, <2>4, <1>3
  <2>6. QED
    BY <2>3, <2>4, <2>5
<1>4. QED
  BY <1>1, <1>2, <1>3

\* A mode keeps decode out, or no_decode does.
LEMMA UndecodedMeans ==
  ASSUME NEW mode \in Mode
  PROVE  Undecoded(mode) <=>
           mode.m \notin {"none", "argument", "arguments", "property", "properties"}
BY DEF Undecoded, Mode

\* What is found of a field while it is read, and what is left to its unwraps.
FieldOk(it, f) ==
  LET d == it.fields[f]
  IN /\ ReadErrors(d) = {} /\ DecodeErrors(d, 0, d.ty = "Option") = {}
     /\ ~Nameless(ModeAt(d, 0), it.shape = "named")
     /\ ~(ModeAt(d, 0).m = "flatten" /\ d.ty = "Option")
UnwrapsOk(d) == \A k \in CountsAsRead(d) \ {0} : DecodeErrors(d, k, FALSE) = {}

LEMMA NoDecodeErrors ==
  ASSUME NEW d \in Decl, NEW k, NEW option \in BOOLEAN, ~(ModeAt(d, k).m = "flatten" /\ option)
  PROVE  DecodeErrors(d, k, option) = {} <=>
           (OfKind(d, k, "decode") # {} =>
              ModeAt(d, k).m \in {"none", "argument", "arguments", "property", "properties"})
<1>1. ModeAt(d, k) \in Mode
  BY ModeType
<1>2. DecodeErrors(d, k, option) = {} <=>
        ~(OfKind(d, k, "decode") # {} /\ Undecoded(ModeAt(d, k)))
  <2>1. "decode" \in DecodeErrors(d, k, option) <=>
          OfKind(d, k, "decode") # {} /\ Undecoded(ModeAt(d, k))
    BY DEF DecodeErrors
  <2>2. DecodeErrors(d, k, option) \subseteq {"decode"}
    BY DEF DecodeErrors
  <2>3. QED
    BY <2>1, <2>2
<1>3. QED
  BY <1>1, <1>2, UndecodedMeans

\* LegalDeclAsRead is what is found of it.
LEMMA LegalIsOk ==
  ASSUME NEW it \in Item, NEW f \in DOMAIN it.fields
  PROVE  LegalDeclAsRead(it.fields[f], it.shape = "named") <=> FieldOk(it, f) /\ UnwrapsOk(it.fields[f])
<1> DEFINE d == it.fields[f]
           named == it.shape = "named"
           option == d.ty = "Option"
           Tame(k) == OfKind(d, k, "decode") # {} =>
             ModeAt(d, k).m \in {"none", "argument", "arguments", "property", "properties"}
<1>1. d \in Decl /\ named \in BOOLEAN /\ option \in BOOLEAN
  BY FieldTypes
<1>2. LegalDeclAsRead(d, named) <=>
        /\ Proper(d)
        /\ \A k \in CountsAsRead(d) : Tame(k)
        /\ ModeAt(d, 0).m = "child" => named
        /\ ModeAt(d, 0).m = "property" => named \/ ModeAt(d, 0).name
        /\ ModeAt(d, 0).m = "flatten" => ~option
  BY DEF LegalDeclAsRead, Proper
<1>3. 0 \in CountsAsRead(d)
  <2>1. 0 \in 0..Len(d.attrs)
    BY <1>1, AttrTypes
  <2>2. QED
    BY <2>1, <1>1, CountsUnfold
<1> DEFINE Rest == \A k \in CountsAsRead(d) \ {0} : Tame(k)
<1>4. (\A k \in CountsAsRead(d) : Tame(k)) <=> Tame(0) /\ Rest
  <2> HIDE DEF Tame
  <2>1. QED
    BY <1>3
<1>5. UnwrapsOk(d) <=> Rest
  <2>1. \A k : DecodeErrors(d, k, FALSE) = {} <=> Tame(k)
    BY <1>1, NoDecodeErrors
  <2> HIDE DEF Tame
  <2>2. QED
    BY <2>1 DEF UnwrapsOk
<1>6. ~(ModeAt(d, 0).m = "flatten" /\ option) =>
        (DecodeErrors(d, 0, option) = {} <=> Tame(0))
  BY <1>1, NoDecodeErrors
<1>7. ReadErrors(d) = {} <=> Proper(d)
  BY <1>1, NoReadErrors
<1>8. ~Nameless(ModeAt(d, 0), named) <=>
        /\ ModeAt(d, 0).m = "child" => named
        /\ ModeAt(d, 0).m = "property" => named \/ ModeAt(d, 0).name
  BY DEF Nameless
<1>9. FieldOk(it, f) <=> /\ ReadErrors(d) = {} /\ DecodeErrors(d, 0, option) = {}
                         /\ ~Nameless(ModeAt(d, 0), named)
                         /\ ~(ModeAt(d, 0).m = "flatten" /\ option)
  BY DEF FieldOk
<1> HIDE DEF d, named, option, Tame, Rest
<1>10. LegalDeclAsRead(d, named) <=> FieldOk(it, f) /\ UnwrapsOk(d)
  BY <1>2, <1>4, <1>5, <1>6, <1>7, <1>8, <1>9
<1>11. QED
  BY <1>10 DEF d, named

----------------------------------------------------------------------------
\* Unwraps inside unwraps

\* The unwrap that unwrap_fn is called for at level k, or 0.
Child(d, k) ==
  IF ModeAt(d, k).m \in {"child", "children"} THEN Latest(d, k, "unwrap") ELSE 0

\* The levels that are reached from level w: the least set that holds w and,
\* with a level, its child.
Under(d, w) ==
  {k \in 1..Len(d.attrs) : \A S \in SUBSET (1..Len(d.attrs)) :
     w \in S /\ (\A h \in S : Child(d, h) # 0 => Child(d, h) \in S) => k \in S}

LEMMA LatestIsOne ==
  ASSUME NEW d \in Decl, NEW k, NEW kind, OfKind(d, k, kind) # {}
  PROVE  Latest(d, k, kind) \in OfKind(d, k, kind)
<1>1. OfKind(d, k, kind) \in SUBSET (1..Len(d.attrs)) /\ Len(d.attrs) \in Nat
  BY AttrTypes DEF OfKind
<1>2. QED
  BY <1>1, MaxIsMember DEF Latest

LEMMA ChildIs ==
  ASSUME NEW d \in Decl, NEW k, Child(d, k) # 0
  PROVE  /\ Child(d, k) \in OfKind(d, k, "unwrap") /\ Child(d, k) \in 1..Len(d.attrs)
         /\ d.attrs[Child(d, k)].kind = "unwrap" /\ d.attrs[Child(d, k)].in = k
         /\ ModeAt(d, k).m \in {"child", "children"}
<1>1. Child(d, k) = Latest(d, k, "unwrap") /\ ModeAt(d, k).m \in {"child", "children"}
  BY DEF Child
<1>2. OfKind(d, k, "unwrap") # {}
  BY <1>1 DEF Latest
<1>3. QED
  BY <1>1, <1>2, LatestIsOne, AttrTypes DEF OfKind

\* What is emitted for counts.
LEMMA ChildCounts ==
  ASSUME NEW d \in Decl, WellFormedDecl(d), NEW k \in CountsAsRead(d), Child(d, k) # 0
  PROVE  Child(d, k) \in CountsAsRead(d)
<1> DEFINE w == Child(d, k)
<1>1. /\ w \in 1..Len(d.attrs) /\ d.attrs[w].kind = "unwrap" /\ d.attrs[w].in = k
      /\ ModeAt(d, k).m \in {"child", "children"} /\ Len(d.attrs) \in Nat
      /\ DOMAIN d.attrs = 1..Len(d.attrs)
  BY ChildIs, AttrTypes
<1> HIDE DEF w
<1>2. k < w
  <2>1. k # 0 => k < w
    BY <1>1 DEF WellFormedDecl
  <2>2. QED
    BY <2>1, <1>1
<1>3. Above(d, w) /\ w \in 0..Len(d.attrs) /\ d.attrs[w].in \in CountsAsRead(d)
  BY <1>1, <1>2 DEF Above
<1>4. w \in CountsAsRead(d)
  BY <1>3, CountsUnfold
<1>5. QED
  BY <1>4 DEF w

\* Where nothing is repeated, the unwrap that counts is the one that is emitted.
LEMMA AboveIsChild ==
  ASSUME NEW d \in Decl, Proper(d), NEW k \in 1..Len(d.attrs), Above(d, k)
  PROVE  Child(d, d.attrs[k].in) = k
<1> DEFINE i == d.attrs[k].in
<1>1. k \in DOMAIN d.attrs /\ DOMAIN d.attrs = 1..Len(d.attrs)
  BY AttrTypes
<1>2. k \in OfKind(d, i, "unwrap")
  BY <1>1, AllReadable DEF Above, OfKind
<1>3. Latest(d, i, "unwrap") \in OfKind(d, i, "unwrap")
  BY <1>2, LatestIsOne
<1>4. Latest(d, i, "unwrap") = k
  BY <1>1, <1>2, <1>3 DEF OfKind, Proper
<1>5. QED
  BY <1>4 DEF Above, Child

LEMMA UnderSelf ==
  ASSUME NEW d, NEW w \in 1..Len(d.attrs)
  PROVE  w \in Under(d, w)
BY DEF Under

LEMMA UnderClosed ==
  ASSUME NEW d \in Decl, NEW w, NEW h \in Under(d, w), Child(d, h) # 0
  PROVE  Child(d, h) \in Under(d, w)
<1>1. Child(d, h) \in 1..Len(d.attrs)
  BY ChildIs
<1>2. QED
  BY <1>1 DEF Under

\* Emitting one level leaves those that its child reaches.
LEMMA UnderStep ==
  ASSUME NEW d \in Decl, NEW w \in 1..Len(d.attrs), NEW k \in Under(d, w), k # w
  PROVE  Child(d, w) # 0 /\ k \in Under(d, Child(d, w))
<1> DEFINE c == Child(d, w)
           S == {w} \cup {h \in Under(d, c) : c # 0}
<1>1. S \in SUBSET (1..Len(d.attrs)) /\ w \in S
  BY DEF Under
<1>2. \A h \in S : Child(d, h) # 0 => Child(d, h) \in S
  <2>1. c # 0 => c \in 1..Len(d.attrs)
    BY ChildIs
  <2>2. c # 0 => c \in Under(d, c)
    BY <2>1, UnderSelf
  <2>3. \A h \in Under(d, c) : Child(d, h) # 0 => Child(d, h) \in Under(d, c)
    BY UnderClosed
  <2> HIDE DEF c
  <2>4. Child(d, w) = c
    BY DEF c
  <2>5. QED
    BY <2>2, <2>3, <2>4
<1>3. k \in S
  <2> HIDE DEF S
  <2>1. QED
    BY <1>1, <1>2 DEF Under
<1>4. QED
  BY <1>3

\* Every level that counts is reached from the field's own.
LEMMA CountsUnder ==
  ASSUME NEW d \in Decl, Proper(d), NEW k \in CountsAsRead(d), k # 0
  PROVE  Child(d, 0) # 0 /\ k \in Under(d, Child(d, 0))
<1> DEFINE c == Child(d, 0)
           Arrived(h) == h = 0 \/ (c # 0 /\ h \in Under(d, c))
           Missed == {h \in CountsAsRead(d) : ~Arrived(h)}
<1>1. CountsAsRead(d) \subseteq 0..Len(d.attrs) /\ Len(d.attrs) \in Nat
      /\ DOMAIN d.attrs = 1..Len(d.attrs)
  BY CountsUnfold, AttrTypes
<1>2. SUFFICES ASSUME Missed # {} PROVE FALSE
  OBVIOUS
<1>3. PICK h \in Missed : \A g \in Missed : ~(g < h)
  <2>1. Missed \in SUBSET Nat
    BY <1>1
  <2> HIDE DEF Missed
  <2>2. QED
    BY <2>1, <1>2, LeastOf
<1>4. h \in CountsAsRead(d) /\ h # 0 /\ h \in 1..Len(d.attrs)
  BY <1>1, <1>3
<1>5. Above(d, h) /\ d.attrs[h].in \in CountsAsRead(d) /\ d.attrs[h].in < h
  <2>1. h \in 0..Len(d.attrs)
    BY <1>1, <1>4
  <2>2. QED
    BY <2>1, <1>4, CountsUnfold DEF Above
<1>6. Arrived(d.attrs[h].in)
  BY <1>3, <1>5
<1>7. Child(d, d.attrs[h].in) = h
  BY <1>4, <1>5, AboveIsChild
<1>8. CASE d.attrs[h].in = 0
  <2>1. c = h /\ h \in Under(d, h)
    BY <1>4, <1>7, <1>8, UnderSelf
  <2>2. QED
    BY <2>1, <1>3, <1>4
<1>9. CASE d.attrs[h].in # 0
  <2>1. c # 0 /\ d.attrs[h].in \in Under(d, c)
    BY <1>6, <1>9
  <2>2. h \in Under(d, c)
    BY <2>1, <1>4, <1>7, UnderClosed
  <2>3. QED
    BY <2>1, <2>2, <1>3
<1>10. QED
  BY <1>8, <1>9

----------------------------------------------------------------------------
\* What the rules say of the order

LEMMA ClosesItsPart ==
  ASSUME NEW c \in CatchAll, NEW s \in Section
  PROVE  Closes(c, s) <=> Part(c) = Part(s)
<1>1. \A t \in {"span", "node_name", "type_name"} : Part(t) = t
  BY DEF Part
<1>2. /\ Part("argument") = "argument" /\ Part("arguments") = "argument"
      /\ Part("property") = "property" /\ Part("properties") = "property"
      /\ Part("child") = "child" /\ Part("children") = "child" /\ Part("extra") = "none"
  BY DEF Part
<1>3. QED
  BY <1>1, <1>2 DEF Closes, CatchAll, Section

\* A catch-all field takes what its section takes, and nothing else.
LEMMA CatchAllFeeds ==
  ASSUME NEW mode \in Mode, mode.of \subseteq {"child", "property"},
         NEW c \in CatchAll, c \in Goes(mode)
  PROVE  CatchesAll(mode) /\ Feeds(mode) = {Part(c)}
<1>1. Fits(mode, Goes(mode)) /\ Goes(mode) = {c}
  BY GoesWhereItFits, GoesAlone
<1>2. {Part(s) : s \in {c}} = {Part(c)}
  OBVIOUS
<1>3. QED
  BY <1>1, <1>2 DEF Fits

\* A field that add_field finds closed out breaks the order.
LEMMA ClosedIsOutOfOrder ==
  ASSUME NEW it \in Item, NEW obj \in Object, NEW n \in Nat, n + 1 <= Len(it.fields),
         Exact(obj, it, n), Within(obj, n), Closed(obj, ModesOf(it)[n + 1])
  PROVE  ~LegalOrderAsRead(it)
<1> DEFINE m == ModesOf(it)[n + 1]
<1>1. n + 1 \in 1..Len(it.fields) /\ DOMAIN it.fields = 1..Len(it.fields)
  BY FieldTypes
<1>2. m \in Mode /\ m.of \subseteq {"child", "property"}
  BY <1>1, FieldTypes
<1>3. PICK s \in Goes(m), c \in CatchAll : Closes(c, s) /\ obj[c] # <<>>
  BY DEF Closed
<1>4. s \in Section /\ c \in Section /\ Part(s) \in Feeds(m)
  BY <1>2, GoesWhereItFits DEF Fits, CatchAll, Section
<1> DEFINE f == obj[c][1].fld
<1>5. f \in 1..n /\ c \in Holders(obj, f)
  <2>1. obj[c] \in Seq(Entry)
    BY <1>4 DEF Object
  <2>2. 1 \in DOMAIN obj[c]
    BY <2>1, <1>3
  <2>3. QED
    BY <2>2, <1>4 DEF Within, Holders
<1>6. f \in 1..Len(it.fields) /\ f < n + 1
  BY <1>1, <1>5
<1> HIDE DEF f
<1>7. c \in Goes(ModesOf(it)[f])
  BY <1>5 DEF Exact
<1>8. CatchesAll(ModesOf(it)[f]) /\ Feeds(ModesOf(it)[f]) = {Part(c)}
  BY <1>6, <1>7, FieldTypes, CatchAllFeeds
<1>9. Part(c) = Part(s)
  BY <1>3, <1>4, ClosesItsPart
<1>10. Feeds(ModesOf(it)[f]) \cap Feeds(m) # {}
  BY <1>4, <1>8, <1>9
<1>11. QED
  BY <1>1, <1>6, <1>8, <1>10 DEF LegalOrderAsRead

\* Fields that are in order in the builder were declared in order.
LEMMA OnlyBeforeIsInOrder ==
  ASSUME NEW it \in Item, NEW obj \in Object,
         Exact(obj, it, Len(it.fields)), OnlyBefore(obj)
  PROVE  LegalOrderAsRead(it)
<1> DEFINE modes == ModesOf(it)
<1>1. SUFFICES ASSUME NEW f \in DOMAIN it.fields, NEW g \in DOMAIN it.fields,
                      f < g, CatchesAll(modes[f]), Feeds(modes[f]) \cap Feeds(modes[g]) # {}
               PROVE  FALSE
  BY DEF LegalOrderAsRead
<1>2. /\ f \in 1..Len(it.fields) /\ g \in 1..Len(it.fields) /\ f \in Nat /\ g \in Nat
      /\ modes[f] \in Mode /\ modes[f].of \subseteq {"child", "property"}
      /\ modes[g] \in Mode /\ modes[g].of \subseteq {"child", "property"}
  BY <1>1, FieldTypes
<1>3. Fits(modes[f], Goes(modes[f])) /\ Fits(modes[g], Goes(modes[g]))
      /\ Goes(modes[g]) \subseteq Section
  BY <1>2, GoesWhereItFits
<1>4. PICK c \in CatchAll : c \in Goes(modes[f])
  BY <1>1, <1>3 DEF Fits
<1>5. Feeds(modes[f]) = {Part(c)} /\ c \in Section
  BY <1>2, <1>4, CatchAllFeeds DEF CatchAll, Section
<1>6. PICK s \in Goes(modes[g]) : Part(s) = Part(c)
  BY <1>1, <1>3, <1>5 DEF Fits
<1>7. Closes(c, s) /\ s \in Section
  BY <1>3, <1>5, <1>6, ClosesItsPart
<1>8. c \in Holders(obj, f) /\ s \in Holders(obj, g)
  BY <1>2, <1>4, <1>6 DEF Exact
<1>9. PICK j \in DOMAIN obj[c] : obj[c][j].fld = f
  BY <1>8 DEF Holders
<1>10. PICK i \in DOMAIN obj[s] : obj[s][i].fld = g
  BY <1>8 DEF Holders
<1>11. CASE s # c
  BY <1>1, <1>2, <1>7, <1>9, <1>10, <1>11 DEF OnlyBefore
<1>12. CASE s = c
  <2>1. obj[c] \in Seq(Entry) /\ Len(obj[c]) <= 1
    BY <1>5 DEF Object, OnlyBefore
  <2>2. i = j
    BY <2>1, <1>9, <1>10, <1>12
  <2>3. QED
    BY <2>2, <1>1, <1>2, <1>9, <1>10, <1>12
<1>13. QED
  BY <1>11, <1>12

----------------------------------------------------------------------------
\* What the rules say of tuples

Filled(it) == {f \in DOMAIN it.fields : ~Unfilled(ModesOf(it)[f])}

LEMMA GoesNowhere ==
  ASSUME NEW mode \in Mode, mode.of \subseteq {"child", "property"}
  PROVE  Unfilled(mode) <=> Goes(mode) = {}
<1>1. CASE mode.m = "flatten"
  BY <1>1 DEF Unfilled, Goes
<1>2. CASE mode.m # "flatten"
  BY <1>2 DEF Unfilled, Goes
<1>3. QED
  BY <1>1, <1>2

LEMMA GoesTwice ==
  ASSUME NEW mode \in Mode, mode.of \subseteq {"child", "property"}
  PROVE  IF FilledTwice(mode) THEN {"child", "property"} \subseteq Goes(mode)
                              ELSE \A s, t \in Goes(mode) : s = t
<1>1. CASE mode.m = "flatten"
  <2>1. Goes(mode) = mode.of
    BY <1>1 DEF Goes
  <2>2. Cardinality({"child", "property"}) = 2
    <3>1. {"child", "property"} = {"child"} \cup {"property"} /\ "property" \notin {"child"}
      OBVIOUS
    <3>2. IsFiniteSet({"child"}) /\ Cardinality({"child"}) = 1
      BY FS_Singleton
    <3>3. QED
      BY <3>1, <3>2, FS_AddElement
  <2>3. CASE mode.of = {"child", "property"}
    BY <1>1, <2>1, <2>2, <2>3 DEF FilledTwice
  <2>4. CASE mode.of # {"child", "property"}
    <3>1. mode.of = {} \/ \E x : mode.of = {x}
      BY <2>4
    <3>2. Cardinality(mode.of) # 2
      <4>1. CASE mode.of = {}
        BY <4>1, FS_EmptySet
      <4>2. ASSUME NEW x, mode.of = {x} PROVE Cardinality(mode.of) # 2
        <5>1. Cardinality({x}) = 1
          BY FS_Singleton
        <5>2. QED
          BY <5>1, <4>2
      <4>3. QED
        BY <3>1, <4>1, <4>2
    <3>3. \A s, t \in mode.of : s = t
      BY <3>1
    <3>4. QED
      BY <2>1, <3>2, <3>3 DEF FilledTwice
  <2>5. QED
    BY <2>3, <2>4
<1>2. CASE mode.m # "flatten"
  BY <1>2 DEF FilledTwice, Goes
<1>3. QED
  BY <1>1, <1>2

LEMMA SectionsAreFinite == IsFiniteSet(Section)
<1>1. \A x, y : IsFiniteSet({x, y})
  <2>1. SUFFICES ASSUME NEW x, NEW y PROVE IsFiniteSet({x, y})
    OBVIOUS
  <2>2. {x, y} = {x} \cup {y} /\ IsFiniteSet({x})
    BY FS_Singleton
  <2>3. QED
    BY <2>2, FS_AddElement
<1>2. Section = ({"span", "node_name"} \cup {"type_name", "argument"})
                  \cup (({"arguments", "property"} \cup {"properties", "child"})
                  \cup {"children", "extra"})
  BY DEF Section
<1>3. IsFiniteSet({"span", "node_name"} \cup {"type_name", "argument"})
  BY <1>1, FS_Union
<1>4. IsFiniteSet({"arguments", "property"} \cup {"properties", "child"})
  BY <1>1, FS_Union
<1>5. IsFiniteSet(({"arguments", "property"} \cup {"properties", "child"})
                    \cup {"children", "extra"})
  BY <1>1, <1>4, FS_Union
<1>6. QED
  BY <1>2, <1>3, <1>5, FS_Union

\* The places of a Struct against the fields that fill them.
LEMMA PlacesOf ==
  ASSUME NEW it \in Item, NEW obj \in Object,
         Exact(obj, it, Len(it.fields)), Within(obj, Len(it.fields))
  PROVE  LET P == Places(obj, Section)
             g == [p \in P |-> FldAt(obj, p)]
         IN /\ \A s \in Section : \A j \in DOMAIN obj[s] :
                 /\ <<s, j>> \in P /\ g[<<s, j>>] = obj[s][j].fld
                 /\ obj[s][j].fld \in Filled(it) /\ s \in Goes(ModesOf(it)[obj[s][j].fld])
            /\ \A p \in P : \E s \in Section : \E j \in DOMAIN obj[s] : p = <<s, j>>
            /\ \A f \in Filled(it) : \A s \in Goes(ModesOf(it)[f]) :
                 s \in Section /\ \E j \in DOMAIN obj[s] : obj[s][j].fld = f
            /\ \A s \in Section : \A j, h \in DOMAIN obj[s] :
                 obj[s][j].fld = obj[s][h].fld => j = h
            /\ g \in Surjection(P, Filled(it))
            /\ IsFiniteSet(P)
<1> DEFINE n == Len(it.fields)
           P == Places(obj, Section)
           g == [p \in P |-> FldAt(obj, p)]
           F == Filled(it)
<1>1. \A s \in Section : obj[s] \in Seq(Entry)
  BY DEF Object
<1>2. \A p : p \in P <=> \E s \in Section : \E j \in DOMAIN obj[s] : p = <<s, j>>
  BY DEF Places
<1>3. \A f : f \in F <=> f \in 1..n /\ Goes(ModesOf(it)[f]) # {}
  BY FieldTypes, GoesNowhere DEF Filled
<1>4. ASSUME NEW s \in Section, NEW j \in DOMAIN obj[s]
      PROVE  /\ <<s, j>> \in P /\ g[<<s, j>>] = obj[s][j].fld
             /\ obj[s][j].fld \in F /\ s \in Goes(ModesOf(it)[obj[s][j].fld])
  <2>1. <<s, j>> \in P
    BY <1>2
  <2>2. g[<<s, j>>] = obj[s][j].fld
    BY <2>1 DEF FldAt
  <2>3. obj[s][j].fld \in 1..n
    BY DEF Within
  <2>4. s \in Holders(obj, obj[s][j].fld)
    BY DEF Holders
  <2>5. s \in Goes(ModesOf(it)[obj[s][j].fld])
    BY <2>3, <2>4 DEF Exact
  <2> HIDE DEF F, P, g
  <2>6. QED
    BY <2>1, <2>2, <2>3, <2>5, <1>3
<1>5. ASSUME NEW f \in F, NEW s \in Goes(ModesOf(it)[f])
      PROVE  s \in Section /\ \E j \in DOMAIN obj[s] : obj[s][j].fld = f
  <2>1. f \in 1..n
    BY <1>3
  <2>2. s \in Holders(obj, f)
    BY <2>1, <1>5 DEF Exact
  <2>3. QED
    BY <2>2 DEF Holders
<1>6. ASSUME NEW s \in Section, NEW j \in DOMAIN obj[s], NEW h \in DOMAIN obj[s],
             obj[s][j].fld = obj[s][h].fld
      PROVE  j = h
  <2>1. j \in Nat /\ h \in Nat
    BY <1>1
  <2>2. obj[s][j].fld \in Nat
    <3>1. obj[s][j] \in Entry
      BY <1>1, ElementOf
    <3>2. QED
      BY <3>1 DEF Entry
  <2>3. ~(j < h) /\ ~(h < j)
    BY <1>6, <2>2 DEF Exact, InOrder
  <2>4. QED
    BY <2>1, <2>3
<1> HIDE DEF F, P, n, g
<1>7. g \in Surjection(P, F)
  <2>1. \A p \in P : g[p] \in F
    BY <1>2, <1>4
  <2>2. g \in [P -> F]
    BY <2>1 DEF g
  <2>3. ASSUME NEW f \in F PROVE \E p \in P : g[p] = f
    <3>1. PICK s \in Goes(ModesOf(it)[f]) : TRUE
      BY <1>3
    <3>2. PICK j \in DOMAIN obj[s] : s \in Section /\ obj[s][j].fld = f
      BY <1>5
    <3>3. QED
      BY <3>2, <1>4
  <2>4. QED
    BY <2>2, <2>3 DEF Surjection
<1>8. IsFiniteSet(P)
  <2> DEFINE T == Section \X (1..n)
             i == [p \in P |-> <<p[1], g[p]>>]
  <2>1. n \in Nat /\ IsFiniteSet(1..n)
    BY FieldTypes, FS_Interval DEF n
  <2>2. IsFiniteSet(T)
    BY <2>1, SectionsAreFinite, FS_Product
  <2>3. ASSUME NEW p \in P
        PROVE  i[p] \in T /\ p[1] \in Section /\ p[2] \in DOMAIN obj[p[1]] /\ p = <<p[1], p[2]>>
               /\ i[p] = <<p[1], obj[p[1]][p[2]].fld>>
    <3>1. PICK s \in Section : \E j \in DOMAIN obj[s] : p = <<s, j>>
      BY <1>2
    <3>0. PICK j \in DOMAIN obj[s] : p = <<s, j>>
      BY <3>1
    <3>2. p[1] = s /\ p[2] = j /\ g[p] = obj[s][j].fld /\ g[p] \in 1..n
      BY <3>0, <1>3, <1>4
    <3>3. i[p] = <<s, g[p]>>
      BY <3>2
    <3> HIDE DEF i
    <3>4. QED
      BY <3>0, <3>2, <3>3
  <2> HIDE DEF i, T
  <2>4. ASSUME NEW p \in P, NEW q \in P, i[p] = i[q]
        PROVE  p = q
    <3>1. p[1] = q[1] /\ obj[p[1]][p[2]].fld = obj[q[1]][q[2]].fld
      BY <2>3, <2>4
    <3>2. p[2] = q[2]
      <4>1. p[1] \in Section /\ p[2] \in DOMAIN obj[p[1]] /\ q[2] \in DOMAIN obj[p[1]]
        BY <3>1, <2>3
      <4>2. QED
        BY <4>1, <3>1, <1>6
    <3>3. QED
      BY <3>1, <3>2, <2>3
  <2>5. i \in Injection(P, T)
    <3>1. i \in [P -> T]
      BY <2>3 DEF i
    <3>2. QED
      BY <3>1, <2>4 DEF Injection, IsInjective
  <2>6. QED
    BY <2>2, <2>5, FS_Injection
<1>9. \A s \in Section : \A j, h \in DOMAIN obj[s] : obj[s][j].fld = obj[s][h].fld => j = h
  BY <1>6
<1>10. QED
  BY <1>2, <1>4, <1>5, <1>7, <1>8, <1>9 DEF F, P, g

\* The assertion of node.rs holds of the tuples without a gap.
LEMMA AllFilledMeans ==
  ASSUME NEW it \in Item, NEW obj \in Object,
         Exact(obj, it, Len(it.fields)), Within(obj, Len(it.fields))
  PROVE  AllFilled(obj) <=> /\ \A f \in Filled(it) : ~FilledTwice(ModesOf(it)[f])
                            /\ Filled(it) = 1..Cardinality(Filled(it))
<1> DEFINE P == Places(obj, Section)
           g == [p \in P |-> FldAt(obj, p)]
           F == Filled(it)
           N == Cardinality(P)
           K == Cardinality(F)
           Once == \A f \in F : ~FilledTwice(ModesOf(it)[f])
<1>1. /\ \A s \in Section : \A j \in DOMAIN obj[s] :
           /\ <<s, j>> \in P /\ g[<<s, j>>] = obj[s][j].fld
           /\ obj[s][j].fld \in F /\ s \in Goes(ModesOf(it)[obj[s][j].fld])
      /\ \A p \in P : \E s \in Section : \E j \in DOMAIN obj[s] : p = <<s, j>>
      /\ \A f \in F : \A s \in Goes(ModesOf(it)[f]) :
           s \in Section /\ \E j \in DOMAIN obj[s] : obj[s][j].fld = f
      /\ \A s \in Section : \A j, h \in DOMAIN obj[s] :
           obj[s][j].fld = obj[s][h].fld => j = h
      /\ g \in Surjection(P, F)
      /\ IsFiniteSet(P)
  BY PlacesOf
<1>2. AllFilled(obj) <=> \A f \in 1..N : \E p \in P : g[p] = f
  BY DEF AllFilled
<1>3. \A f \in F : /\ IF FilledTwice(ModesOf(it)[f])
                      THEN {"child", "property"} \subseteq Goes(ModesOf(it)[f])
                      ELSE \A s, t \in Goes(ModesOf(it)[f]) : s = t
  <2>1. \A f \in F : f \in 1..Len(it.fields)
    BY FieldTypes DEF Filled
  <2> HIDE DEF F
  <2>2. QED
    BY <2>1, FieldTypes, GoesTwice
<1> HIDE DEF P, g, F
<1>4. g \in [P -> F] /\ \A f \in F : \E p \in P : g[p] = f
  BY <1>1 DEF Surjection
<1>5. /\ IsFiniteSet(F) /\ N \in Nat /\ K \in Nat /\ K <= N
      /\ K = N <=> g \in Injection(P, F)
  BY <1>1, FS_Surjection, FS_CardinalityType
<1>6. AllFilled(obj) <=> 1..N \subseteq F
  BY <1>2, <1>4
<1>7. g \in Injection(P, F) <=> Once
  <2>1. ASSUME Once, NEW p \in P, NEW q \in P, g[p] = g[q]
        PROVE  p = q
    <3>1. PICK s \in Section : \E j \in DOMAIN obj[s] : p = <<s, j>>
      BY <1>1
    <3>2. PICK j \in DOMAIN obj[s] : p = <<s, j>>
      BY <3>1
    <3>3. PICK t \in Section : \E h \in DOMAIN obj[t] : q = <<t, h>>
      BY <1>1
    <3>4. PICK h \in DOMAIN obj[t] : q = <<t, h>>
      BY <3>3
    <3>5. /\ g[p] = obj[s][j].fld /\ s \in Goes(ModesOf(it)[g[p]]) /\ g[p] \in F
          /\ g[q] = obj[t][h].fld /\ t \in Goes(ModesOf(it)[g[p]])
      BY <3>2, <3>4, <2>1, <1>1
    <3>6. s = t
      BY <3>5, <2>1, <1>3
    <3>7. QED
      BY <3>2, <3>4, <3>5, <3>6, <2>1, <1>1
  <2>2. ASSUME g \in Injection(P, F), NEW f \in F, FilledTwice(ModesOf(it)[f])
        PROVE  FALSE
    <3>1. "child" \in Goes(ModesOf(it)[f]) /\ "property" \in Goes(ModesOf(it)[f])
      BY <2>2, <1>3
    <3>2. PICK j \in DOMAIN obj["child"] : obj["child"][j].fld = f
      BY <3>1, <1>1
    <3>3. PICK h \in DOMAIN obj["property"] : obj["property"][h].fld = f
      BY <3>1, <1>1
    <3>4. "child" \in Section /\ "property" \in Section
      BY DEF Section
    <3>5. /\ <<"child", j>> \in P /\ <<"property", h>> \in P
          /\ g[<<"child", j>>] = f /\ g[<<"property", h>>] = f
      BY <3>2, <3>3, <3>4, <1>1
    <3>6. DOMAIN g = P /\ \A a, b \in DOMAIN g : g[a] = g[b] => a = b
      BY <2>2 DEF Injection, IsInjective
    <3>7. <<"child", j>> = <<"property", h>>
      BY <3>5, <3>6
    <3>8. QED
      BY <3>7
  <2>3. Once => g \in Injection(P, F)
    BY <2>1, <1>4 DEF Injection, IsInjective
  <2>4. g \in Injection(P, F) => Once
    BY <2>2
  <2>5. QED
    BY <2>3, <2>4
<1> HIDE DEF Once, N, K
<1>8. IsFiniteSet(1..N) /\ Cardinality(1..N) = N
  BY <1>5, FS_Interval
<1>9. ASSUME 1..N \subseteq F PROVE Once /\ F = 1..K
  <2>1. N <= K /\ (K = N => F = 1..N)
    BY <1>5, <1>8, <1>9, FS_Subset DEF K
  <2>2. K = N
    BY <2>1, <1>5
  <2>3. QED
    BY <2>1, <2>2, <1>5, <1>7
<1>10. ASSUME Once, F = 1..K PROVE 1..N \subseteq F
  BY <1>5, <1>7, <1>10
<1>11. QED
  BY <1>6, <1>9, <1>10 DEF Once, F, K

LEMMA OnlyPayloadMeans ==
  ASSUME NEW it \in Item, NEW obj \in Object,
         Exact(obj, it, Len(it.fields)), Within(obj, Len(it.fields))
  PROVE  OnlyPayload(obj) <=>
           \E f \in Filled(it) : Filled(it) = {f} /\ ModesOf(it)[f].m = "none"
<1> DEFINE P == Places(obj, Section)
           g == [p \in P |-> FldAt(obj, p)]
           F == Filled(it)
<1>1. /\ \A s \in Section : \A j \in DOMAIN obj[s] :
           /\ <<s, j>> \in P /\ g[<<s, j>>] = obj[s][j].fld
           /\ obj[s][j].fld \in F /\ s \in Goes(ModesOf(it)[obj[s][j].fld])
      /\ \A p \in P : \E s \in Section : \E j \in DOMAIN obj[s] : p = <<s, j>>
      /\ \A f \in F : \A s \in Goes(ModesOf(it)[f]) :
           s \in Section /\ \E j \in DOMAIN obj[s] : obj[s][j].fld = f
      /\ \A s \in Section : \A j, h \in DOMAIN obj[s] :
           obj[s][j].fld = obj[s][h].fld => j = h
      /\ g \in Surjection(P, F)
      /\ IsFiniteSet(P)
  BY PlacesOf
<1>2. OnlyPayload(obj) <=> Cardinality(P) = 1 /\ Len(obj["extra"]) = 1
  BY DEF OnlyPayload
<1>3. \A f \in F : /\ ModesOf(it)[f] \in Mode
                   /\ "extra" \in Goes(ModesOf(it)[f]) <=> ModesOf(it)[f].m = "none"
                   /\ ModesOf(it)[f].m = "none" => Goes(ModesOf(it)[f]) = {"extra"}
  <2>1. SUFFICES ASSUME NEW f \in F
                 PROVE  /\ ModesOf(it)[f] \in Mode
                        /\ "extra" \in Goes(ModesOf(it)[f]) <=> ModesOf(it)[f].m = "none"
                        /\ ModesOf(it)[f].m = "none" => Goes(ModesOf(it)[f]) = {"extra"}
    OBVIOUS
  <2> DEFINE m == ModesOf(it)[f]
  <2>2. m \in Mode
    BY <2>1, FieldTypes DEF Filled
  <2> HIDE DEF m
  <2>3. ("extra" \in Goes(m) <=> m.m = "none") /\ (m.m = "none" => Goes(m) = {"extra"})
    BY <2>2 DEF Goes, Mode
  <2>4. QED
    BY <2>2, <2>3 DEF m
<1> HIDE DEF P, g, F
<1>4. g \in [P -> F] /\ \A f \in F : \E p \in P : g[p] = f
  BY <1>1 DEF Surjection
<1>5. "extra" \in Section /\ obj["extra"] \in Seq(Entry)
  BY DEF Object, Section
<1>6. ASSUME Cardinality(P) = 1, Len(obj["extra"]) = 1
      PROVE  \E f \in F : F = {f} /\ ModesOf(it)[f].m = "none"
  <2>1. PICK p : P = {p}
    BY <1>1, <1>6, FS_Singleton
  <2>2. 1 \in DOMAIN obj["extra"]
    BY <1>5, <1>6
  <2>3. <<"extra", 1>> \in P /\ g[<<"extra", 1>>] \in F
        /\ "extra" \in Goes(ModesOf(it)[g[<<"extra", 1>>]])
    BY <2>2, <1>1, <1>5
  <2>4. F = {g[p]} /\ p = <<"extra", 1>>
    BY <2>1, <2>3, <1>4
  <2>5. QED
    BY <2>3, <2>4, <1>3
<1>7. ASSUME NEW f \in F, F = {f}, ModesOf(it)[f].m = "none"
      PROVE  Cardinality(P) = 1 /\ Len(obj["extra"]) = 1
  <2>1. Goes(ModesOf(it)[f]) = {"extra"}
    BY <1>3, <1>7
  <2>2. PICK j \in DOMAIN obj["extra"] : obj["extra"][j].fld = f
    BY <2>1, <1>1
  <2>0. \A s \in Section : \A h \in DOMAIN obj[s] : obj[s][h].fld = f /\ s = "extra"
    <3>1. SUFFICES ASSUME NEW s \in Section, NEW h \in DOMAIN obj[s]
                   PROVE  obj[s][h].fld = f /\ s = "extra"
      OBVIOUS
    <3>2. obj[s][h].fld \in F /\ s \in Goes(ModesOf(it)[obj[s][h].fld])
      BY <1>1
    <3>3. obj[s][h].fld = f
      BY <3>2, <1>7
    <3>4. QED
      BY <3>2, <3>3, <2>1
  <2>3. \A h \in DOMAIN obj["extra"] : h = j
    BY <2>0, <2>2, <1>1, <1>5
  <2>4. ASSUME NEW p \in P PROVE p = <<"extra", j>>
    <3>1. PICK s \in Section : \E h \in DOMAIN obj[s] : p = <<s, h>>
      BY <1>1
    <3>2. PICK h \in DOMAIN obj[s] : p = <<s, h>>
      BY <3>1
    <3>3. obj[s][h].fld = f /\ s = "extra"
      BY <2>0
    <3>4. QED
      BY <2>3, <3>2, <3>3
  <2>5. P = {<<"extra", j>>}
    BY <2>2, <2>4, <1>1, <1>5
  <2>6. Len(obj["extra"]) = 1
    <3>1. DOMAIN obj["extra"] = 1..Len(obj["extra"]) /\ Len(obj["extra"]) \in Nat
      BY <1>5
    <3>2. Len(obj["extra"]) >= 1
      BY <3>1, <2>2
    <3>3. 1 \in DOMAIN obj["extra"] /\ Len(obj["extra"]) \in DOMAIN obj["extra"]
      BY <3>1, <3>2
    <3>4. QED
      BY <3>3, <2>3
  <2>7. QED
    BY <2>5, <2>6, FS_Singleton
<1>8. QED
  BY <1>2, <1>6, <1>7 DEF F

\* What is made of a tuple passes the assertion exactly if its fields are counted right.
LEMMA LegalTupleMeans ==
  ASSUME NEW it \in Item, NEW obj \in Object,
         Exact(obj, it, Len(it.fields)), Within(obj, Len(it.fields))
  PROVE  LegalTupleAsRead(it) <=> it.shape # "tuple" \/ OnlyPayload(obj) \/ AllFilled(obj)
<1>1. LegalTupleAsRead(it) <=>
        \/ it.shape # "tuple"
        \/ /\ \A f \in Filled(it) : ~FilledTwice(ModesOf(it)[f])
           /\ Filled(it) = 1..Cardinality(Filled(it))
        \/ \E f \in Filled(it) : Filled(it) = {f} /\ ModesOf(it)[f].m = "none"
  BY DEF LegalTupleAsRead, Filled
<1>2. QED
  BY <1>1, AllFilledMeans, OnlyPayloadMeans

----------------------------------------------------------------------------
\* What is accepted is legal, and what is legal is accepted

\* Nothing was found of an item while it was read, and of what it has become
\* while its decoders were made.
ReadOk(inp, i) ==
  /\ VariantErrors(inp.items[i]) = {}
  /\ "skip" \notin VariantAttrs(inp.items[i]) /\ Takes(inp, inp.items[i]) =>
       \A f \in DOMAIN inp.items[i].fields : FieldOk(inp.items[i], f)
EmitOk(inp, x) ==
  /\ x.kind # "Named"
  /\ x.kind \in {"Struct", "Tuple"} =>
       /\ inp.items[x.item].shape = "tuple" => AllFilled(x.obj)
       /\ \A f \in DOMAIN inp.items[x.item].fields : UnwrapsOk(inp.items[x.item].fields[f])

\* The fields of the item whose decoder is being made.
BuiltFields == input.items[built[item].item].fields

\* The decoders of an item: its own, and the closure of each unwrap that counts
\* in a field of it.
OwnDecoders(inp, x) == [entry : Entries(x), item : {x.item}, obj : {x.obj},
                        fields : {DOMAIN inp.items[x.item].fields}]
UnwrapOf(d, i, f, k) ==
  [entry |-> "unwrap", item |-> i,
   obj |-> Push(NoFields, Goes(ModeAt(d, k)), EntryOf(d, k, f, FALSE, FALSE)),
   fields |-> {f}]
UnwrapsIn(fields, i) ==
  UNION {{UnwrapOf(fields[f], i, f, k) : k \in CountsAsRead(fields[f]) \ {0}} : f \in DOMAIN fields}
Decoders(inp, x) ==
  OwnDecoders(inp, x) \cup
    (IF x.kind \in {"Struct", "Tuple"} THEN UnwrapsIn(inp.items[x.item].fields, x.item) ELSE {})

\* What a sequence holds.
Among(s) == {s[j] : j \in DOMAIN s}

\* The unwraps to be emitted count, and every one that counts has been emitted
\* or is reached from one that is to be.
KidsCount == \A x \in Among(kids) :
  x.wrap # 0 => x.wrap \in CountsAsRead(BuiltFields[x.fld])
KidsReachAll ==
  \A f \in DOMAIN BuiltFields : \A k \in CountsAsRead(BuiltFields[f]) \ {0} :
    \/ /\ DecodeErrors(BuiltFields[f], k, FALSE) = {}
       /\ UnwrapOf(BuiltFields[f], built[item].item, f, k) \in made
    \/ \E x \in Among(kids) : /\ x.fld = f /\ x.wrap # 0
                              /\ k \in Under(BuiltFields[f], x.wrap)

Blamed == errors # {} \/ stage \in {"failed", "panic"}
Flawless ==
  /\ stage # "container" => ~input.attrs
  /\ stage \in {"item", "fields"} =>
       \A i \in DOMAIN input.items : i < item => ReadOk(input, i)
  /\ stage = "fields" => /\ VariantErrors(input.items[item]) = {}
                         /\ \A f \in 1..(fld - 1) : FieldOk(input.items[item], f)
  /\ stage \in {"emit", "children", "done"} =>
       /\ \A i \in DOMAIN input.items : ReadOk(input, i)
       /\ \A b \in DOMAIN built : b < item =>
            EmitOk(input, built[b]) /\ Decoders(input, built[b]) \subseteq made
  /\ stage = "children" => KidsReachAll

Judged ==
  /\ Blamed => ~LegalAsRead(input)
  /\ errors = {} => Flawless
  /\ stage = "children" => KidsCount
  /\ stage = "done" => item > Len(built)

LEMMA ErrorsAtNone ==
  ASSUME NEW whys, NEW i, NEW f
  PROVE  ErrorsAt(whys, i, f) = {} <=> whys = {}
<1>1. ASSUME NEW w \in whys PROVE ErrorsAt(whys, i, f) # {}
  <2>1. [why |-> w, item |-> i, fld |-> f] \in ErrorsAt(whys, i, f)
    BY <1>1 DEF ErrorsAt
  <2>2. QED
    BY <2>1
<1>2. ASSUME NEW x \in ErrorsAt(whys, i, f) PROVE whys # {}
  <2>1. x.why \in whys
    BY <1>2 DEF ErrorsAt
  <2>2. QED
    BY <2>1
<1>3. QED
  BY <1>1, <1>2

\* The reasons why an input is not legal.
LEMMA BadItem ==
  ASSUME NEW inp, NEW i \in DOMAIN inp.items, ~LegalItemAsRead(inp, inp.items[i])
  PROVE  ~LegalAsRead(inp)
BY DEF LegalAsRead

LEMMA BadVariant ==
  ASSUME NEW inp, NEW i \in DOMAIN inp.items, VariantErrors(inp.items[i]) # {}
  PROVE  ~LegalAsRead(inp)
<1>1. ~LegalItemAsRead(inp, inp.items[i])
  BY DEF LegalItemAsRead
<1>2. QED
  BY <1>1, BadItem

LEMMA BadField ==
  ASSUME NEW inp, NEW i \in DOMAIN inp.items, inp.items[i] \in Item,
         "skip" \notin VariantAttrs(inp.items[i]), NEW f \in DOMAIN inp.items[i].fields,
         ~FieldOk(inp.items[i], f) \/ ~UnwrapsOk(inp.items[i].fields[f])
  PROVE  ~LegalAsRead(inp)
<1>1. ~LegalDeclAsRead(inp.items[i].fields[f], inp.items[i].shape = "named")
  BY LegalIsOk
<1>2. ~LegalItemAsRead(inp, inp.items[i])
  BY <1>1 DEF LegalItemAsRead
<1>3. QED
  BY <1>2, BadItem

LEMMA BadOrder ==
  ASSUME NEW inp, NEW i \in DOMAIN inp.items,
         "skip" \notin VariantAttrs(inp.items[i]),
         \/ ~LegalOrderAsRead(inp.items[i]) \/ ~LegalTupleAsRead(inp.items[i])
         \/ inp.kind = "enum" /\ inp.items[i].shape = "named"
  PROVE  ~LegalAsRead(inp)
<1>1. ~LegalItemAsRead(inp, inp.items[i])
  BY DEF LegalItemAsRead
<1>2. QED
  BY <1>1, BadItem

\* What emitting an error says.
LEMMA Blame ==
  ASSUME Judged, input' = input, stage' \notin {"failed", "panic"},
         NEW whys, NEW i, NEW f, errors' = errors \cup ErrorsAt(whys, i, f),
         whys # {} => ~LegalAsRead(input)
  PROVE  /\ Blamed' => ~LegalAsRead(input')
         /\ errors' = {} => errors = {} /\ whys = {}
<1>1. errors' = {} <=> errors = {} /\ ErrorsAt(whys, i, f) = {}
  OBVIOUS
<1>2. errors # {} => ~LegalAsRead(input)
  BY DEF Judged, Blamed
<1>3. QED
  BY <1>1, <1>2, ErrorsAtNone DEF Blamed

\* The fields of what was read, as the lemmas about them need them.
LEMMA InputItems ==
  ASSUME IInv
  PROVE  /\ input.items \in Seq(Item) /\ input \in Input /\ input.items = Items
         /\ DOMAIN input.items = 1..Len(input.items) /\ Len(input.items) \in Nat
         /\ \A i \in DOMAIN input.items :
              /\ input.items[i] \in Item
              /\ Len(input.items[i].fields) = Size(i) /\ Size(i) \in Nat
              /\ DOMAIN input.items[i].fields = 1..Size(i)
              /\ \A f \in DOMAIN input.items[i].fields :
                   /\ input.items[i].fields[f] \in Decl
                   /\ WellFormedDecl(input.items[i].fields[f])
<1>1. input.items \in Seq(Item) /\ input \in Input /\ Items = input.items
  BY DEF IInv, TypeOK, Input, Items
<1>2. \A i \in DOMAIN input.items : \A f \in DOMAIN input.items[i].fields :
        WellFormedDecl(input.items[i].fields[f])
  BY DEF IInv, TypeOK, WellFormedInput
<1>3. \A i \in DOMAIN input.items :
        /\ input.items[i] \in Item
        /\ Len(input.items[i].fields) = Size(i) /\ Size(i) \in Nat
        /\ DOMAIN input.items[i].fields = 1..Size(i)
        /\ \A f \in DOMAIN input.items[i].fields : input.items[i].fields[f] \in Decl
  BY <1>1, ItemTypes DEF IInv, Size
<1>4. QED
  BY <1>1, <1>2, <1>3

\* A variant whose attributes are read.
LEMMA ReadVariantJudged ==
  ASSUME IInv, Judged, stage = "item", item <= Len(Items), ReadVariantAttrs, input' = input,
         stage' \notin {"failed", "panic"}
  PROVE  /\ Blamed' => ~LegalAsRead(input')
         /\ errors' = {} => /\ errors = {} /\ VariantErrors(input.items[item]) = {}
                            /\ ~input.attrs
                            /\ \A i \in DOMAIN input.items : i < item => ReadOk(input, i)
         /\ item \in DOMAIN input.items
<1>1. item \in DOMAIN input.items
  <2>1. item \in Nat /\ item # 0
    BY DEF IInv, TypeOK, Ranges
  <2>2. QED
    BY <2>1, InputItems
<1>2. errors' = errors \cup ErrorsAt(VariantErrors(input.items[item]), item, 0)
  BY DEF ReadVariantAttrs, Items
<1>3. VariantErrors(input.items[item]) # {} => ~LegalAsRead(input)
  BY <1>1, BadVariant
<1>4. /\ Blamed' => ~LegalAsRead(input')
      /\ errors' = {} => errors = {} /\ VariantErrors(input.items[item]) = {}
  BY <1>2, <1>3, Blame
<1>5. QED
  BY <1>1, <1>4 DEF Judged, Flawless

LEMMA SkipVariantJudged ==
  ASSUME IInv, Judged, SkipVariant
  PROVE  Judged'
<1>1. /\ stage = "item" /\ item <= Len(Items) /\ "skip" \in VariantAttrs(input.items[item])
      /\ ReadVariantAttrs /\ item' = item + 1
      /\ UNCHANGED <<input, stage, fld, bld, built, kids, made>>
  BY DEF SkipVariant, Items
<1>2. /\ Blamed' => ~LegalAsRead(input')
      /\ errors' = {} => /\ errors = {} /\ VariantErrors(input.items[item]) = {}
                         /\ ~input.attrs
                         /\ \A i \in DOMAIN input.items : i < item => ReadOk(input, i)
      /\ item \in DOMAIN input.items
  BY <1>1, ReadVariantJudged
<1>3. errors' = {} => \A i \in DOMAIN input.items : i < item + 1 => ReadOk(input, i)
  <2>1. \A i \in DOMAIN input.items : i < item + 1 => i < item \/ i = item
    BY <1>2, InputItems
  <2>2. QED
    BY <2>1, <1>1, <1>2 DEF ReadOk
<1>4. stage' = "item"
  BY <1>1
<1>5. errors' = {} => Flawless'
  BY <1>1, <1>2, <1>3, <1>4 DEF Flawless
<1>6. QED
  BY <1>2, <1>4, <1>5 DEF Judged

LEMMA ReadPlainVariantJudged ==
  ASSUME IInv, Judged, ReadPlainVariant
  PROVE  Judged'
<1>1. /\ stage = "item" /\ item <= Len(Items) /\ ~Takes(input, input.items[item])
      /\ ReadVariantAttrs /\ item' = item + 1
      /\ UNCHANGED <<input, stage, fld, bld, kids, made>>
  BY DEF ReadPlainVariant, Items, Takes
<1>2. /\ Blamed' => ~LegalAsRead(input')
      /\ errors' = {} => /\ errors = {} /\ VariantErrors(input.items[item]) = {}
                         /\ ~input.attrs
                         /\ \A i \in DOMAIN input.items : i < item => ReadOk(input, i)
      /\ item \in DOMAIN input.items
  BY <1>1, ReadVariantJudged
<1>3. errors' = {} => \A i \in DOMAIN input.items : i < item + 1 => ReadOk(input, i)
  <2>1. \A i \in DOMAIN input.items : i < item + 1 => i < item \/ i = item
    BY <1>2, InputItems
  <2>2. QED
    BY <2>1, <1>1, <1>2 DEF ReadOk
<1>4. stage' = "item"
  BY <1>1
<1>5. errors' = {} => Flawless'
  BY <1>1, <1>2, <1>3, <1>4 DEF Flawless
<1>6. QED
  BY <1>2, <1>4, <1>5 DEF Judged

LEMMA BeginFieldsJudged ==
  ASSUME IInv, Judged, BeginFields
  PROVE  Judged'
<1>1. /\ stage = "item" /\ item <= Len(Items)
      /\ ReadVariantAttrs /\ stage' = "fields" /\ fld' = 1
      /\ UNCHANGED <<input, item, built, kids, made>>
  BY DEF BeginFields
<1>2. /\ Blamed' => ~LegalAsRead(input')
      /\ errors' = {} => /\ errors = {} /\ VariantErrors(input.items[item]) = {}
                         /\ ~input.attrs
                         /\ \A i \in DOMAIN input.items : i < item => ReadOk(input, i)
  BY <1>1, ReadVariantJudged
<1>3. \A f \in 1..(fld' - 1) : FALSE
  BY <1>1
<1>4. errors' = {} => Flawless'
  BY <1>1, <1>2, <1>3 DEF Flawless
<1>5. QED
  BY <1>1, <1>2, <1>4 DEF Judged

LEMMA AddFieldJudged ==
  ASSUME IInv, Kept, Judged, AddField
  PROVE  Judged'
<1> DEFINE it == input.items[item]
           d == it.fields[fld]
           option == d.ty = "Option"
           whys == ReadErrors(d) \cup DecodeErrors(d, 0, option)
<1>1. /\ stage = "fields" /\ fld <= Len(it.fields) /\ fld' = fld + 1
      /\ ~Refuses(bld, ModeAt(d, 0), it.shape = "named", option)
      /\ errors' = errors \cup ErrorsAt(whys, item, fld)
      /\ UNCHANGED <<input, stage, item, built, kids, made>>
  BY DEF AddField, RefusedNow, Fields, Named, Items
<1>2. /\ item \in DOMAIN input.items /\ it \in Item /\ fld \in DOMAIN it.fields /\ fld \in Nat
      /\ "skip" \notin VariantAttrs(it)
  <2>1. item \in DOMAIN input.items /\ fld \in Nat /\ fld # 0 /\ "skip" \notin VariantAttrs(it)
    BY <1>1 DEF IInv, TypeOK, Ranges, Kept, Skipped, Items
  <2>2. QED
    BY <2>1, <1>1, InputItems
<1>3. FieldOk(it, fld) <=> whys = {}
  <2>1. ~Nameless(ModeAt(d, 0), it.shape = "named") /\ ~(ModeAt(d, 0).m = "flatten" /\ option)
    BY <1>1 DEF Refuses
  <2>2. FieldOk(it, fld) <=> ReadErrors(d) = {} /\ DecodeErrors(d, 0, option) = {}
    BY <2>1 DEF FieldOk
  <2>3. QED
    BY <2>2
<1>4. whys # {} => ~LegalAsRead(input)
  BY <1>2, <1>3, BadField
<1> HIDE DEF whys
<1>5. /\ Blamed' => ~LegalAsRead(input')
      /\ errors' = {} => errors = {} /\ whys = {}
  BY <1>1, <1>4, Blame
<1>6. errors' = {} => \A f \in 1..(fld' - 1) : FieldOk(it, f)
  <2>1. \A f \in 1..(fld' - 1) : f \in 1..(fld - 1) \/ f = fld
    BY <1>1, <1>2
  <2>2. errors = {} => \A f \in 1..(fld - 1) : FieldOk(it, f)
    BY <1>1 DEF Judged, Flawless
  <2>3. QED
    BY <2>1, <2>2, <1>3, <1>5
<1>7. errors' = {} => /\ ~input.attrs /\ VariantErrors(it) = {}
                      /\ \A i \in DOMAIN input.items : i < item => ReadOk(input, i)
  BY <1>1, <1>5 DEF Judged, Flawless
<1>8. errors' = {} => Flawless'
  <2>1. stage' = "fields" /\ input' = input /\ item' = item
    BY <1>1
  <2>2. QED
    BY <2>1, <1>6, <1>7 DEF Flawless, it
<1>9. QED
  BY <1>1, <1>5, <1>8 DEF Judged

LEMMA RefuseFieldJudged ==
  ASSUME IInv, Kept, Judged, RefuseField
  PROVE  Judged'
<1> DEFINE it == input.items[item]
           d == it.fields[fld]
           option == d.ty = "Option"
           n == fld - 1
<1>1. /\ stage = "fields" /\ fld <= Len(it.fields) /\ stage' = "failed"
      /\ Refuses(bld, ModeAt(d, 0), it.shape = "named", option)
      /\ UNCHANGED <<input, item, fld, bld, built, kids, made>>
      /\ errors \subseteq errors'
  BY DEF RefuseField, RefusedNow, Fields, Named, Items
<1>2. /\ item \in DOMAIN input.items /\ it \in Item /\ fld \in DOMAIN it.fields
      /\ n \in Nat /\ fld = n + 1 /\ n + 1 <= Len(it.fields)
      /\ "skip" \notin VariantAttrs(it) /\ bld \in Object /\ Within(bld, n) /\ Exact(bld, it, n)
  <2>1. /\ item \in DOMAIN input.items /\ fld \in Nat /\ fld # 0 /\ "skip" \notin VariantAttrs(it)
        /\ bld \in Object /\ Within(bld, n) /\ Exact(bld, it, n)
    BY <1>1 DEF IInv, TypeOK, Ranges, Kept, Skipped, Items
  <2>2. QED
    BY <2>1, <1>1, InputItems
<1>3. ModesOf(it)[n + 1] = ModeAt(d, 0)
  BY <1>2, FieldTypes
<1>4. ~LegalAsRead(input)
  <2>1. CASE Closed(bld, ModeAt(d, 0))
    <3> HIDE DEF it, d, n
    <3>1. ~LegalOrderAsRead(it)
      BY <2>1, <1>2, <1>3, ClosedIsOutOfOrder
    <3>2. QED
      BY <3>1, <1>2, BadOrder DEF it
  <2>2. CASE Nameless(ModeAt(d, 0), it.shape = "named") \/ (ModeAt(d, 0).m = "flatten" /\ option)
    <3>1. ~FieldOk(it, fld)
      BY <2>2 DEF FieldOk
    <3>2. QED
      BY <3>1, <1>2, BadField
  <2>3. QED
    BY <2>1, <2>2, <1>1 DEF Refuses
<1>5. errors' = {} => ~input.attrs
  BY <1>1 DEF Judged, Flawless
<1>6. QED
  BY <1>1, <1>4, <1>5 DEF Judged, Flawless


----------------------------------------------------------------------------
\* The steps of the emission

LEMMA KindsTaken ==
  ASSUME NEW inp \in Input, NEW it \in Item, NEW obj
  PROVE  /\ KindOf(inp, it, obj) \in {"Struct", "Tuple", "NewType", "Nested"} <=> Takes(inp, it)
         /\ KindOf(inp, it, obj) = "Named" <=> inp.kind = "enum" /\ it.shape = "named"
         /\ KindOf(inp, it, obj) \in {"NewType", "Nested"} <=>
              Takes(inp, it) /\ it.shape = "tuple" /\ OnlyPayload(obj)
<1>1. inp.kind \in {"struct", "enum"} /\ it.shape \in {"named", "tuple", "unit"}
  BY DEF Input, Item
<1>2. CASE inp.kind = "struct"
  <2>1. KindOf(inp, it, obj) =
          IF it.shape = "tuple" /\ OnlyPayload(obj) THEN "NewType" ELSE "Struct"
    BY <1>2 DEF KindOf
  <2>2. QED
    BY <1>2, <2>1 DEF Takes
<1>3. CASE inp.kind = "enum" /\ it.shape = "tuple"
  <2>1. KindOf(inp, it, obj) = IF OnlyPayload(obj) THEN "Nested" ELSE "Tuple"
    BY <1>3 DEF KindOf
  <2>2. QED
    BY <1>3, <2>1 DEF Takes
<1>4. CASE inp.kind = "enum" /\ it.shape # "tuple"
  <2>1. KindOf(inp, it, obj) = IF it.shape = "named" THEN "Named" ELSE "Unit"
    BY <1>1, <1>4 DEF KindOf
  <2>2. QED
    BY <1>4, <2>1 DEF Takes
<1>5. QED
  BY <1>1, <1>2, <1>3, <1>4

\* What is known of an item that was built.
LEMMA BuiltIs ==
  ASSUME IInv, Kept, NEW b \in DOMAIN built
  PROVE  LET x == built[b]
             it == input.items[x.item]
         IN /\ x.item \in DOMAIN input.items /\ it \in Item /\ input \in Input
            /\ "skip" \notin VariantAttrs(it)
            /\ x.obj \in Object /\ Within(x.obj, Len(it.fields))
            /\ x.kind = KindOf(input, it, x.obj)
            /\ Takes(input, it) => Exact(x.obj, it, Len(it.fields))
            /\ x.kind \in {"Struct", "Tuple"} => Takes(input, it)
<1>1. AsRead(input, built[b])
  BY DEF Kept, BuiltAsRead
<1>2. built[b] \in BuiltItem
  BY ElementOf DEF IInv, TypeOK
<1>3. /\ built[b].item \in DOMAIN input.items /\ input.items[built[b].item] \in Item
      /\ input \in Input /\ Len(input.items[built[b].item].fields) = Size(built[b].item)
  BY <1>1, InputItems DEF AsRead
<1>4. Within(built[b].obj, Len(input.items[built[b].item].fields))
  BY <1>3 DEF IInv, Ranges, BuiltInRange
<1>5. built[b].kind = KindOf(input, input.items[built[b].item], built[b].obj)
  BY <1>1 DEF AsRead
<1>6. built[b].kind \in {"Struct", "Tuple"} => Takes(input, input.items[built[b].item])
  BY <1>3, <1>5, KindsTaken
<1>7. QED
  BY <1>1, <1>2, <1>3, <1>4, <1>5, <1>6 DEF AsRead, BuiltItem

\* Sequences, from their elements to their positions.
Joined(s, t) == s \o t

LEMMA JoinedHas ==
  ASSUME NEW T, NEW s \in Seq(T), NEW t \in Seq(T), NEW x
  PROVE  x \in Among(Joined(s, t)) <=> x \in Among(s) \/ x \in Among(t)
<1>1. /\ s \o t \in Seq(T) /\ Len(s \o t) = Len(s) + Len(t)
      /\ Len(s) \in Nat /\ Len(t) \in Nat
      /\ DOMAIN s = 1..Len(s) /\ DOMAIN t = 1..Len(t) /\ DOMAIN (s \o t) = 1..(Len(s) + Len(t))
  OBVIOUS
<1>2. \A j \in 1..(Len(s) + Len(t)) :
        (s \o t)[j] = IF j <= Len(s) THEN s[j] ELSE t[j - Len(s)]
  OBVIOUS
<1>3. ASSUME NEW h \in DOMAIN s, s[h] = x PROVE \E j \in DOMAIN (s \o t) : (s \o t)[j] = x
  <2>1. h \in DOMAIN (s \o t) /\ h <= Len(s)
    BY <1>1
  <2>2. QED
    BY <1>1, <1>2, <1>3, <2>1
<1>4. ASSUME NEW h \in DOMAIN t, t[h] = x PROVE \E j \in DOMAIN (s \o t) : (s \o t)[j] = x
  <2>1. Len(s) + h \in 1..(Len(s) + Len(t)) /\ ~(Len(s) + h <= Len(s)) /\ (Len(s) + h) - Len(s) = h
    BY <1>1
  <2>2. (s \o t)[Len(s) + h] = x
    BY <1>2, <1>4, <2>1
  <2>3. QED
    BY <1>1, <2>1, <2>2
<1>5. ASSUME NEW j \in DOMAIN (s \o t), (s \o t)[j] = x
      PROVE  (\E h \in DOMAIN s : s[h] = x) \/ (\E h \in DOMAIN t : t[h] = x)
  BY <1>5, JoinedWith
<1>6. QED
  BY <1>3, <1>4, <1>5 DEF Joined, Among

LEMMA TailHas ==
  ASSUME NEW T, NEW s \in Seq(T), s # <<>>, NEW x
  PROVE  x \in Among(s) <=> x = Head(s) \/ x \in Among(Tail(s))
<1>1. Head(s) = s[1] /\ Len(s) \in Nat /\ DOMAIN s = 1..Len(s) /\ 1 \in DOMAIN s
  OBVIOUS
<1>2. ASSUME NEW h \in DOMAIN s, s[h] = x, h # 1
      PROVE  \E j \in DOMAIN Tail(s) : Tail(s)[j] = x
  <2>1. h - 1 \in DOMAIN Tail(s) /\ Tail(s)[h - 1] = s[h]
    BY <1>1, <1>2
  <2>2. QED
    BY <1>2, <2>1
<1>3. ASSUME NEW j \in DOMAIN Tail(s), Tail(s)[j] = x
      PROVE  \E h \in DOMAIN s : s[h] = x
  BY <1>3, TailOf
<1>4. QED
  BY <1>1, <1>2, <1>3 DEF Among

\* The arms of an item, and of the closure of an unwrap.
LEMMA KidsAre ==
  ASSUME NEW obj \in Object, NEW x
  PROVE  x \in Among(Kids(obj)) <=> x \in Among(obj["child"]) \/ x \in Among(obj["children"])
<1>1. /\ obj["child"] \in Seq(Entry) /\ obj["children"] \in Seq(Entry)
      /\ Kids(obj) = Joined(obj["child"], obj["children"])
  BY DEF Object, Section, Kids, Joined
<1>2. QED
  BY <1>1, JoinedHas

LEMMA ChildGoes ==
  ASSUME NEW mode, mode.m \in {"child", "children"}
  PROVE  \E s \in {"child", "children"} : s \in Goes(mode)
BY DEF Goes

LEMMA ItemKids ==
  ASSUME NEW it \in Item, NEW obj \in Object,
         Exact(obj, it, Len(it.fields)), Within(obj, Len(it.fields))
  PROVE  /\ \A x \in Among(Kids(obj)) :
              x.fld \in 1..Len(it.fields) /\ x.wrap = Child(it.fields[x.fld], 0)
         /\ \A f \in 1..Len(it.fields) :
              Child(it.fields[f], 0) # 0 => \E x \in Among(Kids(obj)) : x.fld = f
<1>1. \A f : ReadOf(it, f).wrap = Child(it.fields[f], 0)
  BY DEF ReadOf, EntryOf, Child
<1>2. {"child", "children"} \subseteq Section
  BY DEF Section
<1>3. ASSUME NEW x \in Among(Kids(obj))
      PROVE  x.fld \in 1..Len(it.fields) /\ x.wrap = Child(it.fields[x.fld], 0)
  <2>1. PICK s \in {"child", "children"} : x \in Among(obj[s])
    BY <1>3, KidsAre
  <2>2. PICK h \in DOMAIN obj[s] : obj[s][h] = x
    BY <2>1 DEF Among
  <2>3. s \in Section
    BY <1>2
  <2>4. obj[s][h] = ReadOf(it, obj[s][h].fld) /\ obj[s][h].fld \in 1..Len(it.fields)
    BY <2>3 DEF Exact, Within
  <2>5. QED
    BY <1>1, <2>2, <2>4
<1>4. ASSUME NEW f \in 1..Len(it.fields), Child(it.fields[f], 0) # 0
      PROVE  \E x \in Among(Kids(obj)) : x.fld = f
  <2>1. ModesOf(it)[f].m \in {"child", "children"}
    BY <1>4, FieldTypes DEF Child
  <2>2. PICK s \in {"child", "children"} : s \in Goes(ModesOf(it)[f])
    BY <2>1, ChildGoes
  <2>3. s \in Holders(obj, f)
    BY <2>2 DEF Exact
  <2>4. PICK h \in DOMAIN obj[s] : obj[s][h].fld = f
    BY <2>3 DEF Holders
  <2>5. obj[s][h] \in Among(obj[s])
    BY DEF Among
  <2>6. obj[s][h] \in Among(Kids(obj))
    BY <2>5, KidsAre
  <2>7. QED
    BY <2>4, <2>6
<1>5. QED
  BY <1>3, <1>4

LEMMA UnwrapKids ==
  ASSUME NEW d \in Decl, NEW k, NEW f \in Nat
  PROVE  LET e == EntryOf(d, k, f, FALSE, FALSE)
             obj == Push(NoFields, Goes(ModeAt(d, k)), e)
         IN /\ Kids(obj) \in Seq(Entry) /\ e.fld = f /\ e.wrap = Child(d, k)
            /\ \A x \in Among(Kids(obj)) : x = e
            /\ Child(d, k) # 0 => e \in Among(Kids(obj))
<1> DEFINE e == EntryOf(d, k, f, FALSE, FALSE)
           obj == Push(NoFields, Goes(ModeAt(d, k)), e)
<1>1. e \in Entry /\ e.fld = f
  BY EntryType
<1>2. e.wrap = Child(d, k)
  BY DEF EntryOf, Child
<1>3. Child(d, k) # 0 => ModeAt(d, k).m \in {"child", "children"}
  BY DEF Child
<1> HIDE DEF e
<1>4. obj \in Object
  BY <1>1, NoFieldsType, PushType
<1>5. \A s \in Section : obj[s] = IF s \in Goes(ModeAt(d, k)) THEN <<e>> ELSE <<>>
  BY DEF Push, NoFields
<1> HIDE DEF obj
<1>6. {"child", "children"} \subseteq Section
  BY DEF Section
<1>7. \A s \in {"child", "children"} : \A x : x \in Among(obj[s]) => x = e
  BY <1>5, <1>6 DEF Among
<1>8. \A x \in Among(Kids(obj)) : x = e
  BY <1>4, <1>7, KidsAre
<1>9. ASSUME Child(d, k) # 0 PROVE e \in Among(Kids(obj))
  <2>1. PICK s \in {"child", "children"} : s \in Goes(ModeAt(d, k))
    BY <1>3, <1>9, ChildGoes
  <2>2. obj[s] = <<e>>
    BY <1>5, <1>6, <2>1
  <2>3. e \in Among(obj[s])
    BY <2>2 DEF Among
  <2>4. QED
    BY <1>4, <2>3, KidsAre
<1>10. Kids(obj) \in Seq(Entry)
  <2>1. obj["child"] \in Seq(Entry) /\ obj["children"] \in Seq(Entry)
    BY <1>4 DEF Object, Section
  <2>2. QED
    BY <2>1 DEF Kids
<1>11. QED
  BY <1>1, <1>2, <1>8, <1>9, <1>10 DEF obj, e

LEMMA ReadContainerJudged ==
  ASSUME IInv, Kept, ReadContainer
  PROVE  Judged'
<1>1. /\ stage = "container" /\ stage' = "item" /\ item = 1 /\ item' = 1 /\ input' = input
      /\ errors' = IF input.attrs THEN ErrorsAt({"container"}, 0, 0) ELSE {}
  BY DEF ReadContainer, Kept
<1>2. input.attrs => ~LegalAsRead(input)
  BY DEF LegalAsRead
<1>3. errors' # {} => input.attrs
  BY <1>1
<1>4. input.attrs => errors' # {}
  BY <1>1, ErrorsAtNone
<1>5. \A i \in DOMAIN input.items : ~(i < 1)
  BY InputItems
<1>6. QED
  BY <1>1, <1>2, <1>3, <1>4, <1>5 DEF Judged, Blamed, Flawless

LEMMA EndFieldsJudged ==
  ASSUME IInv, Kept, Judged, EndFields
  PROVE  Judged'
<1>1. /\ stage = "fields" /\ fld > Len(input.items[item].fields) /\ stage' = "item"
      /\ item' = item + 1 /\ UNCHANGED <<input, errors>>
  BY DEF EndFields, Fields, Items
<1>2. item \in DOMAIN input.items /\ fld \in Nat
  BY <1>1 DEF IInv, TypeOK, Ranges, Items
<1>3. /\ DOMAIN input.items \subseteq Nat /\ item \in Nat
      /\ Len(input.items[item].fields) \in Nat
      /\ DOMAIN input.items[item].fields = 1..Len(input.items[item].fields)
  BY <1>2, InputItems
<1>4. errors = {} => ReadOk(input, item)
  <2>1. DOMAIN input.items[item].fields \subseteq 1..(fld - 1)
    BY <1>1, <1>2, <1>3
  <2>2. QED
    BY <2>1, <1>1 DEF Judged, Flawless, ReadOk
<1>5. \A i \in DOMAIN input.items : i < item + 1 => i < item \/ i = item
  BY <1>3
<1>6. errors = {} => \A i \in DOMAIN input.items : i < item + 1 => ReadOk(input, i)
  BY <1>1, <1>4, <1>5 DEF Judged, Flawless
<1>7. errors = {} => ~input.attrs
  BY <1>1 DEF Judged, Flawless
<1>8. QED
  BY <1>1, <1>6, <1>7 DEF Judged, Flawless, Blamed

LEMMA EndItemsJudged ==
  ASSUME IInv, Judged, EndItems
  PROVE  Judged'
<1>1. /\ stage = "item" /\ item > Len(input.items) /\ stage' = "emit" /\ item' = 1
      /\ UNCHANGED <<input, built, errors>>
  BY DEF EndItems, Items
<1>2. \A i \in DOMAIN input.items : i < item
  <2>1. item \in Nat
    BY DEF IInv, TypeOK
  <2>2. QED
    BY <2>1, <1>1, InputItems
<1>3. \A b \in DOMAIN built : ~(b < 1)
  BY DEF IInv, TypeOK
<1>4. QED
  BY <1>1, <1>2, <1>3 DEF Judged, Flawless, Blamed

LEMMA OwnIsMade ==
  ASSUME NEW x
  PROVE  MadeOf(x) = OwnDecoders(input, x)
BY DEF MadeOf, OwnDecoders, Items

LEMMA UnwrapsAre ==
  ASSUME NEW fields, NEW i, NEW m
  PROVE  m \in UnwrapsIn(fields, i) <=>
           \E f \in DOMAIN fields : \E k \in CountsAsRead(fields[f]) \ {0} :
             m = UnwrapOf(fields[f], i, f, k)
BY DEF UnwrapsIn

\* An item whose decoders are made is done with.
LEMMA ItemEmitted ==
  ASSUME IInv, Judged, stage \in {"emit", "children"}, item \in DOMAIN built,
         errors = {} => /\ EmitOk(input, built[item])
                        /\ Decoders(input, built[item]) \subseteq made',
         made \subseteq made',
         stage' = "emit", item' = item + 1, UNCHANGED <<input, built, errors>>
  PROVE  Judged'
<1>1. \A b \in DOMAIN built : b < item + 1 => b < item \/ b = item
  BY DEF IInv, TypeOK
<1>2. errors = {} => \A b \in DOMAIN built : b < item + 1 =>
        EmitOk(input, built[b]) /\ Decoders(input, built[b]) \subseteq made'
  BY <1>1 DEF Judged, Flawless
<1>3. QED
  BY <1>2 DEF Judged, Flawless, Blamed

LEMMA EmitNamedVariantJudged ==
  ASSUME IInv, Kept, Judged, EmitNamedVariant
  PROVE  Judged'
<1>1. /\ stage = "emit" /\ item <= Len(built) /\ built[item].kind = "Named" /\ stage' = "panic"
      /\ UNCHANGED <<input, item, built, errors>>
  BY DEF EmitNamedVariant
<1>2. item \in DOMAIN built
  BY <1>1 DEF IInv, TypeOK, Ranges
<1>3. input.kind = "enum" /\ input.items[built[item].item].shape = "named"
  BY <1>1, <1>2, BuiltIs, KindsTaken
<1>4. ~LegalAsRead(input)
  BY <1>2, <1>3, BuiltIs, BadOrder
<1>5. QED
  BY <1>1, <1>4 DEF Judged, Flawless

LEMMA EmitPlainJudged ==
  ASSUME IInv, Judged, EmitPlain
  PROVE  Judged'
<1>1. /\ stage = "emit" /\ item <= Len(built) /\ built[item].kind \in {"NewType", "Nested", "Unit"}
      /\ stage' = "emit" /\ item' = item + 1 /\ UNCHANGED <<input, built, errors>>
      /\ made' = made \cup OwnDecoders(input, built[item])
  BY OwnIsMade DEF EmitPlain
<1>2. item \in DOMAIN built
  BY <1>1 DEF IInv, TypeOK, Ranges
<1>3. EmitOk(input, built[item])
  BY <1>1 DEF EmitOk
<1>4. Decoders(input, built[item]) \subseteq made' /\ made \subseteq made'
  BY <1>1 DEF Decoders
<1>5. QED
  BY <1>1, <1>2, <1>3, <1>4, ItemEmitted

LEMMA EmitDecoderJudged ==
  ASSUME IInv, Kept, Judged, EmitDecoder
  PROVE  Judged'
<1>1. /\ stage = "children" /\ kids = <<>> /\ TupleFilled(built[item])
      /\ stage' = "emit" /\ item' = item + 1 /\ UNCHANGED <<input, built, errors>>
      /\ made' = made \cup OwnDecoders(input, built[item])
  BY OwnIsMade DEF EmitDecoder
<1>2. item \in DOMAIN built /\ built[item].kind \in {"Struct", "Tuple"}
  BY <1>1 DEF IInv, Ranges, Kept
<1>3. Among(kids) = {}
  BY <1>1 DEF Among
<1>4. errors = {} => \A f \in DOMAIN BuiltFields : UnwrapsOk(BuiltFields[f])
  BY <1>1, <1>3 DEF Judged, Flawless, KidsReachAll, UnwrapsOk
<1>5. errors = {} => EmitOk(input, built[item])
  BY <1>1, <1>2, <1>4 DEF EmitOk, TupleFilled, Items, BuiltFields
<1>6. ASSUME errors = {} PROVE UnwrapsIn(BuiltFields, built[item].item) \subseteq made
  <2>1. ASSUME NEW f \in DOMAIN BuiltFields, NEW k \in CountsAsRead(BuiltFields[f]) \ {0}
        PROVE  UnwrapOf(BuiltFields[f], built[item].item, f, k) \in made
    BY <1>1, <1>3, <1>6 DEF Judged, Flawless, KidsReachAll
  <2>2. QED
    BY <2>1, UnwrapsAre
<1>7. errors = {} => Decoders(input, built[item]) \subseteq made'
  BY <1>1, <1>2, <1>6 DEF Decoders, BuiltFields
<1>8. QED
  BY <1>1, <1>2, <1>5, <1>7, ItemEmitted

LEMMA AssertionFailsJudged ==
  ASSUME IInv, Kept, Judged, AssertionFails
  PROVE  Judged'
<1> DEFINE x == built[item]
           it == input.items[x.item]
<1>1. /\ stage = "children" /\ ~TupleFilled(x) /\ stage' = "panic"
      /\ UNCHANGED <<input, item, built, errors>>
  BY DEF AssertionFails
<1>2. item \in DOMAIN built /\ x.kind \in {"Struct", "Tuple"}
  BY <1>1 DEF IInv, Ranges, Kept
<1>3. /\ it \in Item /\ input \in Input /\ x.item \in DOMAIN input.items
      /\ "skip" \notin VariantAttrs(it)
      /\ x.obj \in Object /\ Within(x.obj, Len(it.fields)) /\ Exact(x.obj, it, Len(it.fields))
      /\ x.kind = KindOf(input, it, x.obj) /\ Takes(input, it)
  BY <1>2, BuiltIs
<1>4. it.shape = "tuple" /\ ~AllFilled(x.obj)
  BY <1>1 DEF TupleFilled, Items
<1> HIDE DEF x, it
<1>5. ~OnlyPayload(x.obj)
  <2>1. x.kind \notin {"NewType", "Nested"}
    BY <1>2
  <2>2. QED
    BY <2>1, <1>3, <1>4, KindsTaken
<1>6. ~LegalTupleAsRead(it)
  BY <1>3, <1>4, <1>5, LegalTupleMeans
<1>7. ~LegalAsRead(input)
  BY <1>3, <1>6, BadOrder DEF it
<1>8. QED
  BY <1>1, <1>7 DEF Judged, Flawless

LEMMA EndEmissionJudged ==
  ASSUME Judged, EndEmission
  PROVE  Judged'
<1>1. /\ stage = "emit" /\ item > Len(built) /\ stage' = "done"
      /\ UNCHANGED <<input, item, built, errors, made>>
  BY DEF EndEmission
<1>2. QED
  BY <1>1 DEF Judged, Flawless, Blamed

LEMMA BeginDecoderJudged ==
  ASSUME IInv, Kept, Judged, BeginDecoder
  PROVE  Judged'
<1> DEFINE x == built[item]
           it == input.items[x.item]
<1>1. /\ stage = "emit" /\ item <= Len(built) /\ x.kind \in {"Struct", "Tuple"}
      /\ kids' = Kids(x.obj) /\ stage' = "children"
      /\ UNCHANGED <<input, item, built, errors, made>>
  BY DEF BeginDecoder
<1>2. item \in DOMAIN built
  BY <1>1 DEF IInv, TypeOK, Ranges
<1>3. /\ it \in Item /\ x.item \in DOMAIN input.items /\ "skip" \notin VariantAttrs(it)
      /\ x.obj \in Object /\ Within(x.obj, Len(it.fields)) /\ Exact(x.obj, it, Len(it.fields))
      /\ Takes(input, it)
  BY <1>1, <1>2, BuiltIs
<1>4. /\ DOMAIN it.fields = 1..Len(it.fields)
      /\ \A f \in DOMAIN it.fields : it.fields[f] \in Decl /\ WellFormedDecl(it.fields[f])
  BY <1>3, InputItems
<1>5. BuiltFields' = it.fields
  BY <1>1 DEF BuiltFields
<1> HIDE DEF x, it
<1>6. /\ \A y \in Among(kids') :
           y.fld \in 1..Len(it.fields) /\ y.wrap = Child(it.fields[y.fld], 0)
      /\ \A f \in 1..Len(it.fields) :
           Child(it.fields[f], 0) # 0 => \E y \in Among(kids') : y.fld = f
  BY <1>1, <1>3, ItemKids
<1>7. KidsCount'
  <2>1. ASSUME NEW y \in Among(kids'), y.wrap # 0
        PROVE  y.wrap \in CountsAsRead(it.fields[y.fld])
    <3> DEFINE d == it.fields[y.fld]
    <3>1. d \in Decl /\ WellFormedDecl(d) /\ y.wrap = Child(d, 0)
      BY <1>4, <1>6
    <3>2. 0 \in CountsAsRead(d)
      BY <3>1, CountsUnfold, AttrTypes
    <3> HIDE DEF d
    <3>3. Child(d, 0) \in CountsAsRead(d)
      BY <2>1, <3>1, <3>2, ChildCounts
    <3>4. QED
      BY <3>1, <3>3 DEF d
  <2>2. QED
    BY <1>5, <2>1 DEF KidsCount
<1>8. ASSUME errors = {} PROVE KidsReachAll'
  <2>1. ReadOk(input, x.item)
    BY <1>1, <1>3, <1>8 DEF Judged, Flawless
  <2>2. \A f \in DOMAIN it.fields : FieldOk(it, f)
    BY <1>3, <2>1 DEF ReadOk, it
  <2>3. ASSUME NEW f \in DOMAIN it.fields, NEW k \in CountsAsRead(it.fields[f]) \ {0}
        PROVE  \E y \in Among(kids') : /\ y.fld = f /\ y.wrap # 0
                                       /\ k \in Under(it.fields[f], y.wrap)
    <3> DEFINE d == it.fields[f]
    <3>1. d \in Decl /\ f \in 1..Len(it.fields)
      BY <1>4
    <3>2. Proper(d)
      BY <2>2, <3>1, NoReadErrors DEF FieldOk
    <3>3. k \in CountsAsRead(d) /\ k # 0
      OBVIOUS
    <3> HIDE DEF d
    <3>4. Child(d, 0) # 0 /\ k \in Under(d, Child(d, 0))
      BY <3>1, <3>2, <3>3, CountsUnder
    <3>5. PICK y \in Among(kids') : y.fld = f
      BY <1>6, <3>1, <3>4 DEF d
    <3>6. y.wrap = Child(d, 0)
      BY <1>6, <3>5 DEF d
    <3>7. QED
      BY <3>4, <3>5, <3>6 DEF d
  <2>4. QED
    BY <1>5, <2>3 DEF KidsReachAll
<1>9. errors = {} => Flawless'
  BY <1>1, <1>8 DEF Judged, Flawless
<1>10. QED
  BY <1>1, <1>7, <1>9 DEF Judged, Blamed

\* A decoder goes on with other arms.
LEMMA GoOnJudged ==
  ASSUME Judged, stage = "children", stage' = "children", UNCHANGED <<input, item, built>>,
         made \subseteq made',
         Blamed' => ~LegalAsRead(input), errors' = {} => errors = {} /\ KidsReachAll', KidsCount'
  PROVE  Judged'
<1>1. errors' = {} => Flawless'
  BY DEF Judged, Flawless
<1>2. QED
  BY <1>1 DEF Judged

LEMMA EmitArmJudged ==
  ASSUME IInv, Judged, EmitArm
  PROVE  Judged'
<1>1. /\ stage = "children" /\ kids # <<>> /\ Head(kids).wrap = 0 /\ kids' = Tail(kids)
      /\ UNCHANGED <<input, stage, item, built, errors, made>>
  BY DEF EmitArm
<1>2. kids \in Seq(Entry)
  BY DEF IInv, TypeOK
<1>3. \A y : y \in Among(kids) <=> y = Head(kids) \/ y \in Among(kids')
  BY <1>1, <1>2, TailHas
<1>4. BuiltFields' = BuiltFields
  BY <1>1 DEF BuiltFields
<1>5. KidsCount'
  BY <1>1, <1>3, <1>4 DEF Judged, KidsCount
<1>6. errors = {} => KidsReachAll'
  <2>1. errors = {} => KidsReachAll
    BY <1>1 DEF Judged, Flawless
  <2>2. \A y \in Among(kids) : y.wrap # 0 => y \in Among(kids')
    BY <1>1, <1>3
  <2>3. built'[item'].item = built[item].item /\ made' = made
    BY <1>1
  <2>4. SUFFICES ASSUME errors = {},
                        NEW f \in DOMAIN BuiltFields, NEW k \in CountsAsRead(BuiltFields[f]) \ {0},
                        \/ DecodeErrors(BuiltFields[f], k, FALSE) # {}
                        \/ UnwrapOf(BuiltFields[f], built[item].item, f, k) \notin made
                 PROVE  \E y \in Among(kids') : /\ y.fld = f /\ y.wrap # 0
                                                /\ k \in Under(BuiltFields[f], y.wrap)
    BY <1>4, <2>3 DEF KidsReachAll
  <2>5. PICK y \in Among(kids) : /\ y.fld = f /\ y.wrap # 0
                                 /\ k \in Under(BuiltFields[f], y.wrap)
    BY <2>1, <2>4 DEF KidsReachAll
  <2>6. QED
    BY <2>2, <2>5
<1>7. Blamed' => ~LegalAsRead(input)
  BY <1>1 DEF Judged, Blamed
<1>8. QED
  BY <1>1, <1>5, <1>6, <1>7, GoOnJudged

LEMMA EmitUnwrapJudged ==
  ASSUME IInv, Kept, Judged, EmitUnwrap
  PROVE  Judged'
<1> DEFINE f == Head(kids).fld
           at == Head(kids).wrap
           of == built[item].item
           d == Items[of].fields[f]
           e == EntryOf(d, at, f, FALSE, FALSE)
           obj == Push(NoFields, Goes(ModeAt(d, at)), e)
           whys == DecodeErrors(d, at, FALSE)
<1>1. /\ errors' = errors \cup ErrorsAt(whys, of, f)
      /\ kids' = Kids(obj) \o Tail(kids)
      /\ made' = made \cup {UnwrapOf(d, of, f, at)}
      /\ kids # <<>> /\ at # 0
  BY Zenon DEF EmitUnwrap, UnwrapOf
<1>2. UNCHANGED <<input, item, built>> /\ stage = "children" /\ stage' = "children"
  BY UnwrapLeaves
<1>3. /\ kids \in Seq(Entry) /\ item \in DOMAIN built
      /\ \A j \in DOMAIN kids : kids[j].fld \in 1..Size(of)
  BY <1>2 DEF IInv, TypeOK, Ranges
<1>4. /\ \A y : y \in Among(kids) <=> y = Head(kids) \/ y \in Among(Tail(kids))
      /\ Tail(kids) \in Seq(Entry) /\ f \in 1..Size(of)
  BY <1>1, <1>3, TailHas, TailOf
<1>5. /\ of \in DOMAIN input.items /\ input.items[of] \in Item
      /\ "skip" \notin VariantAttrs(input.items[of]) /\ Items = input.items
      /\ f \in DOMAIN input.items[of].fields /\ d \in Decl /\ WellFormedDecl(d)
      /\ f \in Nat
  BY <1>3, <1>4, BuiltIs, InputItems
<1>6. BuiltFields' = BuiltFields /\ BuiltFields[f] = d /\ BuiltFields = input.items[of].fields
  BY <1>2, <1>5 DEF BuiltFields
<1>7. at \in CountsAsRead(d)
  <2>1. Head(kids) \in Among(kids)
    BY <1>4
  <2>2. QED
    BY <1>1, <1>2, <1>6, <2>1 DEF Judged, KidsCount
<1>8. Head(kids).fld = f /\ Head(kids).wrap = at
  OBVIOUS
<1> HIDE DEF f, at, of, d
<1>9. /\ Kids(obj) \in Seq(Entry) /\ e.fld = f /\ e.wrap = Child(d, at)
      /\ \A y \in Among(Kids(obj)) : y = e
      /\ Child(d, at) # 0 => e \in Among(Kids(obj))
  BY <1>5, UnwrapKids
<1> HIDE DEF e, obj
<1>10. \A y : y \in Among(kids') <=> y \in Among(Kids(obj)) \/ y \in Among(Tail(kids))
  <2>1. kids' = Joined(Kids(obj), Tail(kids))
    BY <1>1 DEF Joined
  <2>2. QED
    BY <1>4, <1>9, <2>1, JoinedHas
<1>11. at \in 1..Len(d.attrs)
  <2>1. at \in 0..Len(d.attrs) /\ Len(d.attrs) \in Nat
    BY <1>5, <1>7, CountsUnfold, AttrTypes
  <2>2. QED
    BY <2>1, <1>1
<1>12. whys # {} => ~LegalAsRead(input)
  <2>1. whys # {} => ~UnwrapsOk(d)
    BY <1>1, <1>7 DEF UnwrapsOk
  <2>2. d = input.items[of].fields[f]
    BY <1>6
  <2>3. QED
    BY <1>5, <2>1, <2>2, BadField
<1>13. whys = {} <=> DecodeErrors(d, at, FALSE) = {}
  OBVIOUS
<1> HIDE DEF whys
<1>14. /\ Blamed' => ~LegalAsRead(input')
       /\ errors' = {} => errors = {} /\ whys = {}
  BY <1>1, <1>2, <1>12, Blame
<1>15. KidsCount'
  <2>1. ASSUME NEW y \in Among(kids'), y.wrap # 0 PROVE y.wrap \in CountsAsRead(BuiltFields[y.fld])
    <3>1. CASE y \in Among(Kids(obj))
      <4>1. y.fld = f /\ y.wrap = Child(d, at)
        BY <1>9, <3>1
      <4>2. Child(d, at) \in CountsAsRead(d)
        BY <1>5, <1>7, <2>1, <4>1, ChildCounts
      <4>3. QED
        BY <1>6, <4>1, <4>2
    <3>2. CASE y \in Among(Tail(kids))
      BY <1>2, <1>4, <2>1, <3>2 DEF Judged, KidsCount
    <3>3. QED
      BY <1>10, <3>1, <3>2
  <2>2. QED
    BY <1>6, <2>1 DEF KidsCount
<1>16. ASSUME errors' = {} PROVE KidsReachAll'
  <2>1. ASSUME NEW g \in DOMAIN BuiltFields, NEW k \in CountsAsRead(BuiltFields[g]) \ {0},
               \/ DecodeErrors(BuiltFields[g], k, FALSE) # {}
               \/ UnwrapOf(BuiltFields[g], of, g, k) \notin made'
        PROVE  \E y \in Among(kids') : /\ y.fld = g /\ y.wrap # 0
                                       /\ k \in Under(BuiltFields[g], y.wrap)
    <3>1. PICK y \in Among(kids) : /\ y.fld = g /\ y.wrap # 0
                                   /\ k \in Under(BuiltFields[g], y.wrap)
      <4>1. KidsReachAll
        BY <1>2, <1>14, <1>16 DEF Judged, Flawless
      <4>2. \/ DecodeErrors(BuiltFields[g], k, FALSE) # {}
            \/ UnwrapOf(BuiltFields[g], of, g, k) \notin made
        BY <1>1, <2>1
      <4>3. QED
        BY <4>1, <4>2 DEF KidsReachAll, of
    <3>2. CASE y \in Among(Tail(kids))
      BY <1>10, <3>1, <3>2
    <3>3. CASE y = Head(kids)
      <4>1. g = f /\ k \in Under(d, at)
        BY <1>6, <1>8, <3>1, <3>3
      <4>2. k # at
        BY <1>1, <1>6, <1>13, <1>14, <1>16, <2>1, <4>1
      <4>3. Child(d, at) # 0 /\ k \in Under(d, Child(d, at))
        BY <1>5, <1>11, <4>1, <4>2, UnderStep
      <4>4. e \in Among(kids') /\ e.fld = g /\ e.wrap = Child(d, at)
        BY <1>9, <1>10, <4>1, <4>3
      <4>5. QED
        BY <1>6, <4>1, <4>3, <4>4
    <3>4. QED
      BY <1>4, <3>1, <3>2, <3>3
  <2>2. built'[item'].item = of
    BY <1>2 DEF of
  <2>3. QED
    BY <1>6, <2>1, <2>2 DEF KidsReachAll
<1>17. QED
  BY <1>1, <1>2, <1>14, <1>15, <1>16, GoOnJudged

LEMMA InitJudged == Init => Judged
BY DEF Init, Judged, Blamed, Flawless

LEMMA StepJudged ==
  ASSUME IInv, Kept, Judged, [Next]_vars
  PROVE  Judged'
<1>1. ASSUME UNCHANGED vars PROVE Judged'
  <2>1. /\ UNCHANGED <<input, stage, item, fld, built, errors, kids, made>>
        /\ BuiltFields' = BuiltFields
    BY <1>1 DEF vars, BuiltFields
  <2>2. KidsCount' <=> KidsCount
    BY <2>1 DEF KidsCount
  <2>3. KidsReachAll' <=> KidsReachAll
    BY <2>1 DEF KidsReachAll
  <2>4. Flawless' <=> Flawless
    BY <2>1, <2>3 DEF Flawless
  <2>5. QED
    BY <2>1, <2>2, <2>4 DEF Judged, Blamed
<1>2. QED
  BY <1>1, ReadContainerJudged, SkipVariantJudged, ReadPlainVariantJudged, BeginFieldsJudged,
     AddFieldJudged, RefuseFieldJudged, EndFieldsJudged, EndItemsJudged,
     EmitNamedVariantJudged, EmitPlainJudged, BeginDecoderJudged, EmitArmJudged,
     EmitUnwrapJudged, EmitDecoderJudged, AssertionFailsJudged, EndEmissionJudged
     DEF Next

----------------------------------------------------------------------------
\* At the end

\* A field that takes nothing of a node's children unwraps nothing.
LEMMA NoChildNoUnwraps ==
  ASSUME NEW d \in Decl, Proper(d), Goes(ModeAt(d, 0)) \subseteq {"extra"}
  PROVE  UnwrapsOk(d)
<1>1. ModeAt(d, 0).m \notin {"child", "children"}
  <2>1. SUFFICES ASSUME ModeAt(d, 0).m \in {"child", "children"} PROVE FALSE
    OBVIOUS
  <2>2. PICK s \in {"child", "children"} : s \in Goes(ModeAt(d, 0))
    BY <2>1, ChildGoes
  <2>3. QED
    BY <2>2
<1>2. Child(d, 0) = 0
  BY <1>1 DEF Child
<1>3. \A k \in CountsAsRead(d) : k = 0
  BY <1>2, CountsUnder
<1>4. QED
  BY <1>3 DEF UnwrapsOk

\* The fields of an item that is no more than its payload.
LEMMA PayloadUnwraps ==
  ASSUME NEW it \in Item, NEW obj \in Object,
         Exact(obj, it, Len(it.fields)), Within(obj, Len(it.fields)), OnlyPayload(obj),
         NEW f \in DOMAIN it.fields
  PROVE  Goes(ModeAt(it.fields[f], 0)) \subseteq {"extra"}
<1>1. PICK g \in Filled(it) : Filled(it) = {g} /\ ModesOf(it)[g].m = "none"
  BY OnlyPayloadMeans
<1>2. /\ ModesOf(it)[f] = ModeAt(it.fields[f], 0) /\ ModesOf(it)[f] \in Mode
      /\ ModesOf(it)[f].of \subseteq {"child", "property"}
  BY FieldTypes
<1>3. CASE f = g
  BY <1>1, <1>2, <1>3 DEF Goes
<1>4. CASE f # g
  <2>1. Unfilled(ModesOf(it)[f])
    <3>1. f \notin Filled(it)
      BY <1>1, <1>4
    <3>2. QED
      BY <3>1 DEF Filled
  <2>2. Goes(ModesOf(it)[f]) = {}
    BY <1>2, <2>1, GoesNowhere
  <2>3. QED
    BY <1>2, <2>2
<1>5. QED
  BY <1>3, <1>4

\* An item that is built, and whose decoders are made, keeps the rules.
LEMMA EmittedIsLegal ==
  ASSUME IInv, Kept, NEW b \in DOMAIN built,
         ReadOk(input, built[b].item), EmitOk(input, built[b])
  PROVE  LegalItemAsRead(input, input.items[built[b].item])
<1> DEFINE x == built[b]
           it == input.items[x.item]
<1>1. /\ x.item \in DOMAIN input.items /\ it \in Item /\ input \in Input
      /\ "skip" \notin VariantAttrs(it)
      /\ x.obj \in Object /\ Within(x.obj, Len(it.fields))
      /\ x.kind = KindOf(input, it, x.obj)
      /\ Takes(input, it) => Exact(x.obj, it, Len(it.fields))
  BY BuiltIs
<1>2. VariantErrors(it) = {}
  BY DEF ReadOk
<1>3. x.kind # "Named"
  BY DEF EmitOk
<1>4. input.kind = "enum" => it.shape # "named"
  BY <1>1, <1>3, KindsTaken
<1>5. OnlyBefore(x.obj)
  BY DEF IInv, CatchAllComesLast, BuiltOnlyBefore
<1>6. \A f \in DOMAIN it.fields : it.fields[f] \in Decl
  BY <1>1, InputItems
<1>7. ASSUME Takes(input, it), NEW f \in DOMAIN it.fields
      PROVE  LegalDeclAsRead(it.fields[f], it.shape = "named")
  <2>1. FieldOk(it, f)
    BY <1>1, <1>7 DEF ReadOk
  <2>2. UnwrapsOk(it.fields[f])
    <3>1. CASE x.kind \in {"Struct", "Tuple"}
      BY <3>1 DEF EmitOk
    <3>2. CASE x.kind \in {"NewType", "Nested"}
      <4>1. OnlyPayload(x.obj)
        BY <1>1, <3>2, KindsTaken
      <4>2. Goes(ModeAt(it.fields[f], 0)) \subseteq {"extra"}
        <5> HIDE DEF x, it
        <5>1. QED
          BY <1>1, <1>7, <4>1, PayloadUnwraps
      <4>3. Proper(it.fields[f])
        BY <1>6, <2>1, NoReadErrors DEF FieldOk
      <4>4. QED
        BY <1>6, <4>2, <4>3, NoChildNoUnwraps
    <3>3. x.kind \in {"Struct", "Tuple", "NewType", "Nested"}
      BY <1>1, <1>7, KindsTaken
    <3>4. QED
      BY <3>1, <3>2, <3>3
  <2>3. QED
    BY <1>1, <2>1, <2>2, LegalIsOk
<1>8. Takes(input, it) => LegalTupleAsRead(it)
  <2>1. SUFFICES ASSUME Takes(input, it), it.shape = "tuple" PROVE LegalTupleAsRead(it)
    BY DEF LegalTupleAsRead
  <2>2. OnlyPayload(x.obj) \/ AllFilled(x.obj)
    <3>1. x.kind \in {"Struct", "Tuple"} => AllFilled(x.obj)
      BY <2>1 DEF EmitOk
    <3>2. x.kind \in {"NewType", "Nested"} => OnlyPayload(x.obj)
      BY <1>1, KindsTaken
    <3>3. x.kind \in {"Struct", "Tuple", "NewType", "Nested"}
      BY <1>1, <2>1, KindsTaken
    <3>4. QED
      BY <3>1, <3>2, <3>3
  <2> HIDE DEF x, it
  <2>3. QED
    BY <1>1, <2>1, <2>2, LegalTupleMeans
<1>9. Takes(input, it) => LegalOrderAsRead(it)
  <2> HIDE DEF x, it
  <2>1. QED
    BY <1>1, <1>5, OnlyBeforeIsInOrder
<1>10. CASE Takes(input, it)
  BY <1>2, <1>4, <1>7, <1>8, <1>9, <1>10 DEF LegalItemAsRead
<1>11. CASE ~Takes(input, it)
  <2>1. input.kind = "enum" /\ it.shape = "unit"
    BY <1>1, <1>4, <1>11 DEF Takes, Input, Item
  <2>2. it.fields = <<>>
    BY <1>1, <2>1 DEF IInv, TypeOK, WellFormedInput
  <2>3. DOMAIN it.fields = {}
    BY <2>2
  <2>4. LegalOrderAsRead(it) /\ LegalTupleAsRead(it)
    BY <2>1, <2>3 DEF LegalOrderAsRead, LegalTupleAsRead
  <2>5. QED
    BY <1>2, <1>4, <2>3, <2>4 DEF LegalItemAsRead
<1>12. QED
  BY <1>10, <1>11

LEMMA JudgedIsAccepted ==
  ASSUME IInv, Kept, Judged
  PROVE  stage \in {"done", "failed", "panic"} => (Accepted <=> LegalAsRead(input))
<1>1. Blamed => ~LegalAsRead(input)
  BY DEF Judged
<1>2. ASSUME stage = "done", errors = {} PROVE LegalAsRead(input)
  <2>1. /\ ~input.attrs /\ \A i \in DOMAIN input.items : ReadOk(input, i)
        /\ \A b \in DOMAIN built : EmitOk(input, built[b])
    <3>1. /\ ~input.attrs /\ \A i \in DOMAIN input.items : ReadOk(input, i)
          /\ \A b \in DOMAIN built : b < item => EmitOk(input, built[b])
          /\ item > Len(built)
      BY <1>2 DEF Judged, Flawless
    <3>2. \A b \in DOMAIN built : b < item
      BY <3>1 DEF IInv, TypeOK
    <3>3. QED
      BY <3>1, <3>2
  <2>2. ASSUME NEW i \in DOMAIN input.items PROVE LegalItemAsRead(input, input.items[i])
    <3>1. i \in ItemsBuilt \/ Skipped(i)
      BY <1>2 DEF Kept, Items
    <3>2. CASE Skipped(i)
      BY <2>1, <3>2 DEF Skipped, Items, LegalItemAsRead, ReadOk
    <3>3. CASE i \in ItemsBuilt
      <4>1. PICK b \in DOMAIN built : built[b].item = i
        BY <3>3 DEF ItemsBuilt
      <4>2. QED
        BY <2>1, <4>1, EmittedIsLegal
    <3>4. QED
      BY <3>1, <3>2, <3>3
  <2>3. QED
    BY <2>1, <2>2 DEF LegalAsRead
<1>3. QED
  BY <1>1, <1>2 DEF Accepted, Blamed

----------------------------------------------------------------------------
\* What is written and what is read

\* With one readable attribute of a kind at most, what is written is what is
\* read, at every level.
LEMMA WrittenIsRead ==
  ASSUME NEW d \in Decl, Proper(d), NEW k
  PROVE  /\ \A kind : Written(d, k, kind) = OfKind(d, k, kind)
         /\ WrittenMode(d, k) = ModeAt(d, k)
<1>1. ASSUME NEW kind PROVE Written(d, k, kind) = OfKind(d, k, kind)
  BY AllReadable DEF Written, OfKind
<1>2. CASE OfKind(d, k, "mode") = {}
  BY <1>1, <1>2 DEF WrittenMode, ModeAt
<1>3. CASE OfKind(d, k, "mode") # {}
  <2>1. Latest(d, k, "mode") \in OfKind(d, k, "mode")
    BY <1>3, LatestIsOne
  <2>2. \A j \in OfKind(d, k, "mode") : j = Latest(d, k, "mode")
    BY <2>1 DEF OfKind, Proper
  <2>3. Written(d, k, "mode") # {} /\ \A j \in Written(d, k, "mode") : j = Latest(d, k, "mode")
    BY <1>1, <1>3, <2>2
  <2>4. (CHOOSE j \in Written(d, k, "mode") : TRUE) = Latest(d, k, "mode")
    BY <2>3
  <2>5. WrittenMode(d, k) = ModeAt(d, k)
    BY <1>3, <2>3, <2>4 DEF WrittenMode, ModeAt
  <2>6. QED
    BY <1>1, <2>5
<1>4. QED
  BY <1>1, <1>2, <1>3

LEMMA CountedAsRead ==
  ASSUME NEW d \in Decl, Proper(d)
  PROVE  Counts(d) = CountsAsRead(d)
<1>1. \A k : WrittenMode(d, k) = ModeAt(d, k)
  BY WrittenIsRead
<1>2. QED
  BY <1>1 DEF Counts, CountsAsRead, ReadModes

\* The rules of a field with what is supported of it.
LEMMA DeclAsRead ==
  ASSUME NEW d \in Decl, NEW named \in BOOLEAN
  PROVE  LegalDecl(d, named) /\ SupportedDecl(d) <=> LegalDeclAsRead(d, named)
<1> DEFINE Listed2 == \A j \in DOMAIN d.attrs : d.attrs[j].mode.of \subseteq {"child", "property"}
           Once == \A j \in DOMAIN d.attrs :
                     /\ d.attrs[j].kind \notin {"garbage", "skip"}
                     /\ Written(d, d.attrs[j].in, d.attrs[j].kind) = {j}
<1>1. LegalDecl(d, named) /\ SupportedDecl(d) => Once /\ Listed2
  BY DEF LegalDecl, SupportedDecl
<1>2. LegalDeclAsRead(d, named) => Proper(d)
  BY DEF LegalDeclAsRead, Proper
<1>3. Once /\ Listed2 <=> Proper(d)
  <2>1. ASSUME Once, Listed2 PROVE Proper(d)
    BY <2>1 DEF Proper, Parses, Written
  <2>2. ASSUME Proper(d) PROVE Once /\ Listed2
    <3>1. Listed2 /\ \A j \in DOMAIN d.attrs : d.attrs[j].kind \notin {"garbage", "skip"}
      BY <2>2 DEF Proper, Parses
    <3>2. \A j \in DOMAIN d.attrs : Written(d, d.attrs[j].in, d.attrs[j].kind) = {j}
      BY <2>2 DEF Proper, Written
    <3>3. QED
      BY <3>1, <3>2
  <2>3. QED
    BY <2>1, <2>2
<1>4. ASSUME Proper(d)
      PROVE  LegalDecl(d, named) /\ SupportedDecl(d) <=> LegalDeclAsRead(d, named)
  <2>1. Once /\ Listed2
    BY <1>3, <1>4
  <2>2. /\ Counts(d) = CountsAsRead(d)
        /\ \A k : WrittenMode(d, k) = ModeAt(d, k)
        /\ \A k : Written(d, k, "decode") = OfKind(d, k, "decode")
    BY <1>4, WrittenIsRead, CountedAsRead
  <2> DEFINE Tame == \A k \in CountsAsRead(d) :
                       OfKind(d, k, "decode") # {} =>
                         ModeAt(d, k).m \in {"none", "argument", "arguments", "property", "properties"}
             Goes2 == /\ ModeAt(d, 0).m = "child" => named
                      /\ ModeAt(d, 0).m = "property" => named \/ ModeAt(d, 0).name
             Whole == ModeAt(d, 0).m = "flatten" => d.ty # "Option"
  <2>3. LegalDecl(d, named) <=> Once /\ Tame /\ Goes2
    BY <2>2 DEF LegalDecl
  <2>4. SupportedDecl(d) <=> Listed2 /\ Whole
    BY <2>2 DEF SupportedDecl
  <2>5. LegalDeclAsRead(d, named) <=> Tame /\ Goes2 /\ Whole
    BY <1>4 DEF LegalDeclAsRead, Proper
  <2>6. QED
    BY <2>1, <2>3, <2>4, <2>5
<1>5. QED
  BY <1>1, <1>2, <1>3, <1>4

\* The attributes of a variant.
LEMMA VariantAsRead ==
  ASSUME NEW it \in Item
  PROVE  /\ VariantErrors(it) = {} <=> \A g \in DOMAIN it.attrs : it.attrs[g] \subseteq {"skip"}
         /\ VariantErrors(it) = {} => ("skip" \in VariantAttrs(it) <=> Skips(it))
<1>1. \A g \in DOMAIN it.attrs : it.attrs[g] \in SUBSET {"skip", "field", "garbage"}
  BY DEF Item
<1>2. VariantErrors(it) = {} <=>
        /\ \A g \in DOMAIN it.attrs : "garbage" \notin it.attrs[g]
        /\ "field" \notin VariantAttrs(it)
  <2>1. "unreadable" \in VariantErrors(it) <=> \E g \in DOMAIN it.attrs : "garbage" \in it.attrs[g]
    BY DEF VariantErrors
  <2>2. "unsupported" \in VariantErrors(it) <=> "field" \in VariantAttrs(it)
    BY DEF VariantErrors
  <2>3. VariantErrors(it) \subseteq {"unreadable", "unsupported"}
    BY DEF VariantErrors
  <2>4. QED
    BY <2>1, <2>2, <2>3
<1>3. ASSUME \A g \in DOMAIN it.attrs : "garbage" \notin it.attrs[g]
      PROVE  \A w : w \in VariantAttrs(it) <=> \E g \in DOMAIN it.attrs : w \in it.attrs[g]
  BY <1>3 DEF VariantAttrs
<1>4. VariantErrors(it) = {} <=> \A g \in DOMAIN it.attrs : it.attrs[g] \subseteq {"skip"}
  BY <1>1, <1>2, <1>3
<1>5. QED
  BY <1>2, <1>3, <1>4 DEF Skips

\* The rules of an item, if its fields have nothing that is not read.
LEMMA ModesAsRead ==
  ASSUME NEW it \in Item, \A f \in DOMAIN it.fields : Proper(it.fields[f])
  PROVE  WrittenModes(it) = ModesOf(it)
<1>1. \A f \in DOMAIN it.fields : WrittenMode(it.fields[f], 0) = ModeAt(it.fields[f], 0)
  BY FieldTypes, WrittenIsRead
<1>2. QED
  BY <1>1 DEF WrittenModes, ModesOf

LEMMA ItemAsRead ==
  ASSUME NEW inp, NEW it \in Item
  PROVE  LegalItem(inp, it) /\ SupportedItem(it) <=> LegalItemAsRead(inp, it)
<1> DEFINE named == it.shape = "named"
           Clean == VariantErrors(it) = {}
           Plain == inp.kind = "enum" => it.shape # "named"
           DeclsW == \A f \in DOMAIN it.fields : LegalDecl(it.fields[f], named)
           DeclsS == \A f \in DOMAIN it.fields : SupportedDecl(it.fields[f])
           DeclsR == \A f \in DOMAIN it.fields : LegalDeclAsRead(it.fields[f], named)
<1>1. LegalItem(inp, it) <=> Clean /\ (Skips(it) \/ (Plain /\ DeclsW /\ LegalOrder(it)))
  BY VariantAsRead DEF LegalItem
<1>2. SupportedItem(it) <=> Skips(it) \/ (DeclsS /\ CountedRight(it))
  BY DEF SupportedItem
<1>3. LegalItemAsRead(inp, it) <=>
        Clean /\ (Skips(it) \/ (Plain /\ DeclsR /\ LegalOrderAsRead(it) /\ LegalTupleAsRead(it)))
  BY VariantAsRead DEF LegalItemAsRead
<1>4. DeclsW /\ DeclsS <=> DeclsR
  BY FieldTypes, DeclAsRead
<1>5. ASSUME DeclsR
      PROVE  /\ LegalOrder(it) <=> LegalOrderAsRead(it)
             /\ CountedRight(it) <=> LegalTupleAsRead(it)
  <2>1. \A f \in DOMAIN it.fields : Proper(it.fields[f])
    BY <1>5 DEF LegalDeclAsRead, Proper
  <2>2. WrittenModes(it) = ModesOf(it)
    BY <2>1, ModesAsRead
  <2>3. QED
    BY <2>2 DEF LegalOrder, LegalOrderAsRead, CountedRight, LegalTupleAsRead
<1> HIDE DEF Clean, Plain, DeclsW, DeclsS, DeclsR
<1>6. QED
  BY <1>1, <1>2, <1>3, <1>4, <1>5

LEMMA InputAsRead ==
  ASSUME IInv
  PROVE  Legal(input) /\ Supported(input) <=> LegalAsRead(input)
<1>1. \A i \in DOMAIN input.items :
        LegalItem(input, input.items[i]) /\ SupportedItem(input.items[i]) <=>
          LegalItemAsRead(input, input.items[i])
  BY InputItems, ItemAsRead
<1>2. QED
  BY <1>1 DEF Legal, Supported, LegalAsRead

\* The derive goes through exactly for the declarations that keep the rules and
\* have nothing that it does not support, whatever the declarations, however
\* many, and however deep their unwraps.
THEOREM AcceptsTheLegal == Spec => []AcceptsTheLegalItSupports
<1>1. Init => Kept /\ Judged
  BY InitKept, InitJudged
<1>2. IInv /\ (Kept /\ Judged) /\ [Next]_vars => (Kept /\ Judged)'
  BY StepKept, StepJudged
<1>3. IInv /\ (Kept /\ Judged) => AcceptsTheLegalItSupports
  BY JudgedIsAccepted, InputAsRead DEF AcceptsTheLegalItSupports
<1>4. QED
  BY <1>1, <1>2, <1>3, AlwaysIInv, PTL DEF Spec

----------------------------------------------------------------------------
\* What is made

\* Nothing is generated before everything is read, and no other decoders than
\* those of the items.
MadeSound == \A m \in made : \E b \in DOMAIN built : m \in Decoders(input, built[b])
MadeForItems ==
  /\ stage \in {"container", "item", "fields"} => made = {}
  /\ MadeSound

LEMMA OwnIsSound ==
  ASSUME IInv, MadeForItems, stage \in {"emit", "children"}, item \in DOMAIN built,
         made' = made \cup OwnDecoders(input, built[item]), stage' = "emit",
         UNCHANGED <<input, built>>
  PROVE  MadeForItems'
<1>1. OwnDecoders(input, built[item]) \subseteq Decoders(input, built[item])
  BY DEF Decoders
<1>2. QED
  BY <1>1 DEF MadeForItems, MadeSound

LEMMA EmitUnwrapSound ==
  ASSUME IInv, Kept, Judged, MadeForItems, EmitUnwrap
  PROVE  MadeForItems'
<1> DEFINE f == Head(kids).fld
           at == Head(kids).wrap
           of == built[item].item
           d == Items[of].fields[f]
<1>1. made' = made \cup {UnwrapOf(d, of, f, at)} /\ kids # <<>> /\ at # 0
  BY Zenon DEF EmitUnwrap, UnwrapOf
<1>2. UNCHANGED <<input, item, built>> /\ stage = "children" /\ stage' = "children"
  BY UnwrapLeaves
<1>3. /\ kids \in Seq(Entry) /\ item \in DOMAIN built
      /\ built[item].kind \in {"Struct", "Tuple"}
      /\ \A j \in DOMAIN kids : kids[j].fld \in 1..Size(of)
  BY <1>2 DEF IInv, TypeOK, Ranges, Kept
<1>4. Head(kids) \in Among(kids) /\ f \in 1..Size(of)
  <2>1. 1 \in DOMAIN kids /\ Head(kids) = kids[1]
    BY <1>1, <1>3, TailOf
  <2>2. QED
    BY <1>3, <2>1 DEF Among
<1>5. BuiltFields = Items[of].fields /\ f \in DOMAIN BuiltFields /\ d = BuiltFields[f]
  <2>1. of \in DOMAIN input.items /\ Items = input.items
    BY <1>3, BuiltIs, InputItems
  <2>2. f \in DOMAIN input.items[of].fields
    BY <1>4, <2>1, InputItems
  <2>3. QED
    BY <2>1, <2>2 DEF BuiltFields
<1>6. at \in CountsAsRead(d) \ {0}
  BY <1>1, <1>2, <1>4, <1>5 DEF Judged, KidsCount
<1> HIDE DEF d, at, f
<1>7. UnwrapOf(d, of, f, at) \in UnwrapsIn(BuiltFields, of)
  BY <1>5, <1>6, UnwrapsAre
<1>8. UnwrapOf(d, of, f, at) \in Decoders(input, built[item])
  BY <1>3, <1>7 DEF Decoders, BuiltFields
<1>9. QED
  BY <1>1, <1>2, <1>3, <1>8 DEF MadeForItems, MadeSound

LEMMA InitMadeForItems == Init => MadeForItems
BY DEF Init, MadeForItems, MadeSound

LEMMA StepMadeForItems ==
  ASSUME IInv, Kept, Judged, MadeForItems, [Next]_vars
  PROVE  MadeForItems'
<1>1. CASE stage \in {"container", "item", "fields"} /\ UNCHANGED made
  BY <1>1 DEF MadeForItems, MadeSound
<1>2. CASE UNCHANGED <<input, built, made>> /\ stage' \notin {"container", "item", "fields"}
  BY <1>2 DEF MadeForItems, MadeSound
<1>3. CASE ReadContainer \/ SkipVariant \/ ReadPlainVariant \/ BeginFields
  BY <1>1, <1>3 DEF ReadContainer, SkipVariant, ReadPlainVariant, BeginFields
<1>4. CASE AddField \/ RefuseField \/ EndFields \/ EndItems
  BY <1>1, <1>4 DEF AddField, RefuseField, EndFields, EndItems
<1>5. CASE EmitNamedVariant \/ BeginDecoder \/ EmitArm \/ AssertionFails \/ EndEmission
  BY <1>2, <1>5 DEF EmitNamedVariant, BeginDecoder, EmitArm, AssertionFails, EndEmission
<1>6. CASE EmitPlain
  <2>1. item \in DOMAIN built
    BY <1>6 DEF EmitPlain, IInv, TypeOK, Ranges
  <2>2. QED
    BY <1>6, <2>1, OwnIsSound, OwnIsMade DEF EmitPlain
<1>7. CASE EmitDecoder
  <2>1. item \in DOMAIN built
    BY <1>7 DEF EmitDecoder, IInv, Ranges
  <2>2. QED
    BY <1>7, <2>1, OwnIsSound, OwnIsMade DEF EmitDecoder
<1>8. CASE EmitUnwrap
  BY <1>8, EmitUnwrapSound
<1>9. CASE UNCHANGED vars
  BY <1>9 DEF vars, MadeForItems, MadeSound
<1>10. QED
  BY <1>3, <1>4, <1>5, <1>6, <1>7, <1>8, <1>9 DEF Next

\* What was made of an item.
LEMMA DecodersAreItsOwn ==
  ASSUME NEW inp, NEW x, NEW m \in Decoders(inp, x)
  PROVE  m.item = x.item
<1>1. CASE m \in OwnDecoders(inp, x)
  BY <1>1 DEF OwnDecoders
<1>2. CASE m \in UnwrapsIn(inp.items[x.item].fields, x.item)
  <2>1. PICK f \in DOMAIN inp.items[x.item].fields :
               \E k \in CountsAsRead(inp.items[x.item].fields[f]) \ {0} :
                 m = UnwrapOf(inp.items[x.item].fields[f], x.item, f, k)
    BY <1>2, Zenon DEF UnwrapsIn
  <2>2. PICK k : m = UnwrapOf(inp.items[x.item].fields[f], x.item, f, k)
    BY <2>1
  <2>3. QED
    BY <2>2 DEF UnwrapOf
<1>3. QED
  BY <1>1, <1>2 DEF Decoders

LEMMA MadeAtTheEnd ==
  ASSUME IInv, Judged, MadeForItems, Accepted
  PROVE  made = UNION {Decoders(input, built[b]) : b \in DOMAIN built}
<1>1. \A b \in DOMAIN built : Decoders(input, built[b]) \subseteq made
  <2>1. /\ \A b \in DOMAIN built : b < item => Decoders(input, built[b]) \subseteq made
        /\ item > Len(built)
    BY DEF Accepted, Judged, Flawless
  <2>2. \A b \in DOMAIN built : b < item
    BY <2>1 DEF IInv, TypeOK
  <2>3. QED
    BY <2>1, <2>2
<1>2. \A m \in made : \E b \in DOMAIN built : m \in Decoders(input, built[b])
  BY DEF MadeForItems, MadeSound
<1>3. QED
  BY <1>1, <1>2

LEMMA MadeOfItem ==
  ASSUME IInv, Kept, Judged, MadeForItems, Accepted, NEW b \in DOMAIN built, NEW m
  PROVE  m \in made /\ m.item = built[b].item <=> m \in Decoders(input, built[b])
<1>1. made = UNION {Decoders(input, built[c]) : c \in DOMAIN built}
  BY MadeAtTheEnd
<1>2. ASSUME m \in made, m.item = built[b].item PROVE m \in Decoders(input, built[b])
  <2>1. PICK c \in DOMAIN built : m \in Decoders(input, built[c])
    BY <1>1, <1>2
  <2>2. built[c].item = built[b].item
    BY <1>2, <2>1, DecodersAreItsOwn
  <2>3. built[b].item \in Nat /\ b \in Nat /\ c \in Nat
    <3>1. built[b] \in BuiltItem /\ b \in Nat /\ c \in Nat
      BY ElementOf DEF IInv, TypeOK
    <3>2. QED
      BY <3>1 DEF BuiltItem
  <2>4. ~(b < c) /\ ~(c < b)
    BY <2>2, <2>3 DEF Kept, BuiltAscends
  <2>5. b = c
    BY <2>3, <2>4
  <2>6. QED
    BY <2>1, <2>5
<1>3. ASSUME m \in Decoders(input, built[b]) PROVE m \in made /\ m.item = built[b].item
  BY <1>1, <1>3, DecodersAreItsOwn
<1>4. QED
  BY <1>2, <1>3

----------------------------------------------------------------------------
\* Which decoders bind their fields

\* A field that stands in one place, of one of the sections D.
DeclaredOnce(obj, D, f) ==
  \E p \in Places(obj, D) : \A q \in Places(obj, Section) : FldAt(obj, q) = f <=> q = p
Single(mode, D) == \E s \in D : Goes(mode) = {s}

LEMMA DeclaredOnceMeans ==
  ASSUME NEW obj, NEW f, NEW D \in SUBSET Section,
         \A s \in Section : \A j, h \in DOMAIN obj[s] :
           obj[s][j].fld = obj[s][h].fld => j = h
  PROVE  DeclaredOnce(obj, D, f) <=> \E s \in D : Holders(obj, f) = {s}
<1>1. \A E \in SUBSET Section : \A p : p \in Places(obj, E) <=>
        \E s \in E : \E j \in DOMAIN obj[s] : p = <<s, j>>
  BY DEF Places
<1>2. \A s, j : FldAt(obj, <<s, j>>) = obj[s][j].fld
  BY DEF FldAt
<1>3. \A s : s \in Holders(obj, f) <=> s \in Section /\ \E j \in DOMAIN obj[s] : obj[s][j].fld = f
  BY DEF Holders
<1>4. ASSUME NEW p \in Places(obj, D),
             \A q \in Places(obj, Section) : FldAt(obj, q) = f <=> q = p
      PROVE  \E s \in D : Holders(obj, f) = {s}
  <2>1. PICK s \in D : \E j \in DOMAIN obj[s] : p = <<s, j>>
    BY <1>1
  <2>2. PICK j \in DOMAIN obj[s] : p = <<s, j>>
    BY <2>1
  <2>3. p \in Places(obj, Section) /\ obj[s][j].fld = f
    <3>1. p \in Places(obj, Section)
      BY <1>1, <2>1
    <3>2. QED
      BY <1>2, <1>4, <2>2, <3>1
  <2>4. s \in Holders(obj, f)
    BY <1>3, <2>3
  <2>5. ASSUME NEW t \in Holders(obj, f) PROVE t = s
    <3>1. PICK h \in DOMAIN obj[t] : t \in Section /\ obj[t][h].fld = f
      BY <1>3
    <3>2. <<t, h>> \in Places(obj, Section) /\ FldAt(obj, <<t, h>>) = f
      BY <1>1, <1>2, <3>1
    <3>3. <<t, h>> = p
      BY <1>4, <3>2
    <3>4. QED
      BY <2>2, <3>3
  <2>6. QED
    BY <2>4, <2>5
<1>5. ASSUME NEW s \in D, Holders(obj, f) = {s}
      PROVE  DeclaredOnce(obj, D, f)
  <2>1. PICK j \in DOMAIN obj[s] : obj[s][j].fld = f
    BY <1>3, <1>5
  <2>2. <<s, j>> \in Places(obj, D)
    BY <1>1
  <2>3. ASSUME NEW q \in Places(obj, Section) PROVE FldAt(obj, q) = f <=> q = <<s, j>>
    <3>1. PICK t \in Section : \E h \in DOMAIN obj[t] : q = <<t, h>>
      BY <1>1
    <3>2. PICK h \in DOMAIN obj[t] : q = <<t, h>>
      BY <3>1
    <3>3. FldAt(obj, q) = obj[t][h].fld
      BY <1>2, <3>2
    <3>4. ASSUME obj[t][h].fld = f PROVE q = <<s, j>>
      <4>1. t = s
        BY <1>3, <1>5, <3>4
      <4>2. h = j
        BY <2>1, <3>4, <4>1
      <4>3. QED
        BY <3>2, <4>1, <4>2
    <3>5. ASSUME q = <<s, j>> PROVE obj[t][h].fld = f
      BY <2>1, <3>2, <3>5
    <3>6. QED
      BY <3>3, <3>4, <3>5
  <2>4. QED
    BY <2>2, <2>3 DEF DeclaredOnce
<1>6. QED
  BY <1>4, <1>5 DEF DeclaredOnce

\* Where a mode may go.
LEMMA SingleMeans ==
  ASSUME NEW mode \in Mode, mode.of \subseteq {"child", "property"}
  PROVE  /\ Single(mode, Section) <=> ~Unfilled(mode) /\ ~FilledTwice(mode)
         /\ Single(mode, Section \ Special) <=>
              ~Unfilled(mode) /\ ~FilledTwice(mode) /\ mode.m \notin Special
         /\ Single(mode, Section \ (Special \cup {"extra"})) <=>
              ~Unfilled(mode) /\ ~FilledTwice(mode) /\ mode.m \notin Special \cup {"none"}
<1>1. Goes(mode) \subseteq Section
  BY GoesWhereItFits
<1>2. Single(mode, Section) <=> ~Unfilled(mode) /\ ~FilledTwice(mode)
  <2>1. Single(mode, Section) <=> Goes(mode) # {} /\ \A s, t \in Goes(mode) : s = t
    <3>1. ASSUME Goes(mode) # {}, \A s, t \in Goes(mode) : s = t PROVE Single(mode, Section)
      <4>1. PICK s \in Goes(mode) : TRUE
        BY <3>1
      <4>2. Goes(mode) = {s} /\ s \in Section
        BY <1>1, <3>1, <4>1
      <4>3. QED
        BY <4>2 DEF Single
    <3>2. ASSUME Single(mode, Section) PROVE Goes(mode) # {} /\ \A s, t \in Goes(mode) : s = t
      BY <3>2 DEF Single
    <3>3. QED
      BY <3>1, <3>2
  <2>2. FilledTwice(mode) => ~(\A s, t \in Goes(mode) : s = t)
    BY GoesTwice
  <2>3. ~FilledTwice(mode) => \A s, t \in Goes(mode) : s = t
    BY GoesTwice
  <2>4. QED
    BY <2>1, <2>2, <2>3, GoesNowhere
<1>3. \A s \in Special : Goes(mode) = {s} <=> mode.m = s
  <2>1. CASE mode.m = "flatten"
    BY <2>1 DEF Goes, Special
  <2>2. CASE mode.m # "flatten"
    BY <2>2 DEF Goes, Special
  <2>3. QED
    BY <2>1, <2>2
<1>4. Goes(mode) = {"extra"} <=> mode.m = "none"
  <2>1. CASE mode.m = "flatten"
    BY <2>1 DEF Goes
  <2>2. CASE mode.m # "flatten"
    BY <2>2 DEF Goes, Mode
  <2>3. QED
    BY <2>1, <2>2
<1>5. Single(mode, Section \ Special) <=> Single(mode, Section) /\ mode.m \notin Special
  <2>1. ASSUME NEW s \in Section, Goes(mode) = {s}
        PROVE  s \notin Special <=> mode.m \notin Special
    <3>1. s \in Special => mode.m \in Special
      BY <1>3, <2>1
    <3>2. mode.m \in Special => Goes(mode) = {mode.m}
      BY <1>3
    <3>3. mode.m \in Special => s \in Special
      BY <2>1, <3>2
    <3>4. QED
      BY <3>1, <3>3
  <2>2. QED
    BY <2>1 DEF Single
<1>6. Single(mode, Section \ (Special \cup {"extra"})) <=>
        Single(mode, Section \ Special) /\ mode.m # "none"
  BY <1>4 DEF Single
<1>7. QED
  BY <1>2, <1>5, <1>6

\* Of what was read of an item, and of a field of an unwrap.
LEMMA FieldDeclaredOnce ==
  ASSUME NEW it \in Item, NEW obj \in Object,
         Exact(obj, it, Len(it.fields)), Within(obj, Len(it.fields)),
         NEW D \in SUBSET Section, NEW f \in DOMAIN it.fields
  PROVE  DeclaredOnce(obj, D, f) <=> Single(ModesOf(it)[f], D)
<1>1. \A s \in Section : \A j, h \in DOMAIN obj[s] : obj[s][j].fld = obj[s][h].fld => j = h
  BY PlacesOf
<1>2. Holders(obj, f) = Goes(ModesOf(it)[f])
  BY FieldTypes DEF Exact
<1>3. DeclaredOnce(obj, D, f) <=> \E s \in D : Holders(obj, f) = {s}
  BY <1>1, DeclaredOnceMeans
<1>4. QED
  BY <1>2, <1>3 DEF Single

LEMMA UnwrapBinds ==
  ASSUME NEW d \in Decl, NEW i, NEW f \in Nat, NEW k
  PROVE  Binds(UnwrapOf(d, i, f, k)) <=>
           Single(ModeAt(d, k), Section \ (Special \cup {"extra"}))
<1> DEFINE mode == ModeAt(d, k)
           e == EntryOf(d, k, f, FALSE, FALSE)
           obj == Push(NoFields, Goes(mode), e)
           D == Section \ (Special \cup {"extra"})
           m == UnwrapOf(d, i, f, k)
<1>1. e.fld = f
  BY EntryType
<1>2. Goes(mode) \subseteq Section
  BY ModeType, FlattensBothWays, GoesWhereItFits
<1>3. m.entry = "unwrap" /\ m.obj = obj /\ m.fields = {f}
  BY DEF UnwrapOf
<1> HIDE DEF e, mode
<1>4. \A s \in Section : obj[s] = IF s \in Goes(mode) THEN <<e>> ELSE <<>>
  BY DEF Push, NoFields
<1> HIDE DEF obj, m
<1>5. \A s \in Section : \A j, h \in DOMAIN obj[s] : obj[s][j].fld = obj[s][h].fld => j = h
  BY <1>4
<1>6. Holders(obj, f) = Goes(mode)
  <2>1. \A s \in Section : (\E j \in DOMAIN obj[s] : obj[s][j].fld = f) <=> s \in Goes(mode)
    BY <1>1, <1>4
  <2>2. QED
    BY <1>2, <2>1 DEF Holders
<1>7. Binds(m) <=> DeclaredOnce(m.obj, Declares(m.entry), f)
  BY <1>3 DEF Binds, DeclaredOnce
<1>8. Declares(m.entry) = D
  BY <1>3 DEF Declares
<1>9. D \in SUBSET Section
  OBVIOUS
<1> HIDE DEF D
<1>10. DeclaredOnce(obj, D, f) <=> \E s \in D : Holders(obj, f) = {s}
  BY <1>5, <1>9, DeclaredOnceMeans
<1>11. QED
  BY <1>3, <1>6, <1>7, <1>8, <1>10 DEF Single, D, m, mode

\* The decoders of an item but for its unwraps.
OwnDecoder(inp, x, e) == [entry |-> e, item |-> x.item, obj |-> x.obj,
                          fields |-> DOMAIN inp.items[x.item].fields]

LEMMA OwnAre ==
  ASSUME NEW inp, NEW x, NEW m
  PROVE  m \in OwnDecoders(inp, x) <=> \E e \in Entries(x) : m = OwnDecoder(inp, x, e)
BY DEF OwnDecoders, OwnDecoder

LEMMA OwnBinds ==
  ASSUME NEW inp, NEW x, NEW it \in Item, it = inp.items[x.item], x.obj \in Object,
         Exact(x.obj, it, Len(it.fields)), Within(x.obj, Len(it.fields)),
         NEW e \in {"node", "children", "variant", "payload", "optional"}
  PROVE  Binds(OwnDecoder(inp, x, e)) <=>
           \A f \in DOMAIN it.fields : Single(ModesOf(it)[f], Declares(e))
<1> DEFINE m == OwnDecoder(inp, x, e)
<1>1. m.entry = e /\ m.obj = x.obj /\ m.fields = DOMAIN it.fields
  BY DEF OwnDecoder
<1>2. Declares(e) \in SUBSET Section
  BY DEF Declares, Section
<1> HIDE DEF m
<1>3. Binds(m) <=> \A f \in m.fields : DeclaredOnce(m.obj, Declares(m.entry), f)
  BY <1>1 DEF Binds, DeclaredOnce
<1>4. \A f \in DOMAIN it.fields :
        DeclaredOnce(x.obj, Declares(e), f) <=> Single(ModesOf(it)[f], Declares(e))
  BY <1>2, FieldDeclaredOnce
<1>5. QED
  BY <1>1, <1>3, <1>4 DEF m

\* decode_children declares enough of a struct that has no more.
LEMMA OfChildrenSingle ==
  ASSUME NEW it \in Item, NEW obj \in Object, Exact(obj, it, Len(it.fields)), OfChildren(obj),
         NEW f \in DOMAIN it.fields
  PROVE  Single(ModesOf(it)[f], Declares("children")) <=> Single(ModesOf(it)[f], Section)
<1>1. \A s \in Section \ {"child", "children", "extra"} : obj[s] = <<>>
  BY DEF OfChildren, None, Section, Special
<1>2. Holders(obj, f) = Goes(ModesOf(it)[f])
  BY FieldTypes DEF Exact
<1>3. Holders(obj, f) \subseteq {"child", "children", "extra"}
  BY <1>1 DEF Holders
<1>4. Declares("children") = {"child", "children", "extra"}
  BY DEF Declares
<1>5. {"child", "children", "extra"} \subseteq Section
  BY DEF Section
<1>6. QED
  BY <1>2, <1>3, <1>4, <1>5 DEF Single

\* What the DecodePartial methods can do with a field.
LEMMA FieldPartial ==
  ASSUME NEW it \in Item, NEW f \in DOMAIN it.fields
  PROVE  LET mode == ModesOf(it)[f]
             e    == ReadOf(it, f)
         IN /\ OptionalAsRead(it.fields[f]) <=>
                 /\ Goes(mode) \subseteq {"property", "child", "extra"}
                 /\ "property" \in Goes(mode) => e.option \/ e.kind = "flatten"
                 /\ "child" \in Goes(mode) => e.option \/ e.kind \in {"bool", "flatten"}
            /\ e.kind = "multi" <=> mode.m = "children" /\ mode.name
<1> DEFINE d == it.fields[f]
           mode == ModeAt(d, 0)
           e == ReadOf(it, f)
           option == d.ty = "Option"
           bool == d.ty = "bool"
           wrap == IF mode.m \in {"child", "children"} THEN Latest(d, 0, "unwrap") ELSE 0
<1>1. /\ ModesOf(it)[f] = mode /\ mode \in Mode /\ mode.of \subseteq {"child", "property"}
      /\ option \in BOOLEAN /\ bool \in BOOLEAN
  BY FieldTypes
<1>2. e.option = option /\ e.kind = KindIn(mode, bool, wrap)
  BY DEF ReadOf, EntryOf
<1>3. OptionalAsRead(d) <=>
        \/ mode.m \in {"none", "flatten"}
        \/ option /\ mode.m \in {"property", "child"}
        \/ option /\ mode.m = "children" /\ mode.name
        \/ mode.m = "child" /\ bool /\ wrap = 0
  BY DEF OptionalAsRead
<1> HIDE DEF mode, e, option, bool, wrap
<1>4. e.kind = "multi" <=> mode.m = "children" /\ mode.name
  BY <1>1, <1>2 DEF KindIn
<1>5. OptionalAsRead(d) <=>
        /\ Goes(mode) \subseteq {"property", "child", "extra"}
        /\ "property" \in Goes(mode) => e.option \/ e.kind = "flatten"
        /\ "child" \in Goes(mode) => e.option \/ e.kind \in {"bool", "flatten"}
  <2>1. CASE mode.m = "flatten"
    BY <1>1, <1>2, <1>3, <2>1 DEF Goes, KindIn
  <2>2. CASE mode.m = "none"
    BY <1>1, <1>2, <1>3, <2>2 DEF Goes, KindIn
  <2>3. CASE mode.m = "property"
    BY <1>1, <1>2, <1>3, <2>3 DEF Goes, KindIn
  <2>4. CASE mode.m = "child"
    BY <1>1, <1>2, <1>3, <2>4 DEF Goes, KindIn
  <2>5. CASE mode.m = "children" /\ mode.name
    BY <1>1, <1>2, <1>3, <2>5 DEF Goes, KindIn
  <2>6. CASE mode.m = "children" /\ ~mode.name
    BY <1>1, <1>2, <1>3, <2>6 DEF Goes, KindIn
  <2>7. CASE mode.m \in {"argument", "arguments", "properties", "span", "node_name", "type_name"}
    <3>1. Goes(mode) = {mode.m}
      BY <2>7 DEF Goes
    <3>2. mode.m \notin {"property", "child", "extra"}
      BY <2>7
    <3>3. ~OptionalAsRead(d)
      BY <1>3, <2>7
    <3>4. QED
      BY <3>1, <3>2, <3>3
  <2>8. QED
    BY <1>1, <2>1, <2>2, <2>3, <2>4, <2>5, <2>6, <2>7 DEF Mode
<1>6. QED
  BY <1>1, <1>4, <1>5 DEF d, e

\* The fields of the sections of an item.
LEMMA SectionFields ==
  ASSUME NEW it \in Item, NEW obj \in Object,
         Exact(obj, it, Len(it.fields)), Within(obj, Len(it.fields)), NEW s \in Section
  PROVE  /\ \A j \in DOMAIN obj[s] : \E f \in DOMAIN it.fields :
              s \in Goes(ModesOf(it)[f]) /\ obj[s][j] = ReadOf(it, f)
         /\ \A f \in DOMAIN it.fields : s \in Goes(ModesOf(it)[f]) =>
              \E j \in DOMAIN obj[s] : obj[s][j] = ReadOf(it, f)
         /\ obj[s] = <<>> <=> \A f \in DOMAIN it.fields : s \notin Goes(ModesOf(it)[f])
<1>1. \A f \in DOMAIN it.fields : Holders(obj, f) = Goes(ModesOf(it)[f])
  BY FieldTypes DEF Exact
<1>2. ASSUME NEW j \in DOMAIN obj[s]
      PROVE  \E f \in DOMAIN it.fields :
               s \in Goes(ModesOf(it)[f]) /\ obj[s][j] = ReadOf(it, f)
  <2>1. obj[s][j].fld \in DOMAIN it.fields
    BY FieldTypes DEF Within
  <2>2. s \in Holders(obj, obj[s][j].fld)
    BY DEF Holders
  <2>3. obj[s][j] = ReadOf(it, obj[s][j].fld)
    BY DEF Exact
  <2>4. QED
    BY <1>1, <2>1, <2>2, <2>3
<1>3. ASSUME NEW f \in DOMAIN it.fields, s \in Goes(ModesOf(it)[f])
      PROVE  \E j \in DOMAIN obj[s] : obj[s][j] = ReadOf(it, f)
  <2>1. PICK j \in DOMAIN obj[s] : obj[s][j].fld = f
    BY <1>1, <1>3 DEF Holders
  <2>2. obj[s][j] = ReadOf(it, f)
    BY <2>1 DEF Exact
  <2>3. QED
    BY <2>2
<1>4. obj[s] = <<>> <=> DOMAIN obj[s] = {}
  <2>1. obj[s] \in Seq(Entry)
    BY DEF Object
  <2>2. ASSUME NEW t \in Seq(Entry) PROVE t = <<>> <=> DOMAIN t = {}
    <3>1. Len(t) \in Nat /\ DOMAIN t = 1..Len(t)
      OBVIOUS
    <3>2. DOMAIN t = {} => Len(t) = 0
      <4>1. Len(t) # 0 => 1 \in DOMAIN t
        BY <3>1
      <4>2. QED
        BY <4>1
    <3>3. Len(t) = 0 => t = <<>>
      OBVIOUS
    <3>4. QED
      BY <3>2, <3>3
  <2>3. QED
    BY <2>1, <2>2
<1>5. DOMAIN obj[s] = {} <=> \A f \in DOMAIN it.fields : s \notin Goes(ModesOf(it)[f])
  BY <1>2, <1>3
<1>6. QED
  BY <1>2, <1>3, <1>4, <1>5

\* partial_compatible: all fields are optional.
LEMMA PartialMeans ==
  ASSUME NEW it \in Item, NEW obj \in Object,
         Exact(obj, it, Len(it.fields)), Within(obj, Len(it.fields))
  PROVE  Partial(obj) <=> \A f \in DOMAIN it.fields : OptionalAsRead(it.fields[f])
<1> DEFINE Rest == Special \cup {"argument", "arguments", "properties", "children"}
           PropOk(e) == e.option \/ e.kind = "flatten"
           ChildOk(e) == e.option \/ e.kind \in {"bool", "flatten"}
<1>1. Rest = Section \ {"property", "child", "extra"}
  BY DEF Section, Special
<1>2. \A f \in DOMAIN it.fields : Goes(ModesOf(it)[f]) \subseteq Section
  BY FieldTypes, GoesWhereItFits
<1>3. Partial(obj) <=> /\ \A s \in Rest : obj[s] = <<>>
                       /\ \A j \in DOMAIN obj["property"] : PropOk(obj["property"][j])
                       /\ \A j \in DOMAIN obj["child"] : ChildOk(obj["child"][j])
  BY DEF Partial, None
<1>4. \A f \in DOMAIN it.fields :
        OptionalAsRead(it.fields[f]) <=>
          /\ Goes(ModesOf(it)[f]) \subseteq {"property", "child", "extra"}
          /\ "property" \in Goes(ModesOf(it)[f]) => PropOk(ReadOf(it, f))
          /\ "child" \in Goes(ModesOf(it)[f]) => ChildOk(ReadOf(it, f))
  BY FieldPartial
<1>5. "property" \in Section /\ "child" \in Section
  BY DEF Section
<1> HIDE DEF Rest, PropOk, ChildOk
<1>6. (\A s \in Rest : obj[s] = <<>>) <=>
        \A f \in DOMAIN it.fields : Goes(ModesOf(it)[f]) \subseteq {"property", "child", "extra"}
  <2>1. \A s \in Rest : obj[s] = <<>> <=> \A f \in DOMAIN it.fields : s \notin Goes(ModesOf(it)[f])
    BY <1>1, SectionFields
  <2>2. QED
    BY <1>1, <1>2, <2>1
<1>7. (\A j \in DOMAIN obj["property"] : PropOk(obj["property"][j])) <=>
        \A f \in DOMAIN it.fields : "property" \in Goes(ModesOf(it)[f]) => PropOk(ReadOf(it, f))
  <2>1. /\ \A j \in DOMAIN obj["property"] : \E f \in DOMAIN it.fields :
             "property" \in Goes(ModesOf(it)[f]) /\ obj["property"][j] = ReadOf(it, f)
        /\ \A f \in DOMAIN it.fields : "property" \in Goes(ModesOf(it)[f]) =>
             \E j \in DOMAIN obj["property"] : obj["property"][j] = ReadOf(it, f)
    BY <1>5, SectionFields
  <2>2. QED
    BY <2>1
<1>8. (\A j \in DOMAIN obj["child"] : ChildOk(obj["child"][j])) <=>
        \A f \in DOMAIN it.fields : "child" \in Goes(ModesOf(it)[f]) => ChildOk(ReadOf(it, f))
  <2>1. /\ \A j \in DOMAIN obj["child"] : \E f \in DOMAIN it.fields :
             "child" \in Goes(ModesOf(it)[f]) /\ obj["child"][j] = ReadOf(it, f)
        /\ \A f \in DOMAIN it.fields : "child" \in Goes(ModesOf(it)[f]) =>
             \E j \in DOMAIN obj["child"] : obj["child"][j] = ReadOf(it, f)
    BY <1>5, SectionFields
  <2>2. QED
    BY <2>1
<1>9. QED
  BY <1>3, <1>4, <1>6, <1>7, <1>8

\* The DecodePartial methods bind no field of named children.
LEMMA PartialBinds ==
  ASSUME NEW inp, NEW x, NEW it \in Item, it = inp.items[x.item], x.obj \in Object,
         Exact(x.obj, it, Len(it.fields)), Within(x.obj, Len(it.fields)),
         \A f \in DOMAIN it.fields : OptionalAsRead(it.fields[f])
  PROVE  Binds(OwnDecoder(inp, x, "partial")) <=>
           ~ \E f \in DOMAIN it.fields : ModesOf(it)[f].m = "children"
<1> DEFINE m == OwnDecoder(inp, x, "partial")
<1>1. m.entry = "partial" /\ m.obj = x.obj
  BY DEF OwnDecoder
<1> HIDE DEF m
<1>2. Binds(m) <=> \A j \in DOMAIN x.obj["child"] : x.obj["child"][j].kind # "multi"
  BY <1>1 DEF Binds
<1>3. \A f \in DOMAIN it.fields :
        ReadOf(it, f).kind = "multi" <=> ModesOf(it)[f].m = "children" /\ ModesOf(it)[f].name
  BY FieldPartial
<1>4. \A f \in DOMAIN it.fields : ModesOf(it)[f].m = "children" =>
        ModesOf(it)[f].name /\ "child" \in Goes(ModesOf(it)[f])
  <2>1. SUFFICES ASSUME NEW f \in DOMAIN it.fields, ModesOf(it)[f].m = "children"
                 PROVE  ModesOf(it)[f].name /\ "child" \in Goes(ModesOf(it)[f])
    OBVIOUS
  <2>2. ModesOf(it)[f] = ModeAt(it.fields[f], 0) /\ OptionalAsRead(it.fields[f])
    BY FieldTypes
  <2>3. ModesOf(it)[f].name
    BY <2>1, <2>2 DEF OptionalAsRead
  <2>4. QED
    BY <2>1, <2>3 DEF Goes
<1>5. /\ \A j \in DOMAIN x.obj["child"] : \E f \in DOMAIN it.fields :
           "child" \in Goes(ModesOf(it)[f]) /\ x.obj["child"][j] = ReadOf(it, f)
      /\ \A f \in DOMAIN it.fields : "child" \in Goes(ModesOf(it)[f]) =>
           \E j \in DOMAIN x.obj["child"] : x.obj["child"][j] = ReadOf(it, f)
  <2>1. "child" \in Section
    BY DEF Section
  <2>2. QED
    BY <2>1, SectionFields
<1>6. QED
  BY <1>2, <1>3, <1>4, <1>5 DEF m

\* The gaps, one after the other.
FillsOnce(it) ==
  \A f \in DOMAIN it.fields : ~Unfilled(ModesOf(it)[f]) /\ ~FilledTwice(ModesOf(it)[f])
SpecialsIn(it) == \E f \in DOMAIN it.fields : ModesOf(it)[f].m \in Special
BadUnwrap(mode) == mode.m \in Special \cup {"none"} \/ Unfilled(mode) \/ FilledTwice(mode)
BadUnwraps(it) == \E f \in DOMAIN it.fields : \E k \in CountsAsRead(it.fields[f]) \ {0} :
                    BadUnwrap(ModeAt(it.fields[f], k))
AllOptional(it) == \A f \in DOMAIN it.fields : OptionalAsRead(it.fields[f])
ChildrenIn(it) == \E f \in DOMAIN it.fields : ModesOf(it)[f].m = "children"

LEMMA GapIs ==
  ASSUME NEW inp, NEW it
  PROVE  GapAsRead(inp, it) <=>
           \/ ~FillsOnce(it)
           \/ inp.kind = "enum" /\ SpecialsIn(it)
           \/ BadUnwraps(it)
           \/ inp.kind = "struct" /\ AllOptional(it) /\ ChildrenIn(it)
BY DEF GapAsRead, FillsOnce, SpecialsIn, BadUnwrap, BadUnwraps, AllOptional, ChildrenIn

LEMMA UnwrapsBind ==
  ASSUME NEW it \in Item, NEW i
  PROVE  (\A m \in UnwrapsIn(it.fields, i) : Binds(m)) <=> ~BadUnwraps(it)
<1>1. ASSUME NEW f \in DOMAIN it.fields, NEW k
      PROVE  Binds(UnwrapOf(it.fields[f], i, f, k)) <=> ~BadUnwrap(ModeAt(it.fields[f], k))
  <2> DEFINE d == it.fields[f]
  <2>1. d \in Decl /\ f \in Nat
    BY FieldTypes
  <2> HIDE DEF d
  <2>2. ModeAt(d, k) \in Mode /\ ModeAt(d, k).of \subseteq {"child", "property"}
    BY <2>1, ModeType, FlattensBothWays
  <2>3. Single(ModeAt(d, k), Section \ (Special \cup {"extra"})) <=> ~BadUnwrap(ModeAt(d, k))
    BY <2>2, SingleMeans DEF BadUnwrap
  <2>4. Binds(UnwrapOf(d, i, f, k)) <=> ~BadUnwrap(ModeAt(d, k))
    BY <2>1, <2>3, UnwrapBinds
  <2>5. QED
    BY <2>4 DEF d
<1>2. (\A m \in UnwrapsIn(it.fields, i) : Binds(m)) <=>
        \A f \in DOMAIN it.fields : \A k \in CountsAsRead(it.fields[f]) \ {0} :
          Binds(UnwrapOf(it.fields[f], i, f, k))
  <2>1. ASSUME NEW m \in UnwrapsIn(it.fields, i)
        PROVE  \E f \in DOMAIN it.fields : \E k \in CountsAsRead(it.fields[f]) \ {0} :
                 m = UnwrapOf(it.fields[f], i, f, k)
    BY <2>1, Zenon DEF UnwrapsIn
  <2>2. ASSUME NEW f \in DOMAIN it.fields, NEW k \in CountsAsRead(it.fields[f]) \ {0}
        PROVE  UnwrapOf(it.fields[f], i, f, k) \in UnwrapsIn(it.fields, i)
    BY UnwrapsAre
  <2>3. QED
    BY <2>1, <2>2
<1>3. QED
  BY <1>1, <1>2 DEF BadUnwraps

\* The sections of the own decoders, for all fields of an item.
LEMMA ModesAreSingle ==
  ASSUME NEW it \in Item
  PROVE  /\ (\A f \in DOMAIN it.fields : Single(ModesOf(it)[f], Section)) <=> FillsOnce(it)
         /\ (\A f \in DOMAIN it.fields : Single(ModesOf(it)[f], Section \ Special)) <=>
              FillsOnce(it) /\ ~SpecialsIn(it)
<1>1. \A f \in DOMAIN it.fields :
        /\ Single(ModesOf(it)[f], Section) <=>
             ~Unfilled(ModesOf(it)[f]) /\ ~FilledTwice(ModesOf(it)[f])
        /\ Single(ModesOf(it)[f], Section \ Special) <=>
             /\ ~Unfilled(ModesOf(it)[f]) /\ ~FilledTwice(ModesOf(it)[f])
             /\ ModesOf(it)[f].m \notin Special
  BY FieldTypes, SingleMeans
<1>2. QED
  BY <1>1 DEF FillsOnce, SpecialsIn

LEMMA OwnAllBind ==
  ASSUME NEW inp, NEW x
  PROVE  (\A m \in OwnDecoders(inp, x) : Binds(m)) <=>
           \A e \in Entries(x) : Binds(OwnDecoder(inp, x, e))
BY OwnAre

LEMMA StructBinds ==
  ASSUME NEW inp, NEW x, NEW it \in Item, it = inp.items[x.item], x.obj \in Object,
         Exact(x.obj, it, Len(it.fields)), Within(x.obj, Len(it.fields)),
         x.kind = "Struct", inp.kind = "struct"
  PROVE  (\A m \in Decoders(inp, x) : Binds(m)) <=> ~GapAsRead(inp, it)
<1>1. Entries(x) = {"node"} \cup (IF Partial(x.obj) THEN {"partial"} ELSE {})
                            \cup (IF OfChildren(x.obj) THEN {"children"} ELSE {})
  BY DEF Entries
<1>2. Binds(OwnDecoder(inp, x, "node")) <=> FillsOnce(it)
  <2>1. Binds(OwnDecoder(inp, x, "node")) <=>
          \A f \in DOMAIN it.fields : Single(ModesOf(it)[f], Declares("node"))
    BY OwnBinds
  <2>2. Declares("node") = Section
    BY DEF Declares
  <2>3. QED
    BY <2>1, <2>2, ModesAreSingle
<1>3. OfChildren(x.obj) => (Binds(OwnDecoder(inp, x, "children")) <=> FillsOnce(it))
  <2>1. SUFFICES ASSUME OfChildren(x.obj)
                 PROVE  Binds(OwnDecoder(inp, x, "children")) <=> FillsOnce(it)
    OBVIOUS
  <2>2. Binds(OwnDecoder(inp, x, "children")) <=>
          \A f \in DOMAIN it.fields : Single(ModesOf(it)[f], Declares("children"))
    BY OwnBinds
  <2>3. \A f \in DOMAIN it.fields :
          Single(ModesOf(it)[f], Declares("children")) <=> Single(ModesOf(it)[f], Section)
    BY <2>1, OfChildrenSingle
  <2>4. QED
    BY <2>2, <2>3, ModesAreSingle
<1>4. Partial(x.obj) <=> AllOptional(it)
  BY PartialMeans DEF AllOptional
<1>5. AllOptional(it) => (Binds(OwnDecoder(inp, x, "partial")) <=> ~ChildrenIn(it))
  BY PartialBinds DEF AllOptional, ChildrenIn
<1>6. (\A e \in Entries(x) : Binds(OwnDecoder(inp, x, e))) <=>
        FillsOnce(it) /\ (AllOptional(it) => ~ChildrenIn(it))
  BY <1>1, <1>2, <1>3, <1>4, <1>5
<1>7. (\A m \in Decoders(inp, x) : Binds(m)) <=>
        /\ \A m \in OwnDecoders(inp, x) : Binds(m)
        /\ \A m \in UnwrapsIn(it.fields, x.item) : Binds(m)
  BY DEF Decoders
<1>8. QED
  BY <1>6, <1>7, OwnAllBind, UnwrapsBind, GapIs

LEMMA TupleBinds ==
  ASSUME NEW inp, NEW x, NEW it \in Item, it = inp.items[x.item], x.obj \in Object,
         Exact(x.obj, it, Len(it.fields)), Within(x.obj, Len(it.fields)),
         x.kind = "Tuple", inp.kind = "enum"
  PROVE  (\A m \in Decoders(inp, x) : Binds(m)) <=> ~GapAsRead(inp, it)
<1>1. Entries(x) = {"variant"}
  BY DEF Entries
<1>2. Binds(OwnDecoder(inp, x, "variant")) <=> FillsOnce(it) /\ ~SpecialsIn(it)
  <2>1. Binds(OwnDecoder(inp, x, "variant")) <=>
          \A f \in DOMAIN it.fields : Single(ModesOf(it)[f], Declares("variant"))
    BY OwnBinds
  <2>2. Declares("variant") = Section \ Special
    BY DEF Declares
  <2>3. QED
    BY <2>1, <2>2, ModesAreSingle
<1>3. (\A e \in Entries(x) : Binds(OwnDecoder(inp, x, e))) <=>
        FillsOnce(it) /\ ~SpecialsIn(it)
  BY <1>1, <1>2
<1>4. (\A m \in Decoders(inp, x) : Binds(m)) <=>
        /\ \A m \in OwnDecoders(inp, x) : Binds(m)
        /\ \A m \in UnwrapsIn(it.fields, x.item) : Binds(m)
  BY DEF Decoders
<1>5. inp.kind # "struct"
  OBVIOUS
<1>6. QED
  BY <1>3, <1>4, <1>5, OwnAllBind, UnwrapsBind, GapIs

\* A payload has no unwraps, no children and no special fields.
LEMMA PayloadBinds ==
  ASSUME NEW inp, NEW x, NEW it \in Item, it = inp.items[x.item], x.obj \in Object,
         Exact(x.obj, it, Len(it.fields)), Within(x.obj, Len(it.fields)),
         x.kind \in {"NewType", "Nested"}, OnlyPayload(x.obj),
         \A f \in DOMAIN it.fields : Proper(it.fields[f])
  PROVE  (\A m \in Decoders(inp, x) : Binds(m)) <=> ~GapAsRead(inp, it)
<1>1. /\ Entries(x) = {"payload"} \/ Entries(x) = {"optional"}
      /\ Decoders(inp, x) = OwnDecoders(inp, x)
  BY DEF Entries, Decoders
<1> PICK e \in {"payload", "optional"} : Entries(x) = {e}
  BY <1>1
<1>2. ASSUME NEW f \in DOMAIN it.fields
      PROVE  /\ Goes(ModesOf(it)[f]) \subseteq {"extra"}
             /\ ModesOf(it)[f].m \notin Special \cup {"child", "children"}
             /\ CountsAsRead(it.fields[f]) \ {0} = {}
  <2>1. /\ ModesOf(it)[f] = ModeAt(it.fields[f], 0) /\ it.fields[f] \in Decl
        /\ Proper(it.fields[f])
    BY FieldTypes
  <2>2. Goes(ModesOf(it)[f]) \subseteq {"extra"}
    BY <2>1, PayloadUnwraps
  <2>3. ModesOf(it)[f].m \notin {"child", "children"}
    BY <2>2, ChildGoes
  <2>4. ModesOf(it)[f].m \notin Special
    <3>1. ModesOf(it)[f].m \in Special => ModesOf(it)[f].m \in Goes(ModesOf(it)[f])
      BY DEF Goes, Special
    <3>2. "extra" \notin Special
      BY DEF Special
    <3>3. QED
      BY <2>2, <3>1, <3>2
  <2>5. Child(it.fields[f], 0) = 0
    BY <2>1, <2>3 DEF Child
  <2>6. \A k \in CountsAsRead(it.fields[f]) : k = 0
    BY <2>1, <2>5, CountsUnder
  <2>7. QED
    BY <2>2, <2>3, <2>4, <2>6
<1>3. ~SpecialsIn(it) /\ ~ChildrenIn(it) /\ ~BadUnwraps(it)
  BY <1>2 DEF SpecialsIn, ChildrenIn, BadUnwraps
<1>4. \A f \in DOMAIN it.fields :
        Single(ModesOf(it)[f], Declares(e)) <=> Single(ModesOf(it)[f], Section)
  <2>1. Declares(e) = {"extra"} /\ "extra" \in Section
    BY DEF Declares, Section
  <2>2. QED
    BY <1>2, <2>1 DEF Single
<1>5. Binds(OwnDecoder(inp, x, e)) <=> FillsOnce(it)
  <2>1. Binds(OwnDecoder(inp, x, e)) <=>
          \A f \in DOMAIN it.fields : Single(ModesOf(it)[f], Declares(e))
    BY OwnBinds
  <2>2. QED
    BY <1>4, <2>1, ModesAreSingle
<1>6. QED
  BY <1>1, <1>3, <1>5, OwnAllBind, GapIs

\* Nothing is generated for a variant without fields but its name.
LEMMA UnitBinds ==
  ASSUME NEW inp, NEW x, NEW it, x.kind = "Unit", inp.kind = "enum", DOMAIN it.fields = {}
  PROVE  (\A m \in Decoders(inp, x) : Binds(m)) <=> ~GapAsRead(inp, it)
<1>1. Entries(x) = {}
  BY DEF Entries
<1>2. OwnDecoders(inp, x) = {}
  BY <1>1, OwnAre
<1>3. Decoders(inp, x) = {}
  BY <1>2 DEF Decoders
<1>4. FillsOnce(it) /\ ~SpecialsIn(it) /\ ~BadUnwraps(it) /\ inp.kind # "struct"
  BY DEF FillsOnce, SpecialsIn, BadUnwraps
<1>5. QED
  BY <1>3, <1>4, GapIs

LEMMA ItemBinds ==
  ASSUME IInv, Kept, NEW b \in DOMAIN built,
         ReadOk(input, built[b].item), EmitOk(input, built[b])
  PROVE  (\A m \in Decoders(input, built[b]) : Binds(m)) <=>
           ~GapAsRead(input, input.items[built[b].item])
<1> DEFINE x == built[b]
           it == input.items[x.item]
<1>1. /\ x.item \in DOMAIN input.items /\ it \in Item /\ input \in Input
      /\ "skip" \notin VariantAttrs(it)
      /\ x.obj \in Object /\ Within(x.obj, Len(it.fields))
      /\ x.kind = KindOf(input, it, x.obj)
      /\ Takes(input, it) => Exact(x.obj, it, Len(it.fields))
  BY BuiltIs
<1>2. input.kind \in {"struct", "enum"} /\ it.shape \in {"named", "tuple", "unit"}
  BY <1>1 DEF Input, Item
<1>3. x.kind # "Named"
  BY DEF EmitOk
<1>4. ASSUME Takes(input, it), NEW f \in DOMAIN it.fields PROVE Proper(it.fields[f])
  <2>1. FieldOk(it, f) /\ it.fields[f] \in Decl
    BY <1>1, <1>4, InputItems DEF ReadOk
  <2>2. QED
    BY <2>1, NoReadErrors DEF FieldOk
<1>5. it.shape = "unit" => it.fields = <<>>
  BY <1>1 DEF IInv, TypeOK, WellFormedInput
<1>6. CASE x.kind \in {"NewType", "Nested"}
  <2>1. Takes(input, it) /\ OnlyPayload(x.obj)
    BY <1>1, <1>6, KindsTaken
  <2> HIDE DEF x
  <2>2. \A f \in DOMAIN it.fields : Proper(it.fields[f])
    BY <1>4, <2>1
  <2>3. QED
    BY <1>1, <1>6, <2>1, <2>2, PayloadBinds DEF x
<1>7. CASE x.kind = "Struct"
  <2>1. Takes(input, it) /\ input.kind = "struct"
    BY <1>1, <1>2, <1>7, KindsTaken DEF KindOf
  <2>2. QED
    BY <1>1, <1>7, <2>1, StructBinds
<1>8. CASE x.kind = "Tuple"
  <2>1. Takes(input, it) /\ input.kind = "enum"
    BY <1>1, <1>2, <1>8, KindsTaken DEF KindOf
  <2>2. QED
    BY <1>1, <1>8, <2>1, TupleBinds
<1>9. CASE x.kind = "Unit"
  <2>1. input.kind = "enum" /\ it.shape = "unit"
    BY <1>1, <1>2, <1>9 DEF KindOf
  <2>2. DOMAIN it.fields = {}
    BY <1>5, <2>1
  <2>3. QED
    BY <1>9, <2>1, <2>2, UnitBinds
<1>10. x.kind \in {"NewType", "Nested", "Struct", "Tuple", "Unit"}
  BY <1>1, <1>3, KindType DEF ItemKind
<1>11. QED
  BY <1>6, <1>7, <1>8, <1>9, <1>10

\* The gaps of an item whose fields have nothing that is not read.
LEMMA GapIsAsRead ==
  ASSUME NEW inp, NEW it \in Item, \A f \in DOMAIN it.fields : Proper(it.fields[f])
  PROVE  Gap(inp, it) <=> GapAsRead(inp, it)
<1>1. ASSUME NEW f \in DOMAIN it.fields
      PROVE  /\ Counts(it.fields[f]) = CountsAsRead(it.fields[f])
             /\ \A k : WrittenMode(it.fields[f], k) = ModeAt(it.fields[f], k)
             /\ ModesOf(it)[f] = ModeAt(it.fields[f], 0)
             /\ WrittenModes(it)[f] = ModesOf(it)[f]
             /\ Optional(it.fields[f]) <=> OptionalAsRead(it.fields[f])
  <2> DEFINE d == it.fields[f]
  <2>1. d \in Decl /\ Proper(d)
    BY FieldTypes
  <2> HIDE DEF d
  <2>2. /\ \A k : WrittenMode(d, k) = ModeAt(d, k)
        /\ Written(d, 0, "unwrap") = OfKind(d, 0, "unwrap")
    BY <2>1, WrittenIsRead
  <2>3. OfKind(d, 0, "unwrap") = {} <=> Latest(d, 0, "unwrap") = 0
    <3>1. 0 \notin OfKind(d, 0, "unwrap")
      BY <2>1, AttrTypes DEF OfKind
    <3>2. QED
      BY <2>1, <3>1, LatestIsOne DEF Latest
  <2>4. Optional(d) <=> OptionalAsRead(d)
    BY <2>2, <2>3 DEF Optional, OptionalAsRead
  <2>5. Counts(d) = CountsAsRead(d)
    BY <2>1, CountedAsRead
  <2>6. ModesOf(it)[f] = ModeAt(it.fields[f], 0) /\ WrittenModes(it)[f] = ModesOf(it)[f]
    BY ModesAsRead DEF ModesOf
  <2>7. QED
    BY <2>2, <2>4, <2>5, <2>6 DEF d
<1>2. ASSUME NEW f \in DOMAIN it.fields
      PROVE  LET mode == WrittenMode(it.fields[f], 0)
             IN mode = ModesOf(it)[f]
  BY <1>1
<1>3. (\A f \in DOMAIN it.fields : Optional(it.fields[f]))
        <=> \A f \in DOMAIN it.fields : OptionalAsRead(it.fields[f])
  BY <1>1
<1>4. (\E f \in DOMAIN it.fields : WrittenModes(it)[f].m = "children")
        <=> \E f \in DOMAIN it.fields : ModesOf(it)[f].m = "children"
  BY <1>1
<1>5. ASSUME NEW f \in DOMAIN it.fields
      PROVE  (\E k \in Counts(it.fields[f]) \ {0} :
                LET inner == WrittenMode(it.fields[f], k)
                IN inner.m \in Special \cup {"none"} \/ Unfilled(inner) \/ FilledTwice(inner))
             <=> \E k \in CountsAsRead(it.fields[f]) \ {0} :
                   LET mode == ModeAt(it.fields[f], k)
                   IN mode.m \in Special \cup {"none"} \/ Unfilled(mode) \/ FilledTwice(mode)
  BY <1>1
<1>6. QED
  BY <1>2, <1>3, <1>4, <1>5 DEF Gap, GapAsRead

LEMMA JudgedBinds ==
  ASSUME IInv, Kept, Judged, MadeForItems
  PROVE  FieldsAreBoundButForTheGaps
<1>1. SUFFICES ASSUME Accepted, NEW i \in DOMAIN Items, ~Skips(Items[i])
               PROVE  (\A m \in made : m.item = i => Binds(m)) <=> ~Gap(input, Items[i])
  BY DEF FieldsAreBoundButForTheGaps
<1> DEFINE it == input.items[i]
<1>2. LegalItemAsRead(input, it) /\ it \in Item /\ i \in DOMAIN input.items
  <2>1. LegalAsRead(input)
    BY <1>1, JudgedIsAccepted DEF Accepted
  <2>2. QED
    BY <1>1, <2>1, InputItems DEF LegalAsRead
<1>3. ~Skipped(i)
  BY <1>1, <1>2, VariantAsRead DEF Skipped, Items, LegalItemAsRead
<1>4. \A f \in DOMAIN it.fields : Proper(it.fields[f])
  BY <1>1, <1>2, <1>3 DEF LegalItemAsRead, LegalDeclAsRead, Proper, Skipped, Items
<1>5. Gap(input, it) <=> GapAsRead(input, it)
  BY <1>2, <1>4, GapIsAsRead
<1>6. i \in ItemsBuilt
  BY <1>1, <1>3 DEF Accepted, Kept
<1>7. PICK b \in DOMAIN built : built[b].item = i
  BY <1>6 DEF ItemsBuilt
<1>8. ReadOk(input, i) /\ EmitOk(input, built[b])
  <2>1. /\ \A h \in DOMAIN input.items : ReadOk(input, h)
        /\ \A c \in DOMAIN built : c < item => EmitOk(input, built[c])
        /\ item > Len(built)
    BY <1>1 DEF Accepted, Judged, Flawless
  <2>2. b < item
    BY <2>1 DEF IInv, TypeOK
  <2>3. QED
    BY <1>1, <2>1, <2>2 DEF Items
<1>9. \A m : m \in made /\ m.item = i <=> m \in Decoders(input, built[b])
  BY <1>1, <1>7, MadeOfItem
<1>10. (\A m \in Decoders(input, built[b]) : Binds(m)) <=> ~GapAsRead(input, input.items[i])
  BY <1>7, <1>8, ItemBinds
<1>11. QED
  BY <1>9, <1>10, <1>5 DEF Items

LEMMA AllOfIt == Spec => [](IInv /\ Kept /\ Judged /\ MadeForItems)
<1>1. Init => Kept /\ Judged /\ MadeForItems
  BY InitKept, InitJudged, InitMadeForItems
<1>2. IInv /\ (Kept /\ Judged /\ MadeForItems) /\ [Next]_vars => (Kept /\ Judged /\ MadeForItems)'
  BY StepKept, StepJudged, StepMadeForItems
<1>3. QED
  BY <1>1, <1>2, AlwaysIInv, PTL DEF Spec

\* At the end of a derive without an error, what has been generated are the
\* decoders of the items that are not skipped, and the closure of each unwrap of
\* a child, at every level, and nothing else.
MadeInFull == Accepted => made = UNION {Decoders(input, built[b]) : b \in DOMAIN built}

THEOREM NothingElseIsMade == Spec => []MadeInFull
<1>1. IInv /\ Judged /\ MadeForItems => MadeInFull
  BY MadeAtTheEnd DEF MadeInFull
<1>2. QED
  BY <1>1, AllOfIt, PTL

\* Of what the derive accepts, exactly the decoders of the declarations without
\* a gap bind the fields they name, whatever the fields, and however deep their
\* unwraps.
THEOREM DecodersBindTheirFields == Spec => []FieldsAreBoundButForTheGaps
<1>1. IInv /\ Kept /\ Judged /\ MadeForItems => FieldsAreBoundButForTheGaps
  BY JudgedBinds
<1>2. QED
  BY <1>1, AllOfIt, PTL

=============================================================================
