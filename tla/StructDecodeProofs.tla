------------------------- MODULE StructDecodeProofs -------------------------
(***************************************************************************)
(* Theorems about StructDecode, for every schema and every node.           *)
(***************************************************************************)
EXTENDS StructDecode, ScalarProofs

\* What the type of a case says about its parts.
LEMMA CaseParts ==
  ASSUME TypeOK
  PROVE  /\ S \in Schema /\ N \in Node
         /\ S.args \in Seq(Arg) /\ S.props \in Seq(Prop) /\ S.children \in Seq(Child)
         /\ S.argVal \in Field /\ S.propVal \in Field
         /\ N.args \in Seq(Value) /\ N.props \in Seq(NodeProp)
         /\ N.children \in Seq(NodeChild)
  BY DEF TypeOK, Case, Schema, Node, S, N

\* An element of a sequence, and the ways the decoder builds sequences.
LEMMA ElementOf ==
  ASSUME NEW T, NEW s \in Seq(T), NEW i \in DOMAIN s
  PROVE  s[i] \in T
  OBVIOUS

LEMMA Repeated ==
  ASSUME NEW T, NEW x \in T, NEW n \in Nat
  PROVE  [k \in 1..n |-> x] \in Seq(T)
  OBVIOUS

LEMMA Singleton ==
  ASSUME NEW T, NEW x \in T
  PROVE  <<x>> \in Seq(T) /\ Len(<<x>>) = 1
  OBVIOUS

LEMMA Joined ==
  ASSUME NEW T, NEW s \in Seq(T), NEW t \in Seq(T)
  PROVE  s \o t \in Seq(T)
  OBVIOUS

LEMMA Appended ==
  ASSUME NEW T, NEW s \in Seq(T), NEW x \in T
  PROVE  Append(s, x) \in Seq(T)
  OBVIOUS

LEMMA PlaceTypes ==
  ASSUME NEW sec \in Sections, NEW p \in Nat
  PROVE  Loc(sec, p) \in Place
  BY DEF Loc, Place

\* The fields of a schema and the items of a node have their types.
LEMMA ItemTypes ==
  ASSUME TypeOK
  PROVE  /\ \A i \in DOMAIN S.args : S.args[i].val \in Field
         /\ \A i \in DOMAIN S.props : S.props[i].val \in Field
         /\ \A i \in DOMAIN S.props : \A j \in DOMAIN S.props[i].part :
              S.props[i].part[j].val \in Field
         /\ \A k \in DOMAIN N.args : N.args[k] \in Value
         /\ \A k \in DOMAIN N.props : N.props[k].val \in Value
         /\ \A k \in DOMAIN N.children : N.children[k] \in NodeChild
<1>1. \A i \in DOMAIN S.args : S.args[i] \in Arg BY CaseParts, ElementOf
<1>2. \A i \in DOMAIN S.props : S.props[i] \in Prop BY CaseParts, ElementOf
<1>3. \A i \in DOMAIN S.props : \A j \in DOMAIN S.props[i].part :
        S.props[i].part[j].val \in Field
  <2> TAKE i \in DOMAIN S.props
  <2>1. S.props[i].part \in Seq(PartProp) BY <1>2 DEF Prop
  <2>2. \A j \in DOMAIN S.props[i].part : S.props[i].part[j] \in PartProp
    BY <2>1, ElementOf
  <2> QED BY <2>2 DEF PartProp
<1>4. \A k \in DOMAIN N.args : N.args[k] \in Value BY CaseParts, ElementOf
<1>5. \A k \in DOMAIN N.props : N.props[k] \in NodeProp BY CaseParts, ElementOf
<1>6. \A k \in DOMAIN N.children : N.children[k] \in NodeChild BY CaseParts, ElementOf
<1>7. \A i \in DOMAIN S.args : S.args[i].val \in Field BY <1>1 DEF Arg
<1>8. \A i \in DOMAIN S.props : S.props[i].val \in Field BY <1>2 DEF Prop
<1>9. \A k \in DOMAIN N.props : N.props[k].val \in Value BY <1>5 DEF NodeProp
<1> QED BY <1>3, <1>4, <1>6, <1>7, <1>8, <1>9

\* The decoder of any field leaves an Outcome.
LEMMA OutcomeTypes ==
  ASSUME TypeOK
  PROVE  /\ \A i \in DOMAIN S.args, k \in DOMAIN N.args :
              DecodeValue(S.args[i].val, N.args[k]) \in Outcome
         /\ \A k \in DOMAIN N.args : DecodeValue(S.argVal, N.args[k]) \in Outcome
         /\ \A i \in DOMAIN S.props, k \in DOMAIN N.props :
              DecodeValue(S.props[i].val, N.props[k].val) \in Outcome
         /\ \A i \in DOMAIN S.props : \A j \in DOMAIN S.props[i].part :
              \A k \in DOMAIN N.props :
                DecodeValue(S.props[i].part[j].val, N.props[k].val) \in Outcome
         /\ \A k \in DOMAIN N.props : DecodeValue(S.propVal, N.props[k].val) \in Outcome
         /\ \A k \in DOMAIN N.children : ChildOutcome(N.children[k]) \in Outcome
<1>1. \A f \in Field, v \in Value : DecodeValue(f, v) \in Outcome BY DecodeValueType
<1>2. S.argVal \in Field /\ S.propVal \in Field BY CaseParts
<1>3. ASSUME NEW k \in DOMAIN N.children PROVE ChildOutcome(N.children[k]) \in Outcome
  <2>1. N.children[k].own \in {"good", "soft", "hard"} BY ItemTypes DEF NodeChild
  <2> QED BY <2>1 DEF ChildOutcome, Result, Outcome
<1> QED BY <1>1, <1>2, <1>3, ItemTypes

LEMMA MoreEmitted ==
  ASSUME NEW d \in Outcome, NEW n \in Nat
  PROVE  [d EXCEPT !.emits = @ + n] \in Outcome
  BY DEF Outcome

\* The three ways a step disturbs the position and the Err of the call.
LEMMA AdvanceType ==
  ASSUME TypeOK, ~Ended, Advance, UNCHANGED raised
  PROVE  /\ phase' \in Phases /\ pos' \in Nat \ {0}
         /\ raised' \in Seq(Place) /\ Len(raised') <= 1
         /\ raised' # <<>> => phase' = "done"
  BY DEF Advance, TypeOK, Ended

LEMMA RaiseType ==
  ASSUME TypeOK, NEW loc \in Place, Raise(loc)
  PROVE  /\ phase' \in Phases /\ pos' \in Nat \ {0}
         /\ raised' \in Seq(Place) /\ Len(raised') <= 1
         /\ raised' # <<>> => phase' = "done"
<1>1. <<loc>> \in Seq(Place) /\ Len(<<loc>>) = 1 BY Singleton
<1>2. raised' = <<loc>> /\ phase' = "done" /\ pos' = pos BY DEF Raise
<1> QED BY <1>1, <1>2 DEF TypeOK, Phases

LEMMA EmitType ==
  ASSUME TypeOK, NEW loc \in Place, NEW n \in Nat, Emit(loc, n)
  PROVE  errs' \in Seq(Place)
<1>1. [k \in 1..n |-> loc] \in Seq(Place) BY Repeated
<1>2. errs \in Seq(Place) BY DEF TypeOK
<1> QED BY <1>1, <1>2, Joined DEF Emit

\* TypeOK' from what a step of the call may disturb.
LEMMA TypeKept ==
  ASSUME TypeOK, UNCHANGED case,
         phase' \in Phases, pos' \in Nat \ {0},
         vals' \in [SlotsOf(S) -> Seq(Item)], seen' \subseteq DOMAIN S.props,
         errs' \in Seq(Place), raised' \in Seq(Place), Len(raised') <= 1,
         raised' # <<>> => phase' = "done"
  PROVE  TypeOK'
<1>1. S' = S BY DEF S
<1>2. (case \in Case /\ WellFormed(case))' BY DEF TypeOK
<1> QED BY <1>1, <1>2 DEF TypeOK

\* Settling the outcome of an item keeps the types.
LEMMA SettleType ==
  ASSUME TypeOK, ~Ended, UNCHANGED case, seen' \subseteq DOMAIN S.props,
         NEW slot, NEW loc \in Place, NEW d \in Outcome, NEW grow \in BOOLEAN,
         Settle(slot, loc, d, grow)
  PROVE  TypeOK'
<1>1. errs' \in Seq(Place)
  <2>1. d.emits \in Nat BY DEF Outcome
  <2>2. Emit(loc, d.emits) BY DEF Settle
  <2> QED BY <2>1, <2>2, EmitType
<1>2. vals' \in [SlotsOf(S) -> Seq(Item)]
  <2>1. ASSUME NEW old \in Seq(Item) PROVE Stored(old, loc.pos, d, grow) \in Seq(Item)
    <3> DEFINE item == [at |-> loc.pos, clean |-> d.res = "value"]
    <3>1. item \in Item BY DEF Item, Place
    <3>2. <<item>> \in Seq(Item) BY <3>1, Singleton
    <3>3. Append(old, item) \in Seq(Item) BY <3>1, Appended
    <3>4. <<>> \in Seq(Item) OBVIOUS
    <3>5. Stored(old, loc.pos, d, grow) \in {<<>>, <<item>>, Append(old, item)} BY DEF Stored
    <3> QED BY <3>2, <3>3, <3>4, <3>5
  <2>2. vals' = vals \/ vals' = [vals EXCEPT ![slot] = Stored(@, loc.pos, d, grow)]
    BY DEF Settle
  <2> QED BY <2>1, <2>2 DEF TypeOK
<1>3. \/ Raise(loc)
      \/ Advance /\ UNCHANGED raised
  BY DEF Settle
<1> QED BY <1>1, <1>2, <1>3, RaiseType, AdvanceType, TypeKept

LEMMA FillInType ==
  ASSUME TypeOK, ~Ended, UNCHANGED case,
         NEW slot, NEW loc \in Place, NEW dflt, NEW required,
         FillIn(slot, loc, dflt, required)
  PROVE  TypeOK'
<1>1. vals' \in [SlotsOf(S) -> Seq(Item)]
  <2>1. DefaultItem \in Item BY DEF DefaultItem, Item
  <2>2. <<DefaultItem>> \in Seq(Item) BY <2>1, Singleton
  <2>3. vals' = vals \/ vals' = [vals EXCEPT ![slot] = <<DefaultItem>>] BY DEF FillIn
  <2> QED BY <2>2, <2>3 DEF TypeOK
<1>2. \/ Raise(loc)
      \/ Advance /\ UNCHANGED raised
  BY DEF FillIn
<1>3. errs' \in Seq(Place) /\ seen' \subseteq DOMAIN S.props BY DEF FillIn, TypeOK
<1> QED BY <1>1, <1>2, <1>3, RaiseType, AdvanceType, TypeKept

LEMMA TypeInit == ASSUME Init PROVE TypeOK
<1>1. case \in Case /\ WellFormed(case) BY InputsAssumption DEF Init
<1>2. phase \in Phases BY <1>1 DEF Init, FirstPhase, Phases, Case, Entry
<1>3. vals \in [SlotsOf(S) -> Seq(Item)] BY DEF Init
<1> QED BY <1>1, <1>2, <1>3 DEF TypeOK, Init

LEMMA TypeStep == ASSUME TypeOK, [Next]_vars PROVE TypeOK'
<1> USE CaseParts, OutcomeTypes
<1> DEFINE pl == \A sec \in Sections : \A p \in Nat : Loc(sec, p) \in Place
<1>0. pl BY PlaceTypes
<1>1. CASE DecodeSpecials
  <2>1. \/ Raise(Loc("name", 0)) /\ UNCHANGED errs
        \/ Raise(Loc("type", 0)) /\ UNCHANGED errs
        \/ /\ Emit(Loc("type", 0), Count(S.typeName = "absent" /\ N.ty # "none"))
           /\ Enter("args")
           /\ UNCHANGED raised
    BY <1>1 DEF DecodeSpecials
  <2>2. UNCHANGED <<case, vals, seen>> /\ phase = "specials" BY <1>1 DEF DecodeSpecials, At
  <2>3. Loc("name", 0) \in Place /\ Loc("type", 0) \in Place BY <1>0 DEF Sections
  <2>4. vals' \in [SlotsOf(S) -> Seq(Item)] /\ seen' \subseteq DOMAIN S.props
    BY <2>2 DEF TypeOK
  <2>5. CASE UNCHANGED errs /\ (Raise(Loc("name", 0)) \/ Raise(Loc("type", 0)))
    <3>1. errs' \in Seq(Place) BY <2>5 DEF TypeOK
    <3> QED BY <2>2, <2>3, <2>4, <2>5, <3>1, RaiseType, TypeKept
  <2>6. CASE /\ Emit(Loc("type", 0), Count(S.typeName = "absent" /\ N.ty # "none"))
             /\ Enter("args")
             /\ UNCHANGED raised
    <3>1. Count(S.typeName = "absent" /\ N.ty # "none") \in Nat BY DEF Count
    <3>2. errs' \in Seq(Place) BY <2>3, <2>6, <3>1, EmitType
    <3>3. raised = <<>> BY <2>2 DEF TypeOK
    <3>4. phase' \in Phases /\ pos' \in Nat \ {0} BY <2>6 DEF Enter, Phases
    <3>5. raised' \in Seq(Place) /\ Len(raised') <= 1 /\ raised' = <<>>
      BY <2>6, <3>3 DEF TypeOK
    <3> QED BY <2>2, <2>4, <3>2, <3>4, <3>5, TypeKept
  <2> QED BY <2>1, <2>5, <2>6
<1>2. CASE DecodeArg
  <2> QED BY <1>0, <1>2, SettleType DEF DecodeArg, At, Ended, TypeOK, Sections
<1>3. CASE MissingArg
  <2> QED BY <1>0, <1>3, FillInType DEF MissingArg, At, Ended, TypeOK, Sections
<1>4. CASE DecodeVarArg
  <2> QED BY <1>0, <1>4, SettleType DEF DecodeVarArg, At, Ended, TypeOK, Sections
<1>5. CASE ExtraArg
  <2> QED BY <1>0, <1>5 DEF ExtraArg, Raise, At, Ended, TypeOK, Sections, Phases, S, N
<1>6. CASE ArgsDone \/ PropsDone \/ PropsFinished \/ ChildrenDone \/ Finish
  <2> QED BY <1>6 DEF ArgsDone, PropsDone, PropsFinished, ChildrenDone, Finish, Enter, At,
                      TypeOK, Phases, S, N
<1>7. CASE NamedProp
  <2>1. PICK i \in DOMAIN S.props :
          /\ seen' = IF S.props[i].val.opt THEN seen \cup {i} ELSE seen
          /\ Settle(Slot("prop", i, 0), Loc("prop", pos),
                    DecodeValue(S.props[i].val, N.props[pos].val), FALSE)
    BY <1>7 DEF NamedProp
  <2>2. pos \in DOMAIN N.props /\ ~Ended /\ UNCHANGED case
    BY <1>7 DEF NamedProp, HereProp, At, Ended
  <2>3. seen' \subseteq DOMAIN S.props BY <2>1 DEF TypeOK
  <2> QED BY <1>0, <2>1, <2>2, <2>3, SettleType DEF TypeOK, Sections
<1>8. CASE FlattenProp
  <2>1. PICK i \in DOMAIN S.props : \E j \in DOMAIN S.props[i].part :
          Settle(Slot("prop", i, j), Loc("prop", pos),
                 DecodeValue(S.props[i].part[j].val, N.props[pos].val), FALSE)
    BY <1>8 DEF FlattenProp
  <2>2. pos \in DOMAIN N.props /\ ~Ended /\ UNCHANGED <<case, seen>>
    BY <1>8 DEF FlattenProp, HereProp, At, Ended
  <2> QED BY <1>0, <2>1, <2>2, SettleType DEF TypeOK, Sections
<1>9. CASE VarProp
  <2>1. pos \in DOMAIN N.props /\ ~Ended /\ UNCHANGED <<case, seen>>
    BY <1>9 DEF VarProp, HereProp, At, Ended
  <2>2. CASE Raise(Loc("prop", pos)) /\ UNCHANGED <<vals, errs>>
    BY <1>0, <2>1, <2>2 DEF Raise, TypeOK, Sections, Phases, S, N
  <2>3. CASE Settle(Slot("prop", 0, 0), Loc("prop", pos),
                    DecodeValue(S.propVal, N.props[pos].val), TRUE)
    BY <1>0, <2>1, <2>3, SettleType DEF TypeOK, Sections
  <2> QED BY <1>9, <2>2, <2>3 DEF VarProp
<1>10. CASE UnexpectedProp
  <2> QED BY <1>0, <1>10 DEF UnexpectedProp, Raise, HereProp, At, TypeOK, Sections, Phases, S, N
<1>11. CASE FinishProp
  <2> QED BY <1>0, <1>11, FillInType DEF FinishProp, At, Ended, TypeOK, Sections
<1>12. CASE FinishChild
  <2> QED BY <1>0, <1>12, FillInType DEF FinishChild, At, Ended, TypeOK, Sections
<1>13. ASSUME NEW slot, SetFlag(slot), HereChild, UNCHANGED <<case, seen>> PROVE TypeOK'
  <2>1. N.children[pos].extras \in Nat BY <1>13, ItemTypes DEF HereChild, NodeChild
  <2> DEFINE n == N.children[pos].extras + Count(vals[slot] # <<>>)
             flag == [at |-> pos, clean |-> N.children[pos].extras = 0]
  <2>2. n \in Nat BY <2>1 DEF Count
  <2>3. Loc("child", pos) \in Place BY <1>0 DEF TypeOK, Sections
  <2>4. errs' \in Seq(Place)
    <3> HIDE DEF n
    <3>1. Emit(Loc("child", pos), n) BY <1>13 DEF SetFlag, n
    <3> QED BY <2>2, <2>3, <3>1, EmitType
  <2>5. <<flag>> \in Seq(Item)
    <3>1. flag \in Item BY DEF TypeOK, Item
    <3> QED BY <3>1, Singleton
  <2>6. vals' \in [SlotsOf(S) -> Seq(Item)] BY <1>13, <2>5 DEF SetFlag, TypeOK
  <2>7. Advance /\ UNCHANGED raised /\ ~Ended
    BY <1>13 DEF SetFlag, HereChild, At, Ended
  <2>8. seen' \subseteq DOMAIN S.props BY <1>13 DEF TypeOK
  <2> QED BY <1>13, <2>4, <2>6, <2>7, <2>8, AdvanceType, TypeKept
<1>14. CASE NormalChild
  <2>1. PICK i \in DOMAIN S.children :
          /\ HereArm(i, "Normal")
          /\ \/ Raise(Loc("child", pos)) /\ UNCHANGED <<vals, errs>>
             \/ Settle(Slot("child", i, 0), Loc("child", pos),
                       ChildOutcome(N.children[pos]), FALSE)
    BY <1>14 DEF NormalChild
  <2>2. pos \in DOMAIN N.children /\ ~Ended /\ UNCHANGED <<case, seen>>
    BY <1>14, <2>1 DEF NormalChild, HereArm, HereChild, At, Ended
  <2>3. CASE Raise(Loc("child", pos)) /\ UNCHANGED <<vals, errs>>
    BY <1>0, <2>2, <2>3 DEF Raise, TypeOK, Sections, Phases, S, N
  <2>4. CASE Settle(Slot("child", i, 0), Loc("child", pos),
                    ChildOutcome(N.children[pos]), FALSE)
    BY <1>0, <2>2, <2>4, SettleType DEF TypeOK, Sections
  <2> QED BY <2>1, <2>3, <2>4
<1>15. CASE MultiChild
  <2> QED BY <1>0, <1>15, SettleType
          DEF MultiChild, HereArm, HereChild, At, Ended, TypeOK, Sections
<1>16. CASE FlagChild
  <2> QED BY <1>13, <1>16 DEF FlagChild, HereArm
<1>17. CASE FlattenChild
  <2>1. PICK i \in DOMAIN S.children : \E j \in DOMAIN S.children[i].part :
          /\ HereArm(i, "Flatten")
          /\ \/ SetFlag(Slot("child", i, j))
             \/ Settle(Slot("child", i, j), Loc("child", pos),
                       [ChildOutcome(N.children[pos]) EXCEPT
                          !.emits = @ + Count(vals[Slot("child", i, j)] # <<>>)], FALSE)
    BY <1>17 DEF FlattenChild
  <2>2. pos \in DOMAIN N.children /\ HereChild /\ ~Ended /\ UNCHANGED <<case, seen>>
    BY <1>17, <2>1 DEF FlattenChild, HereArm, HereChild, At, Ended
  <2>3. ASSUME NEW slot PROVE [ChildOutcome(N.children[pos]) EXCEPT
                                 !.emits = @ + Count(vals[slot] # <<>>)] \in Outcome
    <3>1. ChildOutcome(N.children[pos]) \in Outcome BY <2>2
    <3>2. Count(vals[slot] # <<>>) \in Nat BY DEF Count
    <3> QED BY <3>1, <3>2, MoreEmitted
  <2> QED BY <1>0, <1>13, <2>1, <2>2, <2>3, SettleType DEF TypeOK, Sections
<1>18. CASE VarChild
  <2> QED BY <1>0, <1>18, SettleType DEF VarChild, HereChild, At, Ended, TypeOK, Sections
<1>19. CASE UnexpectedChild
  <2>1. Emit(Loc("child", pos), 1) /\ Advance /\ ~Ended /\ UNCHANGED <<case, vals, seen, raised>>
    BY <1>19 DEF UnexpectedChild, HereChild, At, Ended
  <2>2. Loc("child", pos) \in Place BY <1>0 DEF TypeOK, Sections
  <2>3. errs' \in Seq(Place) BY <2>1, <2>2, EmitType
  <2>4. vals' \in [SlotsOf(S) -> Seq(Item)] /\ seen' \subseteq DOMAIN S.props
    BY <2>1 DEF TypeOK
  <2> QED BY <2>1, <2>3, <2>4, AdvanceType, TypeKept
<1>20. CASE UNCHANGED vars
  BY <1>20 DEF vars, TypeOK, S, N
<1> QED BY <1>1, <1>2, <1>3, <1>4, <1>5, <1>6, <1>7, <1>8, <1>9, <1>10, <1>11, <1>12,
           <1>14, <1>15, <1>16, <1>17, <1>18, <1>19, <1>20 DEF Next

\* The variables keep their types whatever the schema and the node.
THEOREM TypeCorrect == Spec => []TypeOK
<1>1. Init => TypeOK BY TypeInit
<1>2. TypeOK /\ [Next]_vars => TypeOK' BY TypeStep
<1> QED BY <1>1, <1>2, PTL DEF Spec
----------------------------------------------------------------------------

\* An emitted error is in the Context afterwards, and what was there stays.
LEMMA EmitAdds ==
  ASSUME TypeOK, NEW loc \in Place, NEW n \in Nat, Emit(loc, n)
  PROVE  /\ Range(errs) \subseteq Range(errs')
         /\ n > 0 => loc \in Range(errs')
<1> DEFINE more == [k \in 1..n |-> loc]
<1>1. errs \in Seq(Place) BY DEF TypeOK
<1>2. more \in Seq(Place) /\ Len(more) = n BY Repeated
<1>3. errs' = errs \o more BY DEF Emit
<1>4. \A k \in DOMAIN errs : k \in DOMAIN errs' /\ errs'[k] = errs[k]
  BY <1>1, <1>2, <1>3
<1>5. ASSUME n > 0 PROVE loc \in Range(errs')
  <2>1. Len(errs) + 1 \in DOMAIN errs' BY <1>1, <1>2, <1>3, <1>5
  <2>2. errs'[Len(errs) + 1] = loc BY <1>1, <1>2, <1>3, <1>5
  <2> QED BY <2>1, <2>2 DEF Range
<1> QED BY <1>4, <1>5 DEF Range

\* A placeholder that settling stores was reported by the same step.
LEMMA SettleReports ==
  ASSUME TypeOK, PlaceholdersAreReported, UNCHANGED case,
         NEW slot, NEW loc \in Place, slot.sec = loc.sec,
         NEW d \in Outcome, d.res = "dummy" => d.emits > 0,
         NEW grow \in BOOLEAN, Settle(slot, loc, d, grow)
  PROVE  PlaceholdersAreReported'
<1>1. d.emits \in Nat BY DEF Outcome
<1>2. /\ Range(errs) \subseteq Range(errs')
      /\ d.emits > 0 => loc \in Range(errs')
  <2>1. Emit(loc, d.emits) BY DEF Settle
  <2> QED BY <1>1, <2>1, EmitAdds
<1>3. loc = Loc(loc.sec, loc.pos) BY DEF Loc, Place
<1>4. S' = S BY DEF S
<1> SUFFICES ASSUME NEW s \in SlotsOf(S), NEW h \in DOMAIN vals'[s]
             PROVE  vals'[s][h].clean \/ Loc(s.sec, vals'[s][h].at) \in Range(errs')
  BY <1>4 DEF PlaceholdersAreReported
<1> DEFINE item == [at |-> loc.pos, clean |-> d.res = "value"]
<1>5. vals[s] \in Seq(Item) BY DEF TypeOK
<1>6. \A g \in DOMAIN vals[s] :
        vals[s][g].clean \/ Loc(s.sec, vals[s][g].at) \in Range(errs')
  BY <1>2 DEF PlaceholdersAreReported
<1>7. CASE vals' = vals BY <1>6, <1>7
<1>8. CASE vals' # vals
  <2>1. d.res # "fail" /\ vals' = [vals EXCEPT ![slot] = Stored(@, loc.pos, d, grow)]
    BY <1>8 DEF Settle
  <2>2. CASE s # slot
    <3>1. vals'[s] = vals[s] BY <2>1, <2>2 DEF TypeOK
    <3> QED BY <1>6, <3>1
  <2>3. CASE s = slot
    <3>1. vals'[s] = Stored(vals[s], loc.pos, d, grow) BY <2>1, <2>3 DEF TypeOK
    <3>2. CASE d.res = "null" BY <3>1, <3>2 DEF Stored
    <3>3. CASE d.res # "null"
      <4>1. vals'[s] = Append(vals[s], item) \/ vals'[s] = <<item>>
        BY <3>1, <3>3 DEF Stored
      <4>2. vals'[s][h] = item \/ (h \in DOMAIN vals[s] /\ vals'[s][h] = vals[s][h])
        BY <1>5, <4>1
      <4>3. item.clean \/ Loc(s.sec, item.at) \in Range(errs')
        <5>1. d.res \in {"value", "dummy"} BY <2>1, <3>3 DEF Outcome
        <5> QED BY <1>2, <1>3, <2>3, <5>1
      <4> QED BY <1>6, <4>2, <4>3
    <3> QED BY <3>2, <3>3
  <2> QED BY <2>2, <2>3
<1> QED BY <1>7, <1>8

\* A step that leaves the fields alone cannot break the property: errors are
\* only ever added.
LEMMA UntouchedReports ==
  ASSUME TypeOK, PlaceholdersAreReported, UNCHANGED <<case, vals>>,
         Range(errs) \subseteq Range(errs')
  PROVE  PlaceholdersAreReported'
<1>1. S' = S BY DEF S
<1> QED BY <1>1 DEF PlaceholdersAreReported

\* A default is a value.
LEMMA FillInReports ==
  ASSUME TypeOK, PlaceholdersAreReported, UNCHANGED case,
         NEW slot, NEW loc, NEW dflt, NEW required,
         FillIn(slot, loc, dflt, required)
  PROVE  PlaceholdersAreReported'
<1>1. S' = S BY DEF S
<1>2. errs' = errs BY DEF FillIn
<1>3. vals' = vals \/ vals' = [vals EXCEPT ![slot] = <<DefaultItem>>] BY DEF FillIn
<1> SUFFICES ASSUME NEW s \in SlotsOf(S), NEW h \in DOMAIN vals'[s]
             PROVE  vals'[s][h].clean \/ Loc(s.sec, vals'[s][h].at) \in Range(errs')
  BY <1>1 DEF PlaceholdersAreReported
<1>4. vals'[s] = vals[s] \/ vals'[s] = <<DefaultItem>> BY <1>3 DEF TypeOK
<1>5. CASE vals'[s] = vals[s] BY <1>2, <1>5 DEF PlaceholdersAreReported
<1>6. CASE vals'[s] = <<DefaultItem>>
  <2>1. vals'[s][h] = DefaultItem BY <1>6
  <2> QED BY <2>1 DEF DefaultItem
<1> QED BY <1>4, <1>5, <1>6

\* A flag that was written with arguments, properties or children is set, and
\* each of them is reported.
LEMMA SetFlagReports ==
  ASSUME TypeOK, PlaceholdersAreReported, UNCHANGED case,
         NEW slot, slot.sec = "child", HereChild, SetFlag(slot)
  PROVE  PlaceholdersAreReported'
<1> DEFINE extras == N.children[pos].extras
           n      == extras + Count(vals[slot] # <<>>)
           flag   == [at |-> pos, clean |-> extras = 0]
<1>1. extras \in Nat BY ItemTypes DEF HereChild, NodeChild
<1>2. n \in Nat /\ n >= extras BY <1>1 DEF Count
<1>3. Emit(Loc("child", pos), n) BY DEF SetFlag
<1>4. /\ Range(errs) \subseteq Range(errs')
      /\ n > 0 => Loc("child", pos) \in Range(errs')
  <2> HIDE DEF n
  <2>1. pos \in Nat BY DEF TypeOK
  <2>2. Loc("child", pos) \in Place BY <2>1, PlaceTypes DEF Sections
  <2> QED BY <1>2, <1>3, <2>2, EmitAdds
<1>5. vals' = [vals EXCEPT ![slot] = IF @ = <<>> THEN <<flag>> ELSE @] BY DEF SetFlag
<1>6. S' = S BY DEF S
<1> SUFFICES ASSUME NEW s \in SlotsOf(S), NEW h \in DOMAIN vals'[s]
             PROVE  vals'[s][h].clean \/ Loc(s.sec, vals'[s][h].at) \in Range(errs')
  BY <1>6 DEF PlaceholdersAreReported
<1>7. vals'[s] = vals[s] \/ (s = slot /\ vals'[s] = <<flag>>) BY <1>5 DEF TypeOK
<1>8. CASE vals'[s] = vals[s] BY <1>4, <1>8 DEF PlaceholdersAreReported
<1>9. CASE s = slot /\ vals'[s] = <<flag>>
  <2>1. vals'[s][h] = flag BY <1>9
  <2>2. flag.at = pos /\ (extras = 0 => flag.clean) OBVIOUS
  <2>3. extras = 0 \/ n > 0 BY <1>1, <1>2
  <2>4. CASE extras = 0 BY <2>1, <2>2, <2>4
  <2>5. CASE n > 0
    <3> HIDE DEF n, flag
    <3>1. Loc(s.sec, vals'[s][h].at) = Loc("child", pos) BY <1>9, <2>1, <2>2
    <3> QED BY <1>4, <2>5, <3>1
  <2> QED BY <2>3, <2>4, <2>5
<1> QED BY <1>7, <1>8, <1>9

\* What the decoder of a child calls a placeholder it has reported.
LEMMA ChildDummyIsEmitted ==
  ASSUME NEW child \in NodeChild, ChildOutcome(child).res = "dummy"
  PROVE  ChildOutcome(child).emits > 0
<1>1. child.own \in {"good", "soft", "hard"} BY DEF NodeChild
<1> QED BY <1>1 DEF ChildOutcome, Result

LEMMA ReportedStep ==
  ASSUME TypeOK, PlaceholdersAreReported, [Next]_vars
  PROVE  PlaceholdersAreReported'
<1>0. /\ pos \in Nat
      /\ \A sec \in Sections : Loc(sec, pos) \in Place /\ Loc(sec, pos).sec = sec
      /\ \A sec, i, j : Slot(sec, i, j).sec = sec
  <2>1. pos \in Nat BY DEF TypeOK
  <2> QED BY <2>1, PlaceTypes DEF Loc, Slot
<1>1. ASSUME UNCHANGED <<case, vals, errs>> PROVE PlaceholdersAreReported'
  BY <1>1, UntouchedReports
<1>2. ASSUME NEW f \in Field, NEW v \in Value, NEW sec \in {"arg", "prop"}, NEW i, NEW j,
             NEW grow \in BOOLEAN, UNCHANGED case,
             Settle(Slot(sec, i, j), Loc(sec, pos), DecodeValue(f, v), grow)
      PROVE  PlaceholdersAreReported'
  <2>1. DecodeValue(f, v) \in Outcome BY DecodeValueType
  <2>2. DecodeValue(f, v).res = "dummy" => DecodeValue(f, v).emits > 0 BY DummyIsEmitted
  <2>3. Loc(sec, pos) \in Place /\ Slot(sec, i, j).sec = Loc(sec, pos).sec
    BY <1>0 DEF Sections
  <2> QED BY <1>2, <2>1, <2>2, <2>3, SettleReports
<1>3. ASSUME HereChild, NEW i, NEW j, NEW n \in Nat, NEW grow \in BOOLEAN, UNCHANGED case,
             Settle(Slot("child", i, j), Loc("child", pos),
                    [ChildOutcome(N.children[pos]) EXCEPT !.emits = @ + n], grow)
      PROVE  PlaceholdersAreReported'
  <2> DEFINE own == ChildOutcome(N.children[pos])
  <2>1. N.children[pos] \in NodeChild /\ own \in Outcome
    BY <1>3, ItemTypes, OutcomeTypes DEF HereChild
  <2>2. own.res = "dummy" => own.emits > 0 BY <2>1, ChildDummyIsEmitted
  <2> HIDE DEF own
  <2> DEFINE d == [own EXCEPT !.emits = @ + n]
  <2>3. d \in Outcome BY <2>1, MoreEmitted
  <2>4. d.res = "dummy" => d.emits > 0 BY <2>1, <2>2 DEF Outcome
  <2>5. Settle(Slot("child", i, j), Loc("child", pos), d, grow) BY <1>3 DEF own
  <2>6. Loc("child", pos) \in Place /\ Slot("child", i, j).sec = Loc("child", pos).sec
    BY <1>0 DEF Sections
  <2> HIDE DEF d
  <2> QED BY <1>3, <2>3, <2>4, <2>5, <2>6, SettleReports
<1>4. ASSUME HereChild, NEW i, NEW j, NEW grow \in BOOLEAN, UNCHANGED case,
             Settle(Slot("child", i, j), Loc("child", pos), ChildOutcome(N.children[pos]), grow)
      PROVE  PlaceholdersAreReported'
  <2> DEFINE own == ChildOutcome(N.children[pos])
  <2>1. N.children[pos] \in NodeChild /\ own \in Outcome
    BY <1>4, ItemTypes, OutcomeTypes DEF HereChild
  <2>2. own.res = "dummy" => own.emits > 0 BY <2>1, ChildDummyIsEmitted
  <2>3. Loc("child", pos) \in Place /\ Slot("child", i, j).sec = Loc("child", pos).sec
    BY <1>0 DEF Sections
  <2> QED BY <1>4, <2>1, <2>2, <2>3, SettleReports
<1>5. ASSUME NEW sec \in {"noArg", "noProp", "noChild"}, NEW s, NEW a, NEW b, UNCHANGED case,
             FillIn(s, Loc(sec, pos), a, b)
      PROVE  PlaceholdersAreReported'
  BY <1>5, FillInReports
<1>6. CASE DecodeSpecials
  <2>1. UNCHANGED <<case, vals>> BY <1>6 DEF DecodeSpecials
  <2>2. UNCHANGED errs \/ Emit(Loc("type", 0), Count(S.typeName = "absent" /\ N.ty # "none"))
    BY <1>6 DEF DecodeSpecials
  <2>3. Range(errs) \subseteq Range(errs')
    <3>1. Count(S.typeName = "absent" /\ N.ty # "none") \in Nat BY DEF Count
    <3>2. Loc("type", 0) \in Place BY PlaceTypes DEF Sections
    <3> QED BY <2>2, <3>1, <3>2, EmitAdds
  <2> QED BY <2>1, <2>3, UntouchedReports
<1>7. CASE DecodeArg \/ DecodeVarArg
  BY <1>2, <1>7, ItemTypes, CaseParts DEF DecodeArg, DecodeVarArg
<1>8. CASE MissingArg \/ FinishProp \/ FinishChild
  BY <1>5, <1>8 DEF MissingArg, FinishProp, FinishChild
<1>9. CASE ExtraArg \/ ArgsDone \/ UnexpectedProp \/ PropsDone \/ PropsFinished
            \/ ChildrenDone \/ Finish
  BY <1>1, <1>9 DEF ExtraArg, ArgsDone, UnexpectedProp, PropsDone, PropsFinished,
                    ChildrenDone, Finish
<1>10. CASE NamedProp \/ FlattenProp
  BY <1>2, <1>10, ItemTypes DEF NamedProp, FlattenProp, HereProp
<1>11. CASE VarProp
  BY <1>1, <1>2, <1>11, ItemTypes, CaseParts DEF VarProp, HereProp
<1>12. CASE NormalChild
  BY <1>1, <1>4, <1>12 DEF NormalChild, HereArm
<1>13. CASE MultiChild \/ VarChild
  BY <1>4, <1>13 DEF MultiChild, VarChild, HereArm
<1>14. CASE FlagChild
  BY <1>0, <1>14, SetFlagReports DEF FlagChild, HereArm
<1>15. CASE FlattenChild
  <2>1. PICK i \in DOMAIN S.children : \E j \in DOMAIN S.children[i].part :
          /\ HereArm(i, "Flatten")
          /\ \/ SetFlag(Slot("child", i, j))
             \/ Settle(Slot("child", i, j), Loc("child", pos),
                       [ChildOutcome(N.children[pos]) EXCEPT
                          !.emits = @ + Count(vals[Slot("child", i, j)] # <<>>)], FALSE)
    BY <1>15 DEF FlattenChild
  <2>2. HereChild /\ UNCHANGED case BY <1>15, <2>1 DEF FlattenChild, HereArm
  <2>3. \A s : Count(vals[s] # <<>>) \in Nat BY DEF Count
  <2> QED BY <1>0, <1>3, <2>1, <2>2, <2>3, SetFlagReports
<1>16. CASE UnexpectedChild
  <2>1. Emit(Loc("child", pos), 1) /\ UNCHANGED <<case, vals>>
    BY <1>16 DEF UnexpectedChild
  <2>2. Range(errs) \subseteq Range(errs')
    <3>1. Loc("child", pos) \in Place BY <1>0 DEF Sections
    <3> QED BY <2>1, <3>1, EmitAdds
  <2> QED BY <2>1, <2>2, UntouchedReports
<1>17. CASE UNCHANGED vars
  BY <1>1, <1>17 DEF vars
<1> QED BY <1>6, <1>7, <1>8, <1>9, <1>10, <1>11, <1>12, <1>13, <1>14, <1>15, <1>16, <1>17
        DEF Next

\* Whatever the schema and the node, no field ever holds a placeholder that the
\* Context does not know of.
THEOREM PlaceholdersReported == Spec => []PlaceholdersAreReported
<1>1. Init => TypeOK /\ PlaceholdersAreReported
  <2>1. Init => TypeOK BY TypeInit
  <2>2. Init => PlaceholdersAreReported BY DEF Init, PlaceholdersAreReported
  <2> QED BY <2>1, <2>2
<1>2. TypeOK /\ PlaceholdersAreReported /\ [Next]_vars
        => (TypeOK /\ PlaceholdersAreReported)'
  BY TypeStep, ReportedStep
<1> QED BY <1>1, <1>2, PTL DEF Spec

-----------------------------------------------------------------------------
(***************************************************************************)
(* The order of the report: every reported place belongs to a phase that  *)
(* has come, and within a phase to an item that has been looked at.        *)
(***************************************************************************)

\* The phases in their order, and the one a place belongs to.
Stage(p) == CASE p = "specials"     -> 0 [] p = "args"     -> 1 [] p = "props" -> 2
              [] p = "propsPost"    -> 3 [] p = "children" -> 4
              [] p = "childrenPost" -> 5 [] p = "done"     -> 6
StageOf(sec) == CASE sec \in {"name", "type"} -> 0 [] sec \in {"arg", "noArg"} -> 1
                  [] sec = "prop"             -> 2 [] sec = "noProp"           -> 3
                  [] sec = "child"            -> 4 [] sec = "noChild"          -> 5

\* The place the call has come to, and the places behind it.
Current(l) == /\ StageOf(l.sec) = Stage(phase)
              /\ l.pos = IF phase = "specials" THEN 0 ELSE pos
Behind(l)  == /\ phase # "specials"
              /\ \/ StageOf(l.sec) < Stage(phase)
                 \/ StageOf(l.sec) = Stage(phase) /\ l.pos < pos

\* A step blames the current place only, n times; then it returns Err or goes
\* on behind that place.
Emitted == {"type", "arg", "prop", "child"}
Onward == \/ Advance /\ phase # "specials"
          \/ Stage(phase') > Stage(phase)
Blames(l, n) == /\ Current(l)
                /\ n > 0 => l.sec \in Emitted
                /\ Emit(l, n)
                /\ Raise(l) \/ (UNCHANGED raised /\ Onward)

LEMMA EmitNothing ==
  ASSUME TypeOK, NEW loc, UNCHANGED errs
  PROVE  Emit(loc, 0)
<1>1. errs \in Seq(Place) BY DEF TypeOK
<1>2. [k \in 1..0 |-> loc] = <<>> OBVIOUS
<1> QED BY <1>1, <1>2 DEF Emit

LEMMA SettleBlames ==
  ASSUME TypeOK, NEW slot, NEW loc \in Place, NEW d \in Outcome, NEW grow,
         Settle(slot, loc, d, grow), Current(loc), loc.sec \in Emitted, phase # "specials"
  PROVE  \E l \in Place, n \in Nat : Blames(l, n)
<1>1. d.emits \in Nat BY DEF Outcome
<1>2. Blames(loc, d.emits) BY DEF Settle, Blames, Onward
<1> QED BY <1>1, <1>2

LEMMA FillInBlames ==
  ASSUME TypeOK, NEW slot, NEW loc \in Place, NEW dflt, NEW required,
         FillIn(slot, loc, dflt, required), Current(loc), phase # "specials"
  PROVE  \E l \in Place, n \in Nat : Blames(l, n)
<1>1. Blames(loc, 0) BY EmitNothing DEF FillIn, Blames, Onward
<1> QED BY <1>1

LEMMA SetFlagBlames ==
  ASSUME TypeOK, HereChild, NEW slot, SetFlag(slot)
  PROVE  \E l \in Place, n \in Nat : Blames(l, n)
<1> DEFINE n == N.children[pos].extras + Count(vals[slot] # <<>>)
           loc == Loc("child", pos)
<1>1. N.children[pos].extras \in Nat BY ItemTypes DEF HereChild, NodeChild
<1>2. n \in Nat BY <1>1 DEF Count
<1>3. loc \in Place BY PlaceTypes DEF TypeOK, Sections
<1>4. phase = "children" BY DEF HereChild, At
<1>5. Current(loc) /\ loc.sec \in Emitted
  BY <1>4 DEF Current, Loc, Stage, StageOf, Emitted
<1>6. Emit(loc, n) /\ Advance /\ UNCHANGED raised BY DEF SetFlag
<1> HIDE DEF n, loc
<1>7. Blames(loc, n) BY <1>4, <1>5, <1>6 DEF Blames, Onward
<1> QED BY <1>2, <1>3, <1>7

\* Whatever the step, it blames one place, and that is the current one.
LEMMA StepBlames ==
  ASSUME TypeOK, Next
  PROVE  \E l \in Place, n \in Nat : Blames(l, n)
<1>0. /\ pos \in Nat
      /\ \A sec \in Sections : Loc(sec, pos) \in Place /\ Loc(sec, 0) \in Place
      /\ \A sec, p : Loc(sec, p).sec = sec /\ Loc(sec, p).pos = p
  <2>1. pos \in Nat BY DEF TypeOK
  <2> QED BY <2>1, PlaceTypes DEF Loc
<1>1. CASE DecodeSpecials
  <2>1. phase = "specials" BY <1>1 DEF DecodeSpecials, At
  <2>2. Current(Loc("name", 0)) /\ Current(Loc("type", 0))
    BY <1>0, <2>1 DEF Current, Stage, StageOf
  <2>3. CASE UNCHANGED errs /\ (Raise(Loc("name", 0)) \/ Raise(Loc("type", 0)))
    <3>1. \A l : Emit(l, 0) BY <2>3, EmitNothing
    <3>2. \/ Blames(Loc("name", 0), 0)
          \/ Blames(Loc("type", 0), 0)
      BY <2>2, <2>3, <3>1 DEF Blames
    <3> QED BY <1>0, <3>2 DEF Sections
  <2>4. CASE /\ Emit(Loc("type", 0), Count(S.typeName = "absent" /\ N.ty # "none"))
             /\ Enter("args")
             /\ UNCHANGED raised
    <3> DEFINE n == Count(S.typeName = "absent" /\ N.ty # "none")
    <3>1. n \in Nat BY DEF Count
    <3>2. Onward BY <2>1, <2>4 DEF Onward, Enter, Stage
    <3> HIDE DEF n
    <3>3. Emit(Loc("type", 0), n) /\ UNCHANGED raised BY <2>4 DEF n
    <3>4. Loc("type", 0).sec \in Emitted BY <1>0 DEF Emitted
    <3>5. Blames(Loc("type", 0), n) BY <2>2, <3>2, <3>3, <3>4 DEF Blames
    <3> QED BY <1>0, <3>1, <3>5 DEF Sections
  <2> QED BY <1>1, <2>3, <2>4 DEF DecodeSpecials
<1>2. ASSUME phase = "args"
      PROVE  /\ Current(Loc("arg", pos)) /\ Loc("arg", pos).sec \in Emitted
             /\ Current(Loc("noArg", pos))
             /\ Loc("arg", pos) \in Place /\ Loc("noArg", pos) \in Place
  BY <1>0, <1>2 DEF Current, Stage, StageOf, Emitted, Sections
<1>3. ASSUME phase = "props"
      PROVE  Current(Loc("prop", pos)) /\ Loc("prop", pos).sec \in Emitted
             /\ Loc("prop", pos) \in Place
  BY <1>0, <1>3 DEF Current, Stage, StageOf, Emitted, Sections
<1>4. ASSUME phase = "propsPost"
      PROVE  Current(Loc("noProp", pos)) /\ Loc("noProp", pos) \in Place
  BY <1>0, <1>4 DEF Current, Stage, StageOf, Sections
<1>5. ASSUME phase = "children"
      PROVE  Current(Loc("child", pos)) /\ Loc("child", pos).sec \in Emitted
             /\ Loc("child", pos) \in Place
  BY <1>0, <1>5 DEF Current, Stage, StageOf, Emitted, Sections
<1>6. ASSUME phase = "childrenPost"
      PROVE  Current(Loc("noChild", pos)) /\ Loc("noChild", pos) \in Place
  BY <1>0, <1>6 DEF Current, Stage, StageOf, Sections
<1>7. ASSUME NEW l \in Place, Current(l), UNCHANGED <<errs>>,
             Raise(l) \/ (UNCHANGED raised /\ Onward)
      PROVE  \E m \in Place, n \in Nat : Blames(m, n)
  <2>1. Blames(l, 0) BY <1>7, EmitNothing DEF Blames
  <2> QED BY <2>1
<1>8. CASE DecodeArg \/ DecodeVarArg
  BY <1>2, <1>8, OutcomeTypes, SettleBlames DEF DecodeArg, DecodeVarArg, At
<1>9. CASE MissingArg
  BY <1>2, <1>9, FillInBlames DEF MissingArg, At
<1>10. CASE ExtraArg
  BY <1>2, <1>7, <1>10 DEF ExtraArg, At
<1>11. CASE NamedProp \/ FlattenProp
  BY <1>3, <1>11, OutcomeTypes, SettleBlames DEF NamedProp, FlattenProp, HereProp, At
<1>12. CASE VarProp
  BY <1>3, <1>7, <1>12, OutcomeTypes, SettleBlames DEF VarProp, HereProp, At
<1>13. CASE UnexpectedProp
  BY <1>3, <1>7, <1>13 DEF UnexpectedProp, HereProp, At
<1>14. CASE FinishProp
  BY <1>4, <1>14, FillInBlames DEF FinishProp, At
<1>15. CASE NormalChild
  BY <1>5, <1>7, <1>15, OutcomeTypes, SettleBlames DEF NormalChild, HereArm, HereChild, At
<1>16. CASE MultiChild \/ VarChild
  BY <1>5, <1>16, OutcomeTypes, SettleBlames DEF MultiChild, VarChild, HereArm, HereChild, At
<1>17. CASE FlagChild
  BY <1>17, SetFlagBlames DEF FlagChild, HereArm
<1>18. CASE FlattenChild
  <2>1. PICK i \in DOMAIN S.children : \E j \in DOMAIN S.children[i].part :
          /\ HereArm(i, "Flatten")
          /\ \/ SetFlag(Slot("child", i, j))
             \/ Settle(Slot("child", i, j), Loc("child", pos),
                       [ChildOutcome(N.children[pos]) EXCEPT
                          !.emits = @ + Count(vals[Slot("child", i, j)] # <<>>)], FALSE)
    BY <1>18 DEF FlattenChild
  <2>2. HereChild BY <2>1 DEF HereArm
  <2>3. \A s : [ChildOutcome(N.children[pos]) EXCEPT
                  !.emits = @ + Count(vals[s] # <<>>)] \in Outcome
    <3>1. ChildOutcome(N.children[pos]) \in Outcome BY <2>2, OutcomeTypes DEF HereChild
    <3>2. \A s : Count(vals[s] # <<>>) \in Nat BY DEF Count
    <3> QED BY <3>1, <3>2, MoreEmitted
  <2>4. phase = "children" BY <2>2 DEF HereChild, At
  <2> QED BY <1>5, <2>1, <2>2, <2>3, <2>4, SetFlagBlames, SettleBlames
<1>19. CASE UnexpectedChild
  <2>1. phase = "children" /\ Emit(Loc("child", pos), 1) /\ Advance /\ UNCHANGED raised
    BY <1>19 DEF UnexpectedChild, HereChild, At
  <2>2. Blames(Loc("child", pos), 1) BY <1>5, <2>1 DEF Blames, Onward
  <2> QED BY <1>5, <2>1, <2>2
<1>20. CASE FinishChild
  BY <1>6, <1>20, FillInBlames DEF FinishChild, At
<1>21. CASE ArgsDone \/ PropsDone \/ PropsFinished \/ ChildrenDone \/ Finish
  <2>1. UNCHANGED <<errs, raised>>
    BY <1>21 DEF ArgsDone, PropsDone, PropsFinished, ChildrenDone, Finish
  <2>2. Onward
    BY <1>21 DEF ArgsDone, PropsDone, PropsFinished, ChildrenDone, Finish, Onward,
                 Enter, At, Stage
  <2>3. phase \in {"args", "props", "propsPost", "children", "childrenPost"}
    BY <1>21 DEF ArgsDone, PropsDone, PropsFinished, ChildrenDone, Finish, At
  <2> QED BY <1>2, <1>3, <1>4, <1>5, <1>6, <1>7, <2>1, <2>2, <2>3
<1> QED BY <1>1, <1>8, <1>9, <1>10, <1>11, <1>12, <1>13, <1>14, <1>15, <1>16, <1>17,
           <1>18, <1>19, <1>20, <1>21 DEF Next

\* While the call runs, the Context has errors of places behind only, and only
\* of the kinds that are emitted.
ErrorsAreBehind ==
  raised = <<>> => \A k \in DOMAIN errs : Behind(errs[k]) /\ errs[k].sec \in Emitted

LEMMA BehindIsNotAfter ==
  ASSUME TypeOK, NEW e \in Place, e.sec \in Emitted, Behind(e), NEW l \in Place, Current(l)
  PROVE  NotAfter(e, l)
<1>1. e.pos \in Nat /\ l.pos \in Nat /\ pos \in Nat BY DEF Place, TypeOK
<1>2. l.sec \in Sections /\ phase \in Phases BY DEF Place, TypeOK
<1> QED BY <1>1, <1>2 DEF Behind, Current, Emitted, NotAfter, Rank, Sections, Phases, Stage, StageOf

\* A sequence of places in order, and one that ends at or before a place.
InOrder(s)  == \A g, h \in DOMAIN s : g < h => NotAfter(s[g], s[h])
UpTo(s, l)  == \A g \in DOMAIN s : NotAfter(s[g], l)
Times(n, l) == [k \in 1..n |-> l]

LEMMA RepeatKeepsOrder ==
  ASSUME NEW s \in Seq(Place), NEW l \in Place, NEW n \in Nat, InOrder(s), UpTo(s, l)
  PROVE  /\ s \o Times(n, l) \in Seq(Place)
         /\ InOrder(s \o Times(n, l)) /\ UpTo(s \o Times(n, l), l)
         /\ \A g \in DOMAIN (s \o Times(n, l)) :
              \/ (s \o Times(n, l))[g] = l /\ n > 0
              \/ g \in DOMAIN s /\ (s \o Times(n, l))[g] = s[g]
<1> DEFINE more == Times(n, l)
           t    == s \o more
<1>1. more \in Seq(Place) /\ Len(more) = n /\ \A k \in 1..n : more[k] = l
  BY Repeated DEF Times
<1>2. NotAfter(l, l) BY DEF NotAfter, Place
<1> HIDE DEF more
<1>3. \A g \in DOMAIN t : \/ g \in DOMAIN s /\ t[g] = s[g]
                          \/ g > Len(s) /\ n > 0 /\ t[g] = l
  BY <1>1
<1>4. \A g, h \in DOMAIN t : h \in DOMAIN s /\ g < h => g \in DOMAIN s
  BY <1>1
<1>5. t \in Seq(Place) BY <1>1, Joined
<1> HIDE DEF t
<1>6. InOrder(t) /\ UpTo(t, l) BY <1>2, <1>3, <1>4 DEF InOrder, UpTo
<1> QED BY <1>3, <1>5, <1>6 DEF t, more

LEMMA StageNumbers ==
  /\ \A p \in Phases : Stage(p) \in Nat /\ (Stage(p) = 0 <=> p = "specials")
  /\ \A sec \in Sections : StageOf(sec) \in Nat
  BY DEF Phases, Sections, Stage, StageOf

LEMMA OrderStep ==
  ASSUME TypeOK, ErrorsAreBehind, ErrorsInDecodingOrder, Next
  PROVE  ErrorsAreBehind' /\ ErrorsInDecodingOrder'
<1>1. PICK l \in Place, n \in Nat : Blames(l, n) BY StepBlames
<1>2. raised = <<>> /\ errs \in Seq(Place)
  <2>1. CASE raised # <<>>
    <3>1. phase = "done" BY <2>1 DEF TypeOK
    <3>2. ~Current(l) BY <3>1 DEF Current, Stage, StageOf, Place, Sections
    <3> QED BY <1>1, <3>2 DEF Blames
  <2> QED BY <2>1 DEF TypeOK
<1>3. \A g \in DOMAIN errs : NotAfter(errs[g], l)
  <2>1. \A g \in DOMAIN errs : errs[g] \in Place /\ Behind(errs[g]) /\ errs[g].sec \in Emitted
    BY <1>2 DEF ErrorsAreBehind
  <2> QED BY <1>1, <2>1, BehindIsNotAfter DEF Blames
<1>4. InOrder(errs) /\ UpTo(errs, l)
  <2>1. errs \o <<>> = errs BY <1>2
  <2> QED BY <1>2, <1>3, <2>1 DEF ErrorsInDecodingOrder, InOrder, UpTo
<1>5. errs' = errs \o Times(n, l) BY <1>1 DEF Blames, Emit, Times
<1>6. /\ errs' \in Seq(Place) /\ InOrder(errs') /\ UpTo(errs', l)
      /\ \A g \in DOMAIN errs' : \/ errs'[g] = l /\ n > 0
                                 \/ g \in DOMAIN errs /\ errs'[g] = errs[g]
  BY <1>2, <1>4, <1>5, RepeatKeepsOrder
<1>7. CASE Raise(l)
  <2>1. raised' = <<l>> BY <1>7 DEF Raise
  <2>2. <<l>> = Times(1, l) BY DEF Times
  <2>3. InOrder(errs' \o raised') BY <1>6, <2>1, <2>2, RepeatKeepsOrder
  <2>4. ErrorsInDecodingOrder' BY <2>3 DEF ErrorsInDecodingOrder, InOrder
  <2>5. raised' # <<>> BY <2>1
  <2> QED BY <2>4, <2>5 DEF ErrorsAreBehind
<1>8. CASE UNCHANGED raised /\ Onward
  <2>1. errs' \o raised' = errs' BY <1>2, <1>6, <1>8
  <2>2. ErrorsInDecodingOrder' BY <1>6, <2>1 DEF ErrorsInDecodingOrder, InOrder
  <2>3. pos \in Nat /\ phase \in Phases BY DEF TypeOK
  <2>4. \A e \in Place : (e = l \/ Behind(e)) => Behind(e)'
    <3> SUFFICES ASSUME NEW e \in Place, e = l \/ Behind(e) PROVE Behind(e)'
      OBVIOUS
    <3>1. /\ e.pos \in Nat /\ StageOf(e.sec) \in Nat
          /\ Stage(phase) \in Nat
      BY <2>3, StageNumbers DEF Place
    <3>2. StageOf(e.sec) <= Stage(phase) BY <1>1, <3>1 DEF Blames, Current, Behind
    <3>3. phase # "specials" => \/ StageOf(e.sec) < Stage(phase)
                                \/ StageOf(e.sec) = Stage(phase) /\ e.pos <= pos
      BY <1>1, <2>3, <3>1 DEF Blames, Current, Behind
    <3>4. CASE Advance /\ phase # "specials"
      BY <2>3, <3>1, <3>3, <3>4 DEF Advance, Behind
    <3>5. CASE Stage(phase') > Stage(phase)
      <4>1. phase' \in Phases BY TypeStep DEF TypeOK
      <4>2. Stage(phase') \in Nat /\ phase' # "specials"
        BY <3>1, <3>5, <4>1, StageNumbers
      <4> QED BY <3>1, <3>2, <3>5, <4>1, <4>2 DEF Behind
    <3> QED BY <1>8, <3>4, <3>5 DEF Onward
  <2>5. \A g \in DOMAIN errs' : /\ errs'[g] \in Place /\ errs'[g].sec \in Emitted
                                /\ errs'[g] = l \/ Behind(errs'[g])
    BY <1>1, <1>2, <1>6 DEF ErrorsAreBehind, Blames
  <2> QED BY <2>2, <2>4, <2>5 DEF ErrorsAreBehind
<1> QED BY <1>1, <1>7, <1>8 DEF Blames

\* Whatever the schema and the node, errors come in the order in which a reader
\* finds them, and the Err that ends a call is the last.
THEOREM ErrorsComeInOrder == Spec => []ErrorsInDecodingOrder
<1>1. Init => TypeOK /\ ErrorsAreBehind /\ ErrorsInDecodingOrder
  <2>1. Init => TypeOK BY TypeInit
  <2>2. Init => ErrorsAreBehind /\ ErrorsInDecodingOrder
    BY DEF Init, ErrorsAreBehind, ErrorsInDecodingOrder
  <2> QED BY <2>1, <2>2
<1>2. TypeOK /\ ErrorsAreBehind /\ ErrorsInDecodingOrder /\ [Next]_vars
        => (TypeOK /\ ErrorsAreBehind /\ ErrorsInDecodingOrder)'
  <2>1. TypeOK /\ [Next]_vars => TypeOK' BY TypeStep
  <2>2. ErrorsAreBehind /\ ErrorsInDecodingOrder /\ UNCHANGED vars
          => (ErrorsAreBehind /\ ErrorsInDecodingOrder)'
    BY DEF vars, ErrorsAreBehind, ErrorsInDecodingOrder, Behind
  <2> QED BY <2>1, <2>2, OrderStep
<1> QED BY <1>1, <1>2, PTL DEF Spec

-----------------------------------------------------------------------------
(***************************************************************************)
(* StructDecode implements DecodeContract, for every schema and every      *)
(* node.                                                                   *)
(*                                                                         *)
(* What the contract says of the end of a call must be known of every item *)
(* of the node, so the invariant CInv says it of the items the decoder has *)
(* gone past (the places "Gone"): what is wrong with them and nothing else *)
(* is in the report (Blameless, Thorough), what they hold is in their own  *)
(* slot and no slot holds anything else (InPlace, Filled, Delivered), and  *)
(* a field counts as seen if one of them filled it (SeenRight).            *)
(*                                                                         *)
(* Under the refinement mapping of StructDecode the one step in which a    *)
(* call ends is an Accept, a Tolerate or a Refuse of the contract, and     *)
(* every other step is a Report or a stutter.                              *)
(***************************************************************************)

-----------------------------------------------------------------------------
(***************************************************************************)
(* Which slot an item belongs to.                                          *)
(***************************************************************************)

\* The items of a case that belong in a slot, a null included.
Own(c, s) ==
  LET SS == c.schema
      NN == c.node
  IN CASE s.sec = "arg" ->
            {k \in DOMAIN NN.args : IF s.fld = 0 THEN k \notin DOMAIN SS.args
                                                 ELSE k = s.fld}
       [] s.sec = "prop" ->
            {k \in DOMAIN NN.props :
               IF s.fld = 0 THEN NoArm(SS.props, NN.props[k].name)
               ELSE /\ IsArm(SS.props, s.fld, NN.props[k].name)
                    /\ IF s.sub = 0 THEN SS.props[s.fld].mode = "Named"
                       ELSE IsPartArm(SS.props[s.fld].part, s.sub, NN.props[k].name)}
       [] s.sec = "child" ->
            {k \in DOMAIN NN.children :
               IF s.fld = 0 THEN NoArm(SS.children, NN.children[k].name)
               ELSE /\ IsArm(SS.children, s.fld, NN.children[k].name)
                    /\ IF s.sub = 0 THEN SS.children[s.fld].mode # "Flatten"
                       ELSE IsPartArm(SS.children[s.fld].part, s.sub, NN.children[k].name)}

\* The field of a slot takes its default.
Defaults(c, s) ==
  LET SS == c.schema
  IN /\ s.fld > 0 /\ s.sub = 0 /\ Own(c, s) = {}
     /\ CASE s.sec = "arg"   -> SS.args[s.fld].dflt
          [] s.sec = "prop"  -> SS.props[s.fld].mode = "Named" /\ SS.props[s.fld].dflt
          [] s.sec = "child" -> /\ SS.children[s.fld].mode \in {"Normal", "Multi"}
                                /\ SS.children[s.fld].dflt

\* The scalar field behind a slot of an argument or a property.
ScalarOf(c, s) ==
  LET SS == c.schema
  IN CASE s.sec = "arg" /\ s.fld = 0                -> SS.argVal
       [] s.sec = "arg" /\ s.fld > 0                -> SS.args[s.fld].val
       [] s.sec = "prop" /\ s.fld = 0               -> SS.propVal
       [] s.sec = "prop" /\ s.fld > 0 /\ s.sub = 0  -> SS.props[s.fld].val
       [] s.sec = "prop" /\ s.fld > 0 /\ s.sub > 0  -> SS.props[s.fld].part[s.sub].val

Nulls(c, s) ==
  CASE s.sec = "arg"   -> {k \in Own(c, s) : IsNull(ScalarOf(c, s), c.node.args[k])}
    [] s.sec = "prop"  -> {k \in Own(c, s) : IsNull(ScalarOf(c, s), c.node.props[k].val)}
    [] s.sec = "child" -> {}

\* The shapes of a slot.
LEMMA SlotShapes ==
  ASSUME NEW SS \in Schema, NEW s \in SlotsOf(SS)
  PROVE  /\ s = Slot(s.sec, s.fld, s.sub)
         /\ s.sec \in {"arg", "prop", "child"}
         /\ s.fld \in Nat /\ s.sub \in Nat
         /\ s.fld = 0 => s.sub = 0
         /\ s.sec = "arg" => /\ s.sub = 0
                             /\ s.fld # 0 => s.fld \in DOMAIN SS.args
         /\ s.sec = "prop" => /\ s.fld # 0 => s.fld \in DOMAIN SS.props
                              /\ s.sub # 0 => s.sub \in DOMAIN SS.props[s.fld].part
         /\ s.sec = "child" => /\ s.fld # 0 => s.fld \in DOMAIN SS.children
                               /\ s.sub # 0 => s.sub \in DOMAIN SS.children[s.fld].part
<1>1. /\ SS.args \in Seq(Arg) /\ SS.props \in Seq(Prop) /\ SS.children \in Seq(Child)
  BY DEF Schema
<1>2. /\ DOMAIN SS.args \subseteq Nat \ {0} /\ DOMAIN SS.props \subseteq Nat \ {0}
      /\ DOMAIN SS.children \subseteq Nat \ {0}
  BY <1>1
<1>3. \A i \in DOMAIN SS.props : SS.props[i].part \in Seq(PartProp)
  <2> TAKE i \in DOMAIN SS.props
  <2>1. SS.props[i] \in Prop BY <1>1, ElementOf
  <2> QED BY <2>1 DEF Prop
<1>4. \A i \in DOMAIN SS.children : SS.children[i].part \in Seq(PartChild)
  <2> TAKE i \in DOMAIN SS.children
  <2>1. SS.children[i] \in Child BY <1>1, ElementOf
  <2> QED BY <2>1 DEF Child
<1>5. /\ \A i \in DOMAIN SS.props : DOMAIN SS.props[i].part \subseteq Nat
      /\ \A i \in DOMAIN SS.children : DOMAIN SS.children[i].part \subseteq Nat
  BY <1>3, <1>4
<1>6. CASE \E i \in {0} \cup DOMAIN SS.args : s = Slot("arg", i, 0)
  BY <1>2, <1>6 DEF Slot
<1>7. CASE \E i \in {0} \cup DOMAIN SS.props : s = Slot("prop", i, 0)
  BY <1>2, <1>7 DEF Slot
<1>8. CASE \E i \in {0} \cup DOMAIN SS.children : s = Slot("child", i, 0)
  BY <1>2, <1>8 DEF Slot
<1>9. CASE \E i \in DOMAIN SS.props : \E j \in DOMAIN SS.props[i].part : s = Slot("prop", i, j)
  BY <1>2, <1>5, <1>9 DEF Slot
<1>10. CASE \E i \in DOMAIN SS.children : \E j \in DOMAIN SS.children[i].part :
              s = Slot("child", i, j)
  BY <1>2, <1>5, <1>10 DEF Slot
<1> QED BY <1>6, <1>7, <1>8, <1>9, <1>10 DEF SlotsOf, PartSlots

LEMMA SlotsExist ==
  ASSUME NEW SS \in Schema
  PROVE  /\ \A i \in {0} \cup DOMAIN SS.args : Slot("arg", i, 0) \in SlotsOf(SS)
         /\ \A i \in {0} \cup DOMAIN SS.props : Slot("prop", i, 0) \in SlotsOf(SS)
         /\ \A i \in {0} \cup DOMAIN SS.children : Slot("child", i, 0) \in SlotsOf(SS)
         /\ \A i \in DOMAIN SS.props : \A j \in DOMAIN SS.props[i].part :
              Slot("prop", i, j) \in SlotsOf(SS)
         /\ \A i \in DOMAIN SS.children : \A j \in DOMAIN SS.children[i].part :
              Slot("child", i, j) \in SlotsOf(SS)
  BY DEF SlotsOf, PartSlots

\* Only one arm takes a name.
LEMMA OneArm ==
  ASSUME NEW T, NEW fields \in Seq(T), NEW i, NEW j, NEW name,
         IsArm(fields, i, name), IsArm(fields, j, name)
  PROVE  i = j
  BY DEF IsArm

LEMMA OnePartArm ==
  ASSUME NEW T, NEW part \in Seq(T), NEW i, NEW j, NEW name,
         IsPartArm(part, i, name), IsPartArm(part, j, name)
  PROVE  i = j
  BY DEF IsPartArm

LEMMA ArmOrNone ==
  ASSUME NEW fields, NEW i, NEW name, IsArm(fields, i, name)
  PROVE  ~NoArm(fields, name)
  BY DEF IsArm, NoArm

\* An item belongs to one slot at most.
LEMMA OwnedOnce ==
  ASSUME NEW c \in Case, WellFormed(c),
         NEW s \in SlotsOf(c.schema), NEW t \in SlotsOf(c.schema), s.sec = t.sec,
         NEW k \in Own(c, s), k \in Own(c, t)
  PROVE  s = t
<1> DEFINE SS == c.schema
           NN == c.node
<1>1. SS \in Schema /\ NN \in Node BY DEF Case
<1>2. /\ SS.args \in Seq(Arg) /\ SS.props \in Seq(Prop) /\ SS.children \in Seq(Child)
  BY <1>1 DEF Schema
<1>3. \A i \in DOMAIN SS.props : SS.props[i].part \in Seq(PartProp)
  <2> TAKE i \in DOMAIN SS.props
  <2>1. SS.props[i] \in Prop BY <1>2, ElementOf
  <2> QED BY <2>1 DEF Prop
<1>4. \A i \in DOMAIN SS.children : SS.children[i].part \in Seq(PartChild)
  <2> TAKE i \in DOMAIN SS.children
  <2>1. SS.children[i] \in Child BY <1>2, ElementOf
  <2> QED BY <2>1 DEF Child
<1>5. /\ s = Slot(s.sec, s.fld, s.sub) /\ t = Slot(t.sec, t.fld, t.sub)
      /\ s.sec \in {"arg", "prop", "child"}
  BY <1>1, SlotShapes
<1>6. CASE s.sec = "arg"
  <2>1. s.fld \in {0} \cup DOMAIN SS.args /\ t.fld \in {0} \cup DOMAIN SS.args
        /\ s.sub = 0 /\ t.sub = 0
    BY <1>1, <1>6, SlotShapes
  <2>2. /\ s.fld = 0 => k \notin DOMAIN SS.args
        /\ s.fld # 0 => k = s.fld
        /\ t.fld = 0 => k \notin DOMAIN SS.args
        /\ t.fld # 0 => k = t.fld
    BY <1>6 DEF Own
  <2>3. s.fld = t.fld BY <2>1, <2>2
  <2> QED BY <1>5, <2>1, <2>3
<1>7. CASE s.sec = "prop"
  <2> DEFINE n == NN.props[k].name
  <2>1. \A x \in {s, t} : /\ x.fld = 0 => NoArm(SS.props, n)
                          /\ x.fld # 0 => /\ IsArm(SS.props, x.fld, n)
                                          /\ x.sub = 0 => SS.props[x.fld].mode = "Named"
                                          /\ x.sub # 0 => IsPartArm(SS.props[x.fld].part, x.sub, n)
    BY <1>7 DEF Own
  <2> HIDE DEF n
  <2>2. s.fld = t.fld BY <1>2, <2>1, OneArm, ArmOrNone
  <2>3. \A x \in {s, t} : /\ x.fld = 0 => x.sub = 0
                          /\ x.fld # 0 => x.fld \in DOMAIN SS.props
                          /\ x.sub # 0 => x.sub \in DOMAIN SS.props[x.fld].part
    BY <1>1, <1>2, <1>7, SlotShapes
  <2>4. \A i \in DOMAIN SS.props : SS.props[i].mode = "Named" => SS.props[i].part = <<>>
    BY DEF WellFormed
  <2>5. s.sub = t.sub
    <3>1. CASE s.sub = 0 \/ t.sub = 0 BY <2>1, <2>2, <2>3, <2>4, <3>1
    <3>2. CASE s.sub # 0 /\ t.sub # 0
      <4>1. s.fld # 0 BY <2>3, <3>2
      <4> QED BY <1>3, <2>1, <2>2, <2>3, <3>2, <4>1, OnePartArm
    <3> QED BY <3>1, <3>2
  <2> QED BY <1>5, <2>2, <2>5
<1>8. CASE s.sec = "child"
  <2> DEFINE n == NN.children[k].name
  <2>1. \A x \in {s, t} : /\ x.fld = 0 => NoArm(SS.children, n)
                          /\ x.fld # 0 => /\ IsArm(SS.children, x.fld, n)
                                          /\ x.sub = 0 => SS.children[x.fld].mode # "Flatten"
                                          /\ x.sub # 0 => IsPartArm(SS.children[x.fld].part, x.sub, n)
    BY <1>8 DEF Own
  <2> HIDE DEF n
  <2>2. s.fld = t.fld BY <1>2, <2>1, OneArm, ArmOrNone
  <2>3. \A x \in {s, t} : /\ x.fld = 0 => x.sub = 0
                          /\ x.fld # 0 => x.fld \in DOMAIN SS.children
                          /\ x.sub # 0 => x.sub \in DOMAIN SS.children[x.fld].part
    BY <1>1, <1>2, <1>8, SlotShapes
  <2>4. \A i \in DOMAIN SS.children : SS.children[i].mode # "Flatten" => SS.children[i].part = <<>>
    BY DEF WellFormed
  <2>5. s.sub = t.sub
    <3>1. CASE s.sub = 0 \/ t.sub = 0 BY <2>1, <2>2, <2>3, <2>4, <3>1
    <3>2. CASE s.sub # 0 /\ t.sub # 0
      <4>1. s.fld # 0 BY <2>3, <3>2
      <4> QED BY <1>4, <2>1, <2>2, <2>3, <3>2, <4>1, OnePartArm
    <3> QED BY <3>1, <3>2
  <2> QED BY <1>5, <2>2, <2>5
<1> QED BY <1>5, <1>6, <1>7, <1>8

\* Items says the same of a slot: its default, or its own items but for nulls.
LEMMA ItemsAreOwn ==
  ASSUME NEW c \in Case, WellFormed(c), NEW s \in SlotsOf(c.schema)
  PROVE  Items(c, s) = IF Defaults(c, s) THEN {0} ELSE Own(c, s) \ Nulls(c, s)
<1> DEFINE SS == c.schema
           NN == c.node
<1>1. SS \in Schema /\ NN \in Node BY DEF Case
<1>2. /\ s = Slot(s.sec, s.fld, s.sub) /\ s.sec \in {"arg", "prop", "child"}
      /\ s.fld \in Nat /\ s.sub \in Nat /\ (s.fld = 0 => s.sub = 0)
      /\ s.sec = "arg" => s.sub = 0 /\ (s.fld # 0 => s.fld \in DOMAIN SS.args)
  BY <1>1, SlotShapes
<1>3. CASE s.sec = "arg"
  <2>1. Items(c, s) = ArgItems(SS, NN, s.fld) BY <1>3 DEF Items
  <2>2. CASE s.fld = 0
    <3>1. Own(c, s) = DOMAIN NN.args \ DOMAIN SS.args BY <1>3, <2>2 DEF Own
    <3>2. Nulls(c, s) = {} BY <1>3, <2>2 DEF Nulls, ScalarOf, IsNull, WellFormed
    <3> QED BY <2>1, <2>2, <3>1, <3>2 DEF ArgItems, Defaults
  <2>3. CASE s.fld # 0 /\ s.fld \in DOMAIN NN.args
    <3>1. Own(c, s) = {s.fld} BY <1>3, <2>3 DEF Own
    <3>2. Nulls(c, s) = {k \in {s.fld} : IsNull(SS.args[s.fld].val, NN.args[k])}
      BY <1>2, <1>3, <2>3, <3>1 DEF Nulls, ScalarOf
    <3> QED BY <2>1, <2>3, <3>1, <3>2 DEF ArgItems, Defaults
  <2>4. CASE s.fld # 0 /\ s.fld \notin DOMAIN NN.args
    <3>1. Own(c, s) = {} BY <1>3, <2>4 DEF Own
    <3>2. Nulls(c, s) = {} BY <1>3, <3>1 DEF Nulls
    <3>3. Defaults(c, s) <=> SS.args[s.fld].dflt BY <1>2, <1>3, <2>4, <3>1 DEF Defaults
    <3> QED BY <2>1, <2>4, <3>1, <3>2, <3>3 DEF ArgItems, OrDefault
  <2> QED BY <2>2, <2>3, <2>4
<1>4. CASE s.sec = "prop"
  <2>1. Items(c, s) = PropItems(SS, NN, s.fld, s.sub) BY <1>4 DEF Items
  <2>2. Nulls(c, s) = {k \in Own(c, s) : IsNull(ScalarOf(c, s), NN.props[k].val)}
    BY <1>4 DEF Nulls
  <2>3. ScalarOf(c, s) = IF s.fld = 0 THEN SS.propVal
                         ELSE IF s.sub = 0 THEN SS.props[s.fld].val
                                           ELSE SS.props[s.fld].part[s.sub].val
    BY <1>2, <1>4 DEF ScalarOf
  <2>4. Own(c, s) = {k \in DOMAIN NN.props :
                       IF s.fld = 0 THEN NoArm(SS.props, NN.props[k].name)
                       ELSE /\ IsArm(SS.props, s.fld, NN.props[k].name)
                            /\ IF s.sub = 0 THEN SS.props[s.fld].mode = "Named"
                               ELSE IsPartArm(SS.props[s.fld].part, s.sub, NN.props[k].name)}
    BY <1>4 DEF Own
  <2>5. PropItems(SS, NN, s.fld, s.sub) =
          IF Own(c, s) = {} /\ s.fld > 0 /\ s.sub = 0 /\ SS.props[s.fld].mode = "Named"
          THEN OrDefault({}, SS.props[s.fld].dflt)
          ELSE {k \in Own(c, s) : ~IsNull(ScalarOf(c, s), NN.props[k].val)}
    BY <2>3, <2>4 DEF PropItems
  <2>6. Defaults(c, s) <=> /\ s.fld > 0 /\ s.sub = 0 /\ Own(c, s) = {}
                           /\ SS.props[s.fld].mode = "Named" /\ SS.props[s.fld].dflt
    BY <1>4 DEF Defaults
  <2> QED BY <2>1, <2>2, <2>5, <2>6 DEF OrDefault
<1>5. CASE s.sec = "child"
  <2>1. Items(c, s) = ChildItems(SS, NN, s.fld, s.sub) BY <1>5 DEF Items
  <2>2. Nulls(c, s) = {} BY <1>5 DEF Nulls
  <2>3. Own(c, s) = {k \in DOMAIN NN.children :
                       IF s.fld = 0 THEN NoArm(SS.children, NN.children[k].name)
                       ELSE /\ IsArm(SS.children, s.fld, NN.children[k].name)
                            /\ IF s.sub = 0 THEN SS.children[s.fld].mode # "Flatten"
                               ELSE IsPartArm(SS.children[s.fld].part, s.sub, NN.children[k].name)}
    BY <1>5 DEF Own
  <2>4. ChildItems(SS, NN, s.fld, s.sub) =
          IF s.fld > 0 /\ s.sub = 0 /\ SS.children[s.fld].mode \in {"Normal", "Multi"}
          THEN OrDefault(Own(c, s), SS.children[s.fld].dflt) ELSE Own(c, s)
    BY <2>3 DEF ChildItems
  <2>5. Defaults(c, s) <=> /\ s.fld > 0 /\ s.sub = 0 /\ Own(c, s) = {}
                           /\ SS.children[s.fld].mode \in {"Normal", "Multi"}
                           /\ SS.children[s.fld].dflt
    BY <1>5 DEF Defaults
  <2> QED BY <2>1, <2>2, <2>4, <2>5 DEF OrDefault
<1> QED BY <1>2, <1>3, <1>4, <1>5

\* Faults, section by section.
LEMMA FaultsAre ==
  ASSUME NEW c
  PROVE  /\ Loc("name", 0) \in Faults(c) <=>
              c.entry = "node" /\ c.schema.nodeName /\ ~c.node.nameOk
         /\ Loc("type", 0) \in Faults(c) <=>
              /\ c.entry = "node"
              /\ \/ c.schema.typeName = "absent" /\ c.node.ty # "none"
                 \/ c.schema.typeName = "option" /\ c.node.ty = "bad"
                 \/ c.schema.typeName = "required" /\ c.node.ty # "ok"
         /\ \A k : Loc("arg", k) \in Faults(c) <=>
              k \in DOMAIN c.node.args /\ ~ArgAdmitted(c.schema, c.node, k)
         /\ \A i : Loc("noArg", i) \in Faults(c) <=>
              i \in DOMAIN c.schema.args /\ ArgMissing(c.schema, c.node, i)
         /\ \A k : Loc("prop", k) \in Faults(c) <=>
              k \in DOMAIN c.node.props /\ ~PropAdmitted(c.schema, c.node, k)
         /\ \A i : Loc("noProp", i) \in Faults(c) <=>
              i \in DOMAIN c.schema.props /\ PropMissing(c.schema, c.node, i)
         /\ \A k : Loc("child", k) \in Faults(c) <=>
              k \in DOMAIN c.node.children /\ ~ChildAdmitted(c.schema, c.node, k)
         /\ \A i : Loc("noChild", i) \in Faults(c) <=>
              i \in DOMAIN c.schema.children /\ ChildMissing(c.schema, c.node, i)
  BY DEF Faults, SpecialFaults, Loc

\* The places of a case: its items, and the fields it may lack.
Listed(c) ==
  (IF c.entry = "node" THEN {Loc("name", 0), Loc("type", 0)} ELSE {})
    \cup {Loc("arg", k) : k \in DOMAIN c.node.args}
    \cup {Loc("noArg", i) : i \in DOMAIN c.schema.args}
    \cup {Loc("prop", k) : k \in DOMAIN c.node.props}
    \cup {Loc("noProp", i) : i \in DOMAIN c.schema.props}
    \cup {Loc("child", k) : k \in DOMAIN c.node.children}
    \cup {Loc("noChild", i) : i \in DOMAIN c.schema.children}

LEMMA FaultsAreListed == ASSUME NEW c PROVE Faults(c) \subseteq Listed(c)
  BY DEF Faults, SpecialFaults, Listed

NoSec(sec) == CASE sec = "arg" -> "noArg" [] sec = "prop" -> "noProp" [] sec = "child" -> "noChild"

\* The place an item of a slot comes from, the field itself for its default.
Source(s, k) == IF k = 0 THEN Loc(NoSec(s.sec), s.fld) ELSE Loc(s.sec, k)

----------------------------------------------------------------------------
(***************************************************************************)
(* What holds while a call runs.                                           *)
(***************************************************************************)

\* The places the call has dealt with, and the items of them a slot is due.
Gone     == {l \in Listed(case) : Behind(l)}
SoFar(s) == {k \in Items(case, s) : Source(s, k) \in Gone}

\* Nothing is blamed that is in order, and everything passed that is not has
\* been.
Blameless == Reported \subseteq Faults(case)
Thorough  == Faults(case) \cap Gone \subseteq Range(errs)

\* What a slot holds belongs there, and comes from behind.
Placed(s, item) == /\ item.at # 0 => item.at \in Own(case, s)
                   /\ Source(s, item.at) \in Gone
InPlace == \A s \in SlotsOf(S) : \A h \in DOMAIN vals[s] : Placed(s, vals[s][h])

\* The slot of a field that takes no null is filled by its first item.
NeverNull(s) == s.fld > 0 /\ (s.sec = "child" \/ ~ScalarOf(case, s).opt)
Filled == \A s \in SlotsOf(S) :
            (\E k \in Own(case, s) : Source(s, k) \in Gone) /\ NeverNull(s) => vals[s] # <<>>

\* `seen` has the optional properties that were given.
Given(i) == /\ S.props[i].val.opt
            /\ \E k \in Own(case, Slot("prop", i, 0)) : Loc("prop", k) \in Gone
SeenRight == \A i \in DOMAIN S.props : i \in seen <=> Given(i)

\* As long as nothing was wrong every slot has what it is due.
Delivered == errs = <<>> => \A s \in SlotsOf(S) : Delivers(vals[s], SoFar(s))

Running == Thorough /\ InPlace /\ Filled /\ SeenRight /\ Delivered
CInv == /\ TypeOK /\ Blameless
        /\ phase = "specials" => case.entry = "node"
        /\ raised = <<>> => Running

----------------------------------------------------------------------------

\* Only an Option leaves None, and where nothing is wrong only for a null.
LEMMA NullNeedsOption ==
  ASSUME NEW f \in Field, NEW v \in Value, DecodeValue(f, v).res = "null"
  PROVE  f.opt
<1> USE DEF Result
<1>1. CASE f.mode = "normal" BY <1>1 DEF DecodeValue, RawDecode
<1>2. CASE f.mode = "str" BY <1>2 DEF DecodeValue, DecodeStr, Value, Field
<1>3. CASE f.mode = "bytes" BY <1>3 DEF DecodeValue, DecodeBytes, Bytes
<1> QED BY <1>1, <1>2, <1>3 DEF Field

LEMMA CleanNull ==
  ASSUME NEW f \in Field, NEW v \in Value, Clean(DecodeValue(f, v))
  PROVE  DecodeValue(f, v).res = "null" <=> IsNull(f, v)
<1> USE DEF Result, Clean, IsNull
<1>1. CASE f.mode = "normal"
  <2>1. RawDecode(f, v).res = "null" <=> IsNull(f, v) BY DEF RawDecode
  <2> QED BY <1>1, <2>1 DEF DecodeValue
<1>2. CASE f.mode = "str"
  <2>1. DecodeValue(f, v) = DecodeStr(f, v) BY <1>2 DEF DecodeValue
  <2>2. Count(v.ty # "none") \in Nat BY DEF Count
  <2> QED BY <1>2, <2>1, <2>2 DEF DecodeStr, Value, Field
<1>3. CASE f.mode = "bytes"
  <2>1. DecodeValue(f, v) = DecodeBytes(f, v) BY <1>3 DEF DecodeValue
  <2>2. Bytes(v).emits \in {0, 1} /\ Bytes(v).res \in {"value", "dummy"} BY DEF Bytes
  <2> QED BY <1>3, <2>1, <2>2 DEF DecodeBytes
<1> QED BY <1>1, <1>2, <1>3 DEF Field

----------------------------------------------------------------------------
(***************************************************************************)
(* What a step has to do for each part to survive it.  `new` are the       *)
(* places the step puts behind.                                            *)
(***************************************************************************)

LEMMA BlameKept ==
  ASSUME TypeOK, Blameless, UNCHANGED case, raised = <<>>,
         NEW l \in Place, NEW n \in Nat, Emit(l, n), n > 0 => l \in Faults(case),
         raised' = <<>> \/ (raised' = <<l>> /\ l \in Faults(case))
  PROVE  Blameless'
<1>1. errs \in Seq(Place) BY DEF TypeOK
<1>2. errs' = errs \o Times(n, l) BY DEF Emit, Times
<1>3. Times(n, l) \in Seq(Place) /\ Len(Times(n, l)) = n
      /\ \A k \in 1..n : Times(n, l)[k] = l
  BY Repeated DEF Times
<1>4. \A k \in DOMAIN errs' : \/ k \in DOMAIN errs /\ errs'[k] = errs[k]
                              \/ n > 0 /\ errs'[k] = l
  BY <1>1, <1>2, <1>3
<1>5. Range(errs') \subseteq Faults(case) BY <1>4 DEF Blameless, Reported, Range
<1>6. Range(raised') \subseteq Faults(case) BY DEF Range
<1> QED BY <1>5, <1>6 DEF Blameless, Reported

LEMMA ThoroughKept ==
  ASSUME TypeOK, Thorough, UNCHANGED case,
         NEW l \in Place, NEW n \in Nat, Emit(l, n),
         NEW new, Gone' = Gone \cup new,
         \A f \in new \cap Faults(case) : f = l /\ n > 0
  PROVE  Thorough'
<1>1. /\ Range(errs) \subseteq Range(errs')
      /\ n > 0 => l \in Range(errs')
  BY EmitAdds
<1> QED BY <1>1 DEF Thorough

LEMMA InPlaceKept ==
  ASSUME InPlace, UNCHANGED case, Gone \subseteq Gone',
         \A s \in SlotsOf(S) : \A h \in DOMAIN vals'[s] :
           \/ \E g \in DOMAIN vals[s] : vals'[s][h] = vals[s][g]
           \/ /\ vals'[s][h].at # 0 => vals'[s][h].at \in Own(case, s)
              /\ Source(s, vals'[s][h].at) \in Gone'
  PROVE  InPlace'
<1>1. S' = S BY DEF S
<1> SUFFICES ASSUME NEW s \in SlotsOf(S), NEW h \in DOMAIN vals'[s]
             PROVE  /\ vals'[s][h].at # 0 => vals'[s][h].at \in Own(case, s)
                    /\ Source(s, vals'[s][h].at) \in Gone'
  BY <1>1 DEF InPlace, Placed
<1>2. CASE \E g \in DOMAIN vals[s] : vals'[s][h] = vals[s][g]
  BY <1>2 DEF InPlace, Placed
<1> QED BY <1>2

LEMMA FilledKept ==
  ASSUME Filled, UNCHANGED case, NEW new, Gone' = Gone \cup new,
         \A s \in SlotsOf(S) :
           /\ vals[s] # <<>> /\ NeverNull(s) => vals'[s] # <<>>
           /\ (\E k \in Own(case, s) : Source(s, k) \in new) /\ NeverNull(s)
                => vals'[s] # <<>>
  PROVE  Filled'
<1>1. S' = S BY DEF S
<1>2. \A s : NeverNull(s)' <=> NeverNull(s) BY DEF NeverNull
<1> QED BY <1>1, <1>2 DEF Filled

LEMMA SeenKept ==
  ASSUME SeenRight, UNCHANGED case, NEW new, Gone' = Gone \cup new,
         \A i \in DOMAIN S.props :
           i \in seen' <=> \/ i \in seen
                           \/ /\ S.props[i].val.opt
                              /\ \E k \in Own(case, Slot("prop", i, 0)) : Loc("prop", k) \in new
  PROVE  SeenRight'
<1>1. S' = S BY DEF S
<1> QED BY <1>1 DEF SeenRight, Given

\* A sequence of deliveries that gets the next one.
LEMMA DeliverNext ==
  ASSUME NEW held \in Seq(Item), NEW set, Delivers(held, set),
         NEW item \in Item, item.clean, \A k \in set : k < item.at
  PROVE  Delivers(Append(held, item), set \cup {item.at})
<1> DEFINE more == Append(held, item)
<1>1. /\ \A h \in DOMAIN more : \/ h \in DOMAIN held /\ more[h] = held[h]
                                \/ h = Len(held) + 1 /\ more[h] = item
      /\ \A h \in DOMAIN held : h \in DOMAIN more /\ more[h] = held[h]
      /\ Len(held) + 1 \in DOMAIN more /\ more[Len(held) + 1] = item
      /\ \A h \in DOMAIN held : h < Len(held) + 1
      /\ \A h \in DOMAIN more : ~(Len(held) + 1 < h)
  OBVIOUS
<1>2. \A h \in DOMAIN held : held[h].at \in set BY DEF Delivers
<1> HIDE DEF more
<1>3. {more[h].at : h \in DOMAIN more} = set \cup {item.at} BY <1>1 DEF Delivers
<1>4. \A h \in DOMAIN more : more[h].clean BY <1>1 DEF Delivers
<1>5. ASSUME NEW g \in DOMAIN more, NEW h \in DOMAIN more, g < h
      PROVE  more[g].at < more[h].at
  <2>1. g \in DOMAIN held BY <1>1, <1>5
  <2> QED BY <1>1, <1>2, <1>5, <2>1 DEF Delivers
<1> QED BY <1>3, <1>4, <1>5 DEF Delivers, more

\* Either no slot was due anything, or one slot gets what it was due.
Idle(new) == /\ vals' = vals
             /\ \A s \in SlotsOf(S) : \A k \in Items(case, s) : Source(s, k) \notin new
Fills(t, item, new) ==
  /\ t \in SlotsOf(S) /\ item \in Item /\ item.clean
  /\ vals' = [vals EXCEPT ![t] = Append(@, item)]
  /\ item.at \in Items(case, t) /\ Source(t, item.at) \in new
  /\ \A s \in SlotsOf(S) : \A k \in Items(case, s) :
       Source(s, k) \in new => s = t /\ k = item.at
  /\ \A k \in SoFar(t) : k < item.at

LEMMA DeliveredKept ==
  ASSUME TypeOK, Delivered, UNCHANGED case, NEW new, Gone' = Gone \cup new,
         errs' = <<>> => /\ errs = <<>>
                         /\ Idle(new) \/ \E t, item : Fills(t, item, new)
  PROVE  Delivered'
<1>1. S' = S BY DEF S
<1> SUFFICES ASSUME errs' = <<>>, NEW s \in SlotsOf(S)
             PROVE  Delivers(vals'[s], SoFar(s)')
  BY <1>1 DEF Delivered
<1>2. Delivers(vals[s], SoFar(s)) /\ vals[s] \in Seq(Item) BY DEF Delivered, TypeOK
<1>3. SoFar(s)' = SoFar(s) \cup {k \in Items(case, s) : Source(s, k) \in new}
  BY DEF SoFar
<1>4. CASE Idle(new)
  <2>1. SoFar(s)' = SoFar(s) BY <1>3, <1>4 DEF Idle
  <2> QED BY <1>2, <1>4, <2>1 DEF Idle
<1>5. ASSUME NEW t, NEW item, Fills(t, item, new) PROVE Delivers(vals'[s], SoFar(s)')
  <2>1. CASE s = t
    <3>1. SoFar(s)' = SoFar(s) \cup {item.at} BY <1>3, <1>5, <2>1 DEF Fills
    <3>2. vals'[s] = Append(vals[s], item) BY <1>5, <2>1 DEF Fills, TypeOK
    <3> QED BY <1>2, <1>5, <2>1, <3>1, <3>2, DeliverNext DEF Fills
  <2>2. CASE s # t
    <3>1. SoFar(s)' = SoFar(s) BY <1>3, <1>5, <2>2 DEF Fills
    <3>2. vals'[s] = vals[s] BY <1>5, <2>2 DEF Fills, TypeOK
    <3> QED BY <1>2, <3>1, <3>2
  <2> QED BY <2>1, <2>2
<1> QED BY <1>4, <1>5

----------------------------------------------------------------------------
(***************************************************************************)
(* The places a step puts behind.                                          *)
(***************************************************************************)

New == {l \in Listed(case) : Current(l)}

\* A place of a case names a section and, but for the node's own, an item or a
\* field.
LEMMA ListedTypes ==
  ASSUME NEW c \in Case, NEW l \in Listed(c)
  PROVE  /\ l \in Place /\ l = Loc(l.sec, l.pos)
         /\ StageOf(l.sec) \in 0..5
         /\ StageOf(l.sec) = 0 <=> l.pos = 0
<1>1. c.schema \in Schema /\ c.node \in Node BY DEF Case
<1>2. /\ DOMAIN c.node.args \subseteq Nat \ {0}
      /\ DOMAIN c.node.props \subseteq Nat \ {0}
      /\ DOMAIN c.node.children \subseteq Nat \ {0}
      /\ DOMAIN c.schema.args \subseteq Nat \ {0}
      /\ DOMAIN c.schema.props \subseteq Nat \ {0}
      /\ DOMAIN c.schema.children \subseteq Nat \ {0}
  BY <1>1 DEF Schema, Node
<1>3. PICK sec \in Sections, p \in Nat :
        l = Loc(sec, p) /\ (p = 0 <=> sec \in {"name", "type"})
  BY <1>2 DEF Listed, Sections
<1>4. l.sec = sec /\ l.pos = p BY <1>3 DEF Loc
<1> QED BY <1>3, <1>4, PlaceTypes DEF StageOf, Sections

LEMMA GoneAdvance ==
  ASSUME TypeOK, UNCHANGED case, Advance, phase # "specials"
  PROVE  Gone' = Gone \cup New
<1>1. phase' = phase /\ pos' = pos + 1 /\ pos \in Nat BY DEF Advance, TypeOK
<1>2. ASSUME NEW l \in Listed(case) PROVE Behind(l)' <=> Behind(l) \/ Current(l)
  <2>1. l.pos \in Nat BY ListedTypes DEF TypeOK, Place
  <2> QED BY <1>1, <2>1 DEF Behind, Current
<1> QED BY <1>2 DEF Gone, New

LEMMA GoneMove ==
  ASSUME TypeOK, UNCHANGED case, phase # "specials", phase' # "specials",
         Stage(phase) \in Nat, Stage(phase') = Stage(phase) + 1,
         pos' = 1 \/ Stage(phase') = 6,
         \A l \in Listed(case) : StageOf(l.sec) = Stage(phase) => l.pos < pos
  PROVE  Gone' = Gone
<1>1. ASSUME NEW l \in Listed(case) PROVE Behind(l)' <=> Behind(l)
  <2>1. l.pos \in Nat /\ StageOf(l.sec) \in 0..5 /\ (StageOf(l.sec) = 0 <=> l.pos = 0)
    BY ListedTypes DEF TypeOK, Place
  <2> QED BY <2>1 DEF Behind
<1> QED BY <1>1 DEF Gone

LEMMA GoneSpecials ==
  ASSUME TypeOK, UNCHANGED case, phase = "specials", Enter("args")
  PROVE  Gone' = Gone \cup New
<1>1. Stage(phase) = 0 /\ Stage(phase') = 1 /\ phase' = "args" /\ pos' = 1
  BY DEF Enter, Stage
<1>2. ASSUME NEW l \in Listed(case) PROVE Behind(l)' <=> Current(l)
  <2>1. l.pos \in Nat /\ StageOf(l.sec) \in 0..5 /\ (StageOf(l.sec) = 0 <=> l.pos = 0)
    BY ListedTypes DEF TypeOK, Place
  <2> QED BY <1>1, <2>1 DEF Behind, Current
<1>3. Gone = {} BY DEF Gone, Behind
<1> QED BY <1>2, <1>3 DEF Gone, New

\* An item is listed by its place, and a field by its own.
LEMMA ListedAre ==
  ASSUME NEW c, NEW k
  PROVE  /\ Loc("arg", k) \in Listed(c) <=> k \in DOMAIN c.node.args
         /\ Loc("noArg", k) \in Listed(c) <=> k \in DOMAIN c.schema.args
         /\ Loc("prop", k) \in Listed(c) <=> k \in DOMAIN c.node.props
         /\ Loc("noProp", k) \in Listed(c) <=> k \in DOMAIN c.schema.props
         /\ Loc("child", k) \in Listed(c) <=> k \in DOMAIN c.node.children
         /\ Loc("noChild", k) \in Listed(c) <=> k \in DOMAIN c.schema.children
  BY DEF Listed, Loc

LEMMA NewAre ==
  ASSUME TypeOK, NEW l \in New
  PROVE  /\ phase = "args"  => \/ l = Loc("arg", pos) /\ pos \in DOMAIN N.args
                               \/ l = Loc("noArg", pos) /\ pos \in DOMAIN S.args
         /\ phase = "props" => l = Loc("prop", pos) /\ pos \in DOMAIN N.props
         /\ phase = "propsPost" => l = Loc("noProp", pos) /\ pos \in DOMAIN S.props
         /\ phase = "children"  => l = Loc("child", pos) /\ pos \in DOMAIN N.children
         /\ phase = "childrenPost" => l = Loc("noChild", pos) /\ pos \in DOMAIN S.children
         /\ phase = "specials" => l \in {Loc("name", 0), Loc("type", 0)}
<1>1. l \in Listed(case) /\ Current(l) BY DEF New
<1>2. l = Loc(l.sec, l.pos) /\ l.sec \in Sections
  BY <1>1, ListedTypes DEF TypeOK, Place
<1>3. l.pos = IF phase = "specials" THEN 0 ELSE pos BY <1>1 DEF Current
<1>4. /\ phase = "specials" => l.sec \in {"name", "type"}
      /\ phase = "args"     => l.sec \in {"arg", "noArg"}
      /\ phase = "props"    => l.sec = "prop"
      /\ phase = "propsPost" => l.sec = "noProp"
      /\ phase = "children" => l.sec = "child"
      /\ phase = "childrenPost" => l.sec = "noChild"
  BY <1>1, <1>2 DEF Current, Stage, StageOf, Sections
<1> QED BY <1>1, <1>2, <1>3, <1>4, ListedAre DEF S, N

\* The phase that walks the items of a section.
PhaseOf(sec) == CASE sec = "arg" -> "args" [] sec = "prop" -> "props"
                  [] sec = "child" -> "children"

LEMMA OwnBounds ==
  ASSUME NEW c \in Case, NEW s \in SlotsOf(c.schema), NEW k \in Own(c, s)
  PROVE  /\ k \in Nat \ {0}
         /\ s.sec = "arg"   => k \in DOMAIN c.node.args
         /\ s.sec = "prop"  => k \in DOMAIN c.node.props
         /\ s.sec = "child" => k \in DOMAIN c.node.children
<1>1. c.node \in Node /\ c.schema \in Schema BY DEF Case
<1>2. /\ DOMAIN c.node.args \subseteq Nat \ {0}
      /\ DOMAIN c.node.props \subseteq Nat \ {0}
      /\ DOMAIN c.node.children \subseteq Nat \ {0}
  BY <1>1 DEF Node
<1>3. s.sec \in {"arg", "prop", "child"} BY <1>1, SlotShapes
<1> QED BY <1>2, <1>3 DEF Own

\* While items are walked, the item the call has come to is what falls due, in
\* the slot it belongs to.
LEMMA DueAtItem ==
  ASSUME TypeOK, NEW t \in SlotsOf(S), phase = PhaseOf(t.sec), pos \in Own(case, t)
  PROVE  /\ Source(t, pos) = Loc(t.sec, pos) /\ Source(t, pos) \in New
         /\ \A s \in SlotsOf(S) : \A k \in Own(case, s) :
              Source(s, k) \in New => s = t /\ k = pos
         /\ \A s \in SlotsOf(S) : \A k \in Items(case, s) :
              Source(s, k) \in New => s = t /\ k = pos
         /\ \A f \in New \cap Faults(case) : f = Loc(t.sec, pos)
         /\ \A k \in Own(case, t) : Source(t, k) \in Gone => k < pos
<1>1. case \in Case /\ WellFormed(case) /\ S \in Schema BY CaseParts DEF TypeOK
<1>2. /\ t.sec \in {"arg", "prop", "child"} /\ t = Slot(t.sec, t.fld, t.sub)
      /\ t.fld = 0 => t.sub = 0
  BY <1>1, SlotShapes DEF S
<1>3. /\ pos \in Nat \ {0}
      /\ t.sec = "arg"   => pos \in DOMAIN N.args
      /\ t.sec = "prop"  => pos \in DOMAIN N.props
      /\ t.sec = "child" => pos \in DOMAIN N.children
  BY <1>1, OwnBounds DEF S, N
<1>4. Source(t, pos) = Loc(t.sec, pos) BY <1>3 DEF Source
<1>5. Current(Loc(t.sec, pos)) /\ Loc(t.sec, pos) \in Listed(case)
  <2>1. Loc(t.sec, pos) \in Listed(case) BY <1>2, <1>3, ListedAre DEF N
  <2>2. Current(Loc(t.sec, pos))
    BY <1>2 DEF Current, Loc, Stage, StageOf, PhaseOf
  <2> QED BY <2>1, <2>2
<1>6. \A s \in SlotsOf(S) : \A k \in Own(case, s) :
        Source(s, k) \in New => s = t /\ k = pos
  <2> SUFFICES ASSUME NEW s \in SlotsOf(S), NEW k \in Own(case, s), Source(s, k) \in New
               PROVE  s = t /\ k = pos
    OBVIOUS
  <2>1. k \in Nat \ {0} /\ s.sec \in {"arg", "prop", "child"}
    BY <1>1, OwnBounds, SlotShapes DEF S
  <2>2. Source(s, k) = Loc(s.sec, k) BY <2>1 DEF Source
  <2>3. s.sec = t.sec /\ k = pos
    <3>1. Loc(s.sec, k).sec = s.sec /\ Loc(s.sec, k).pos = k BY DEF Loc
    <3>2. Current(Loc(s.sec, k)) BY <2>2 DEF New
    <3>3. k = pos /\ StageOf(s.sec) = Stage(phase)
      BY <1>2, <3>1, <3>2 DEF Current, PhaseOf
    <3> QED BY <1>2, <2>1, <3>3 DEF StageOf, Stage, PhaseOf
  <2> QED BY <1>1, <2>3, OwnedOnce DEF S
<1>7. \A s \in SlotsOf(S) : \A k \in Items(case, s) :
        Source(s, k) \in New => s = t /\ k = pos
  <2> SUFFICES ASSUME NEW s \in SlotsOf(S), NEW k \in Items(case, s), Source(s, k) \in New
               PROVE  s = t /\ k = pos
    OBVIOUS
  <2>1. CASE k \in Own(case, s) BY <1>6, <2>1
  <2>2. CASE k \notin Own(case, s)
    <3>1. Defaults(case, s) /\ k = 0 BY <1>1, <2>2, ItemsAreOwn DEF S
    <3>2. s.fld > 0 /\ s.sub = 0 /\ Own(case, s) = {} BY <3>1 DEF Defaults
    <3>3. Source(s, k) = Loc(NoSec(s.sec), s.fld) BY <3>1 DEF Source
    <3>4. s.sec \in {"arg", "prop", "child"} /\ s = Slot(s.sec, s.fld, s.sub)
      BY <1>1, SlotShapes DEF S
    <3>5. Loc(NoSec(s.sec), s.fld).sec = NoSec(s.sec) /\ Loc(NoSec(s.sec), s.fld).pos = s.fld
      BY DEF Loc
    <3>6. Current(Loc(NoSec(s.sec), s.fld)) BY <3>3 DEF New
    <3>7. s.sec = "arg" /\ t.sec = "arg" /\ s.fld = pos
      BY <1>2, <3>4, <3>5, <3>6 DEF Current, NoSec, StageOf, Stage, PhaseOf
    <3>8. pos \in Own(case, s) BY <1>3, <3>7 DEF Own, N
    <3> QED BY <3>2, <3>8
  <2> QED BY <2>1, <2>2
<1>8. \A f \in New \cap Faults(case) : f = Loc(t.sec, pos)
  <2> SUFFICES ASSUME NEW f \in New, f \in Faults(case) PROVE f = Loc(t.sec, pos)
    OBVIOUS
  <2>1. CASE t.sec = "arg"
    <3>1. Loc("noArg", pos) \notin Faults(case)
      BY <1>3, <2>1, FaultsAre DEF ArgMissing, N
    <3> QED BY <2>1, <3>1, NewAre DEF PhaseOf
  <2>2. CASE t.sec # "arg" BY <1>2, <2>2, NewAre DEF PhaseOf
  <2> QED BY <2>1, <2>2
<1>9. ASSUME NEW k \in Own(case, t), Source(t, k) \in Gone PROVE k < pos
  <2>1. k \in Nat \ {0} BY <1>1, OwnBounds DEF S
  <2>2. Source(t, k) = Loc(t.sec, k) BY <2>1 DEF Source
  <2>3. Behind(Loc(t.sec, k)) BY <1>9, <2>2 DEF Gone
  <2>4. Loc(t.sec, k).sec = t.sec /\ Loc(t.sec, k).pos = k BY DEF Loc
  <2>5. StageOf(t.sec) = Stage(phase) /\ Stage(phase) \in Nat
    BY <1>2 DEF StageOf, Stage, PhaseOf
  <2> QED BY <2>3, <2>4, <2>5 DEF Behind
<1> QED BY <1>4, <1>5, <1>6, <1>7, <1>8, <1>9 DEF New

\* A slot whose items are all still ahead is empty.
LEMMA EmptyBefore ==
  ASSUME TypeOK, InPlace, NEW t \in SlotsOf(S),
         \A k \in Own(case, t) : Source(t, k) \notin Gone, Source(t, 0) \notin Gone
  PROVE  vals[t] = <<>>
<1>1. \A h \in DOMAIN vals[t] : FALSE BY DEF InPlace, Placed
<1>2. vals[t] \in Seq(Item) BY DEF TypeOK
<1>3. \A q \in Seq(Item) : q # <<>> => 1 \in DOMAIN q OBVIOUS
<1> QED BY <1>1, <1>2, <1>3

\* What a slot holds only grows, but for the child of a flattened struct that a
\* reported duplicate replaces.
Replaced(s) == /\ s.sec = "child" /\ s.sub > 0
               /\ phase = "children" /\ pos \in Own(case, s)
               /\ Loc("child", pos) \in Range(errs') /\ errs' # errs
Grown == \A s \in SlotsOf(S) : IsPrefix(vals[s], vals'[s]) \/ Replaced(s)

\* The child a step goes past is in its slot, or reported.
Accounted ==
  phase = "children" /\ pos \in DOMAIN N.children /\ raised' = <<>> =>
    \/ Loc("child", pos) \in Range(errs')
    \/ \E s \in SlotsOf(S) : s.sec = "child" /\ \E h \in DOMAIN vals'[s] : vals'[s][h].at = pos

\* What every step does for the invariant and the properties that follow.
Kept == /\ Blameless' /\ (raised' = <<>> => Running')
        /\ Grown /\ Accounted

LEMMA PrefixFacts ==
  ASSUME NEW T, NEW q \in Seq(T), NEW x \in T, NEW r \in Seq(T)
  PROVE  /\ IsPrefix(q, q) /\ IsPrefix(<<>>, q)
         /\ IsPrefix(q, Append(q, x)) /\ IsPrefix(q, q \o r)
<1>1. /\ Len(Append(q, x)) = Len(q) + 1 /\ Len(q \o r) = Len(q) + Len(r)
      /\ Len(q) \in Nat /\ Len(r) \in Nat /\ Len(<<>>) = 0
  OBVIOUS
<1>2. SubSeq(q, 1, Len(q)) = SubSeq(Append(q, x), 1, Len(q)) OBVIOUS
<1>3. SubSeq(q, 1, Len(q)) = SubSeq(q \o r, 1, Len(q)) OBVIOUS
<1>4. SubSeq(<<>>, 1, 0) = SubSeq(q, 1, 0) OBVIOUS
<1>5. /\ Len(q) <= Len(Append(q, x)) /\ Len(q) <= Len(q \o r)
      /\ Len(q) <= Len(q) /\ 0 <= Len(q)
  BY <1>1
<1>6. IsPrefix(q, q) BY <1>5 DEF IsPrefix
<1>7. IsPrefix(<<>>, q) BY <1>1, <1>4, <1>5 DEF IsPrefix
<1>8. IsPrefix(q, Append(q, x)) BY <1>2, <1>5 DEF IsPrefix
<1>9. IsPrefix(q, q \o r) BY <1>3, <1>5 DEF IsPrefix
<1> QED BY <1>6, <1>7, <1>8, <1>9

\* The same of what slots hold.
LEMMA ItemPrefixes ==
  ASSUME NEW q \in Seq(Item)
  PROVE  /\ IsPrefix(q, q) /\ IsPrefix(<<>>, q)
         /\ \A x \in Item : IsPrefix(q, Append(q, x))
<1>1. DefaultItem \in Item BY DEF DefaultItem, Item
<1> QED BY <1>1, PrefixFacts

LEMMA NothingGrows == ASSUME TypeOK, UNCHANGED vals PROVE Grown
<1>1. \A s \in SlotsOf(S) : vals[s] \in Seq(Item) BY DEF TypeOK
<1> QED BY <1>1, ItemPrefixes DEF Grown

LEMMA OneGrows ==
  ASSUME TypeOK, NEW t \in SlotsOf(S), NEW q \in Seq(Item), vals' = [vals EXCEPT ![t] = q],
         IsPrefix(vals[t], q) \/ Replaced(t)
  PROVE  Grown
<1>1. vals'[t] = q /\ \A s \in SlotsOf(S) : s # t => vals'[s] = vals[s] BY DEF TypeOK
<1>2. \A s \in SlotsOf(S) : vals[s] \in Seq(Item) BY DEF TypeOK
<1> QED BY <1>1, <1>2, ItemPrefixes DEF Grown

LEMMA EmitsMore ==
  ASSUME TypeOK, NEW l \in Place, NEW n \in Nat, n > 0, Emit(l, n)
  PROVE  errs' # errs
<1>1. errs \in Seq(Place) BY DEF TypeOK
<1>2. Times(n, l) \in Seq(Place) /\ Len(Times(n, l)) = n BY Repeated DEF Times
<1>3. errs' = errs \o Times(n, l) BY DEF Emit, Times
<1> DEFINE more == Times(n, l)
<1> HIDE DEF more
<1>4. more \in Seq(Place) /\ Len(more) = n BY <1>2 DEF more
<1>5. Len(errs \o more) = Len(errs) + n /\ Len(errs) \in Nat BY <1>1, <1>4
<1>6. errs \o more # errs BY <1>5
<1> QED BY <1>3, <1>6 DEF more

\* An outcome that is put into a slot.
LEMMA SettleKeeps ==
  ASSUME TypeOK, Blameless, Running, raised = <<>>, UNCHANGED case,
         NEW t \in SlotsOf(S), phase = PhaseOf(t.sec), pos \in Own(case, t),
         NEW d \in Outcome, NEW grow \in BOOLEAN,
         Settle(t, Loc(t.sec, pos), d, grow),
         Clean(d) <=> Loc(t.sec, pos) \notin Faults(case),
         Clean(d) => (d.res = "null" <=> pos \in Nulls(case, t)),
         d.res = "null" => ~NeverNull(t) /\ ~grow,
         d.res = "dummy" => d.emits > 0,
         t.sec = "child" => d.res # "null",
         ~grow => vals[t] = <<>> \/ (t.sec = "child" /\ t.sub > 0 /\ d.emits > 0),
         \A i \in DOMAIN S.props :
           i \in seen' <=> i \in seen \/ (S.props[i].val.opt /\ t = Slot("prop", i, 0))
  PROVE  Kept
<1> DEFINE l == Loc(t.sec, pos)
           item == [at |-> pos, clean |-> d.res = "value"]
<1>1. case \in Case /\ WellFormed(case) /\ S \in Schema BY CaseParts DEF TypeOK
<1>2. t.sec \in {"arg", "prop", "child"} BY <1>1, SlotShapes
<1>3. pos \in Nat \ {0} /\ l \in Place /\ l.pos = pos
  <2>1. pos \in Nat \ {0} BY DEF TypeOK
  <2> QED BY <1>2, <2>1, PlaceTypes DEF Sections, Loc
<1>4. d.emits \in Nat /\ d.res \in {"value", "dummy", "null", "fail"} BY DEF Outcome
<1>5. Emit(l, d.emits) BY DEF Settle
<1>6. d.emits > 0 => l \in Faults(case) BY <1>4 DEF Clean
<1>7. \/ d.res = "fail" /\ raised' = <<l>> /\ l \in Faults(case)
      \/ d.res # "fail" /\ raised' = <<>>
  BY DEF Settle, Raise, Clean
<1>8. Blameless' BY <1>3, <1>4, <1>5, <1>6, <1>7, BlameKept
<1>21. vals[t] \in Seq(Item) /\ item \in Item
  BY <1>3 DEF TypeOK, Item
<1>22. raised' = <<>> => vals' = [vals EXCEPT ![t] = Stored(@, l.pos, d, grow)]
  BY <1>7 DEF Settle
<1>23. /\ Stored(vals[t], l.pos, d, grow) \in Seq(Item)
       /\ Stored(vals[t], l.pos, d, grow) =
            IF d.res = "null" THEN <<>> ELSE IF grow THEN Append(vals[t], item) ELSE <<item>>
  BY <1>3, <1>21 DEF Stored
<1>24. Grown
  <2>1. CASE raised' # <<>>
    <3>1. vals' = vals BY <1>7, <2>1 DEF Settle
    <3> QED BY <3>1, NothingGrows
  <2>2. CASE raised' = <<>> /\ (grow \/ vals[t] = <<>>)
    <3> DEFINE q == Stored(vals[t], l.pos, d, grow)
    <3>1. vals' = [vals EXCEPT ![t] = q] BY <1>22, <2>2 DEF TypeOK
    <3>2. IsPrefix(vals[t], q)
      <4>1. CASE grow
        <5>1. q = Append(vals[t], item) BY <1>23, <4>1
        <5> HIDE DEF q, item
        <5> QED BY <1>21, <5>1, ItemPrefixes
      <4>2. CASE vals[t] = <<>>
        <5> HIDE DEF q
        <5>1. q \in Seq(Item) BY <1>23 DEF q
        <5> QED BY <4>2, <5>1, ItemPrefixes
      <4> QED BY <2>2, <4>1, <4>2
    <3> HIDE DEF q
    <3> QED BY <1>23, <3>1, <3>2, OneGrows DEF q
  <2>3. CASE raised' = <<>> /\ ~grow /\ vals[t] # <<>>
    <3> DEFINE q == Stored(vals[t], l.pos, d, grow)
    <3>1. vals' = [vals EXCEPT ![t] = q] BY <1>22, <2>3 DEF TypeOK
    <3>2. t.sec = "child" /\ t.sub > 0 /\ d.emits > 0 BY <2>3
    <3>3. phase = "children" BY <3>2 DEF PhaseOf
    <3>4. Loc("child", pos) \in Range(errs') BY <1>3, <1>4, <1>5, <3>2, EmitAdds
    <3>5. errs' # errs BY <1>3, <1>4, <1>5, <3>2, EmitsMore
    <3>6. Replaced(t) BY <3>2, <3>3, <3>4, <3>5 DEF Replaced
    <3> HIDE DEF q
    <3> QED BY <1>23, <3>1, <3>6, OneGrows DEF q
  <2> QED BY <2>1, <2>2, <2>3
<1>25. Accounted
  <2> SUFFICES ASSUME phase = "children", raised' = <<>>
               PROVE  \E h \in DOMAIN vals'[t] : t.sec = "child" /\ vals'[t][h].at = pos
    BY DEF Accounted
  <2>1. t.sec = "child" BY <1>2 DEF PhaseOf
  <2>2. vals'[t] = IF grow THEN Append(vals[t], item) ELSE <<item>>
    BY <1>22, <1>23, <2>1 DEF TypeOK
  <2>3. item.at = pos OBVIOUS
  <2> HIDE DEF item
  <2>4. CASE grow
    <3>1. Len(vals[t]) + 1 \in DOMAIN vals'[t] /\ vals'[t][Len(vals[t]) + 1] = item
      BY <1>21, <2>2, <2>4
    <3> QED BY <2>1, <2>3, <3>1
  <2>5. CASE ~grow
    <3>1. 1 \in DOMAIN vals'[t] /\ vals'[t][1] = item BY <2>2, <2>5
    <3> QED BY <2>1, <2>3, <3>1
  <2> QED BY <2>4, <2>5
<1> SUFFICES ASSUME raised' = <<>> PROVE Running'
  BY <1>8, <1>24, <1>25 DEF Kept
<1>9. /\ d.res # "fail" /\ Advance
      /\ vals' = [vals EXCEPT ![t] = Stored(@, l.pos, d, grow)]
  BY <1>7 DEF Settle
<1> HIDE DEF l
<1>10. phase # "specials" BY <1>2 DEF PhaseOf
<1>11. Gone' = Gone \cup New BY <1>9, <1>10, GoneAdvance
<1>12. /\ Source(t, pos) = l /\ l \in New
       /\ \A s \in SlotsOf(S) : \A k \in Own(case, s) : Source(s, k) \in New => s = t /\ k = pos
       /\ \A s \in SlotsOf(S) : \A k \in Items(case, s) : Source(s, k) \in New => s = t /\ k = pos
       /\ \A f \in New \cap Faults(case) : f = l
       /\ \A k \in Own(case, t) : Source(t, k) \in Gone => k < pos
  BY DueAtItem DEF l
<1>13. vals[t] \in Seq(Item) /\ item \in Item
  BY <1>3 DEF TypeOK, Item
<1>14. vals'[t] = IF d.res = "null" THEN <<>>
                  ELSE IF grow THEN Append(vals[t], item) ELSE <<item>>
  BY <1>3, <1>9 DEF TypeOK, Stored
<1>15. \A s \in SlotsOf(S) : s # t => vals'[s] = vals[s] BY <1>9 DEF TypeOK
<1>16. Thorough'
  <2>1. \A f \in New \cap Faults(case) : f = l /\ d.emits > 0
    <3>1. l \in Faults(case) => ~Clean(d) BY DEF l
    <3>2. ~Clean(d) => d.emits > 0 BY <1>4, <1>9 DEF Clean
    <3> QED BY <1>12, <3>1, <3>2
  <2> QED BY <1>3, <1>4, <1>5, <1>11, <2>1, ThoroughKept DEF Running
<1>17. InPlace'
  <2>1. Gone \subseteq Gone' /\ l \in Gone' BY <1>11, <1>12
  <2>2. \A h \in DOMAIN vals'[t] : \/ \E g \in DOMAIN vals[t] : vals'[t][h] = vals[t][g]
                                   \/ vals'[t][h] = item
    BY <1>13, <1>14
  <2>3. item.at = pos OBVIOUS
  <2> HIDE DEF item
  <2> QED BY <1>12, <1>15, <2>1, <2>2, <2>3, InPlaceKept DEF Running
<1>18. Filled'
  <2>1. NeverNull(t) => vals'[t] # <<>> BY <1>13, <1>14
  <2> QED BY <1>11, <1>12, <1>15, <2>1, FilledKept DEF Running
<1>19. SeenRight'
  <2>1. \A i \in DOMAIN S.props :
          (\E k \in Own(case, Slot("prop", i, 0)) : Loc("prop", k) \in New)
             <=> t = Slot("prop", i, 0)
    <3> TAKE i \in DOMAIN S.props
    <3>1. Slot("prop", i, 0) \in SlotsOf(S) /\ Slot("prop", i, 0).sec = "prop"
      BY <1>1, SlotsExist DEF Slot
    <3>2. \A k \in Own(case, Slot("prop", i, 0)) : Source(Slot("prop", i, 0), k) = Loc("prop", k)
      BY <1>1, <3>1, OwnBounds DEF Source, S
    <3> QED BY <1>12, <3>1, <3>2
  <2> QED BY <1>11, <2>1, SeenKept DEF Running
<1>20. Delivered'
  <2> SUFFICES ASSUME errs' = <<>>
               PROVE  errs = <<>> /\ (Idle(New) \/ \E s, i : Fills(s, i, New))
    BY <1>11, DeliveredKept DEF Running
  <2>1. errs = <<>> /\ d.emits = 0
    <3>1. errs \in Seq(Place) BY DEF TypeOK
    <3>2. Times(d.emits, l) \in Seq(Place) /\ Len(Times(d.emits, l)) = d.emits
      BY <1>3, <1>4, Repeated DEF Times
    <3>3. errs' = errs \o Times(d.emits, l) BY <1>5 DEF Emit, Times
    <3> QED BY <1>4, <3>1, <3>2, <3>3
  <2>2. Clean(d) /\ (~grow => vals[t] = <<>>) BY <1>4, <1>9, <2>1 DEF Clean
  <2>3. ~Defaults(case, t) BY DEF Defaults
  <2>4. Items(case, t) = Own(case, t) \ Nulls(case, t) BY <1>1, <2>3, ItemsAreOwn DEF S
  <2>5. CASE d.res = "null"
    <3>1. vals[t] = <<>> BY <2>2, <2>5
    <3>2. vals' = vals
      <4>1. Stored(vals[t], l.pos, d, grow) = vals[t] BY <2>5, <3>1 DEF Stored
      <4> QED BY <1>9, <4>1 DEF TypeOK
    <3>3. pos \notin Items(case, t) BY <2>2, <2>4, <2>5
    <3>4. \A s \in SlotsOf(S) : \A k \in Items(case, s) : Source(s, k) \notin New
      BY <1>12, <3>3
    <3>5. Idle(New) BY <3>2, <3>4 DEF Idle
    <3> QED BY <2>1, <3>5
  <2>6. CASE d.res # "null"
    <3>1. d.res = "value" BY <1>4, <1>9, <2>1, <2>6
    <3>2. item.clean /\ item.at = pos BY <3>1
    <3>3. vals' = [vals EXCEPT ![t] = Append(@, item)]
      <4>1. Stored(vals[t], l.pos, d, grow) = Append(vals[t], item)
        <5>1. Stored(vals[t], l.pos, d, grow) =
                IF grow THEN Append(vals[t], item) ELSE <<item>>
          BY <1>3, <2>6 DEF Stored
        <5>2. Append(<<>>, item) = <<item>> OBVIOUS
        <5> QED BY <2>2, <5>1, <5>2
      <4> QED BY <1>9, <4>1 DEF TypeOK
    <3>4. pos \in Items(case, t) BY <2>2, <2>4, <2>6
    <3>5. \A k \in SoFar(t) : k < pos BY <1>12, <2>4 DEF SoFar
    <3> HIDE DEF item
    <3>6. Fills(t, item, New) BY <1>12, <1>13, <3>2, <3>3, <3>4, <3>5 DEF Fills
    <3> QED BY <2>1, <3>6
  <2> QED BY <2>1, <2>5, <2>6
<1> QED BY <1>16, <1>17, <1>18, <1>19, <1>20 DEF Running

\* A child that is reported, and that leaves its slot as it was.
LEMMA ReportKeeps ==
  ASSUME TypeOK, Blameless, Running, raised = <<>>, UNCHANGED <<case, seen, vals, raised>>,
         HereChild, Advance, NEW t \in SlotsOf(S), t.sec = "child", pos \in Own(case, t),
         vals[t] # <<>> \/ ~NeverNull(t),
         NEW n \in Nat \ {0}, Emit(Loc("child", pos), n), Loc("child", pos) \in Faults(case)
  PROVE  Kept
<1> DEFINE l == Loc("child", pos)
<1>1. case \in Case /\ WellFormed(case) /\ S \in Schema /\ pos \in Nat
  BY CaseParts DEF TypeOK
<1>2. l \in Place BY <1>1, PlaceTypes DEF Sections
<1>3. phase = "children" /\ phase = PhaseOf(t.sec) BY DEF HereChild, At, PhaseOf
<1> HIDE DEF l
<1>4. Emit(l, n) /\ l \in Faults(case) BY DEF l
<1>5. Blameless' BY <1>2, <1>4, BlameKept
<1>6. Gone' = Gone \cup New BY <1>3, GoneAdvance
<1>7. /\ \A s \in SlotsOf(S) : \A k \in Own(case, s) : Source(s, k) \in New => s = t /\ k = pos
      /\ \A f \in New \cap Faults(case) : f = l
  BY <1>3, DueAtItem DEF l
<1>8. Thorough' BY <1>2, <1>4, <1>6, <1>7, ThoroughKept DEF Running
<1>9. InPlace' BY <1>6, InPlaceKept DEF Running
<1>10. Filled' BY <1>6, <1>7, FilledKept DEF Running
<1>11. SeenRight'
  <2>1. \A i \in DOMAIN S.props : \A k \in Own(case, Slot("prop", i, 0)) : Loc("prop", k) \notin New
    <3> TAKE i \in DOMAIN S.props
    <3> TAKE k \in Own(case, Slot("prop", i, 0))
    <3>1. Slot("prop", i, 0) \in SlotsOf(S) /\ Slot("prop", i, 0).sec = "prop"
      BY <1>1, SlotsExist DEF Slot
    <3>2. Source(Slot("prop", i, 0), k) = Loc("prop", k)
      BY <1>1, <3>1, OwnBounds DEF Source, S
    <3> QED BY <1>7, <3>1, <3>2
  <2> QED BY <1>6, <2>1, SeenKept DEF Running
<1>12. Delivered'
  <2>1. errs \in Seq(Place) /\ Times(n, l) \in Seq(Place) /\ Len(Times(n, l)) = n
    BY <1>2, Repeated DEF TypeOK, Times
  <2>2. errs' = errs \o Times(n, l) BY <1>4 DEF Emit, Times
  <2>3. errs' # <<>> BY <2>1, <2>2
  <2> QED BY <2>3 DEF Delivered
<1>13. Grown BY NothingGrows
<1>14. Accounted
  <2>1. l \in Range(errs') BY <1>2, <1>4, EmitAdds
  <2> QED BY <2>1 DEF Accounted, l
<1> QED BY <1>5, <1>8, <1>9, <1>10, <1>11, <1>12, <1>13, <1>14 DEF Running, Kept

\* A flag that is not set yet is put into its slot, one that is set is reported.
LEMMA SetFlagKeeps ==
  ASSUME TypeOK, Blameless, Running, raised = <<>>, UNCHANGED <<case, seen>>,
         HereChild, NEW t \in SlotsOf(S), t.sec = "child", pos \in Own(case, t), SetFlag(t),
         Loc("child", pos) \notin Faults(case)
           <=> N.children[pos].extras = 0 /\ vals[t] = <<>>
  PROVE  Kept
<1> DEFINE extras == N.children[pos].extras
           d == [emits |-> extras, res |-> IF extras = 0 THEN "value" ELSE "dummy"]
<1>1. extras \in Nat BY ItemTypes DEF HereChild, NodeChild
<1>2. phase = PhaseOf(t.sec) BY DEF HereChild, At, PhaseOf
<1>3. Advance /\ UNCHANGED raised
      /\ Emit(Loc("child", pos), extras + Count(vals[t] # <<>>))
      /\ vals' = [vals EXCEPT ![t] = IF @ = <<>> THEN <<[at |-> pos, clean |-> extras = 0]>> ELSE @]
  BY DEF SetFlag
<1>4. CASE vals[t] # <<>>
  <2>1. vals' = vals BY <1>3, <1>4 DEF TypeOK
  <2>2. Count(vals[t] # <<>>) = 1 BY <1>4 DEF Count
  <2>3. Emit(Loc("child", pos), extras + 1) BY <1>3, <2>2
  <2>4. extras + 1 \in Nat \ {0} BY <1>1
  <2>5. Loc("child", pos) \in Faults(case) BY <1>4
  <2> HIDE DEF extras
  <2> QED BY <1>3, <1>4, <2>1, <2>3, <2>4, <2>5, ReportKeeps
<1>5. CASE vals[t] = <<>>
  <2>1. d \in Outcome BY <1>1 DEF Outcome
  <2>2. Count(vals[t] # <<>>) = 0 BY <1>5 DEF Count
  <2>3. Emit(Loc("child", pos), d.emits) BY <1>1, <1>3, <2>2
  <2>4. vals' = [vals EXCEPT ![t] = Stored(@, Loc("child", pos).pos, d, FALSE)]
    <3>1. (extras = 0) = (d.res = "value") OBVIOUS
    <3>2. Stored(vals[t], pos, d, FALSE) = <<[at |-> pos, clean |-> extras = 0]>>
      BY <3>1 DEF Stored
    <3>3. Loc("child", pos).pos = pos BY DEF Loc
    <3> HIDE DEF extras, d
    <3> QED BY <1>3, <1>5, <3>2, <3>3 DEF TypeOK
  <2>5. d.res # "fail" OBVIOUS
  <2>6. Settle(t, Loc(t.sec, pos), d, FALSE)
    <3> HIDE DEF d
    <3> QED BY <1>3, <2>3, <2>4, <2>5 DEF Settle
  <2>7. Clean(d) <=> Loc(t.sec, pos) \notin Faults(case) BY <1>1, <1>5 DEF Clean
  <2>8. d.res # "null" /\ (d.res = "dummy" => d.emits > 0) BY <1>1
  <2>9. \A k : k \notin Nulls(case, t) BY DEF Nulls
  <2>10. \A i \in DOMAIN S.props : t # Slot("prop", i, 0) BY DEF Slot
  <2> HIDE DEF d
  <2> QED BY <1>2, <1>5, <2>1, <2>6, <2>7, <2>8, <2>9, <2>10, SettleKeeps
<1> QED BY <1>4, <1>5

\* Where a field is looked at that got nothing, its default falls due if it has
\* one, and no item.
LEMMA DueAtField ==
  ASSUME TypeOK, NEW sec \in {"arg", "prop", "child"}, Slot(sec, pos, 0) \in SlotsOf(S),
         \/ sec = "arg"   /\ phase = "args" /\ pos \in DOMAIN S.args /\ pos \notin DOMAIN N.args
         \/ sec = "prop"  /\ phase = "propsPost" /\ pos \in DOMAIN S.props
         \/ sec = "child" /\ phase = "childrenPost" /\ pos \in DOMAIN S.children
  PROVE  /\ Source(Slot(sec, pos, 0), 0) = Loc(NoSec(sec), pos)
         /\ Loc(NoSec(sec), pos) \in New /\ Loc(NoSec(sec), pos) \notin Gone
         /\ \A s \in SlotsOf(S) : \A k \in Own(case, s) : Source(s, k) \notin New
         /\ \A s \in SlotsOf(S) : \A k \in Items(case, s) :
              Source(s, k) \in New => s = Slot(sec, pos, 0) /\ k = 0
         /\ \A f \in New : f = Loc(NoSec(sec), pos)
<1> DEFINE t == Slot(sec, pos, 0)
           l == Loc(NoSec(sec), pos)
<1>1. case \in Case /\ WellFormed(case) /\ S \in Schema BY CaseParts DEF TypeOK
<1>2. Source(t, 0) = l BY DEF Source, Slot
<1>3. l.sec = NoSec(sec) /\ l.pos = pos BY DEF Loc
<1>4. StageOf(NoSec(sec)) = Stage(phase) /\ Stage(phase) \in Nat /\ phase # "specials"
  BY DEF StageOf, NoSec, Stage
<1>5. Current(l) /\ ~Behind(l)
  BY <1>3, <1>4 DEF Current, Behind, TypeOK
<1>6. l \in Listed(case) BY ListedAre DEF NoSec, S
<1>7. \A f \in New : f = l BY NewAre DEF NoSec
<1>8. \A s \in SlotsOf(S) : \A k \in Own(case, s) : Source(s, k) \notin New
  <2> SUFFICES ASSUME NEW s \in SlotsOf(S), NEW k \in Own(case, s), Source(s, k) \in New
               PROVE  FALSE
    OBVIOUS
  <2>1. k # 0 BY <1>1, OwnBounds DEF S
  <2>2. Loc(s.sec, k) = l BY <1>7, <2>1 DEF Source
  <2>3. s.sec = NoSec(sec) BY <1>3, <2>2 DEF Loc
  <2>4. s.sec \in {"arg", "prop", "child"} BY <1>1, SlotShapes
  <2> QED BY <2>3, <2>4 DEF NoSec
<1>9. \A s \in SlotsOf(S) : \A k \in Items(case, s) : Source(s, k) \in New => s = t /\ k = 0
  <2> SUFFICES ASSUME NEW s \in SlotsOf(S), NEW k \in Items(case, s), Source(s, k) \in New
               PROVE  s = t /\ k = 0
    OBVIOUS
  <2>1. Defaults(case, s) /\ k = 0 BY <1>1, <1>8, ItemsAreOwn DEF S
  <2>2. s.sub = 0 BY <2>1 DEF Defaults
  <2>3. Loc(NoSec(s.sec), s.fld) = l BY <1>7, <2>1 DEF Source
  <2>4. NoSec(s.sec) = NoSec(sec) /\ s.fld = pos BY <1>3, <2>3 DEF Loc
  <2>5. s.sec \in {"arg", "prop", "child"} /\ s = Slot(s.sec, s.fld, s.sub)
    BY <1>1, SlotShapes
  <2>6. s.sec = sec BY <2>4, <2>5 DEF NoSec
  <2> QED BY <2>1, <2>2, <2>4, <2>5, <2>6
<1> QED BY <1>2, <1>5, <1>6, <1>7, <1>8, <1>9 DEF New, Gone

\* A field that got nothing takes its default, ends the call or stays empty.
LEMMA FillInKeeps ==
  ASSUME TypeOK, Blameless, Running, raised = <<>>, UNCHANGED case,
         NEW sec \in {"arg", "prop", "child"}, Slot(sec, pos, 0) \in SlotsOf(S),
         \/ sec = "arg"   /\ phase = "args" /\ pos \in DOMAIN S.args /\ pos \notin DOMAIN N.args
         \/ sec = "prop"  /\ phase = "propsPost" /\ pos \in DOMAIN S.props
         \/ sec = "child" /\ phase = "childrenPost" /\ pos \in DOMAIN S.children,
         NEW dflt, NEW required,
         FillIn(Slot(sec, pos, 0), Loc(NoSec(sec), pos), dflt, required),
         required <=> Loc(NoSec(sec), pos) \in Faults(case),
         dflt <=> Defaults(case, Slot(sec, pos, 0)),
         required => ~dflt
  PROVE  Kept
<1> DEFINE t == Slot(sec, pos, 0)
           l == Loc(NoSec(sec), pos)
<1>1. case \in Case /\ WellFormed(case) /\ S \in Schema /\ pos \in Nat
  BY CaseParts DEF TypeOK
<1>2. l \in Place BY <1>1, PlaceTypes DEF Sections, NoSec
<1>3. /\ Source(t, 0) = l /\ l \in New /\ l \notin Gone
      /\ \A s \in SlotsOf(S) : \A k \in Own(case, s) : Source(s, k) \notin New
      /\ \A s \in SlotsOf(S) : \A k \in Items(case, s) : Source(s, k) \in New => s = t /\ k = 0
      /\ \A f \in New : f = l
  BY DueAtField
<1>4. t \in SlotsOf(S) OBVIOUS
<1>5. /\ FillIn(t, l, dflt, required)
      /\ required <=> l \in Faults(case)
      /\ dflt <=> Defaults(case, t)
  OBVIOUS
<1> HIDE DEF t, l
<1>6. UNCHANGED <<seen, errs>> /\ Emit(l, 0) BY <1>5, EmitNothing DEF FillIn
<1>7. CASE required
  <2>1. Raise(l) BY <1>5, <1>7 DEF FillIn
  <2>2. raised' = <<l>> /\ l \in Faults(case) BY <1>5, <1>7, <2>1 DEF Raise
  <2>3. raised' # <<>> BY <2>2
  <2>4. vals' = vals /\ phase # "children" BY <1>5, <1>7 DEF FillIn
  <2>5. Grown /\ Accounted BY <2>4, NothingGrows DEF Accounted
  <2> QED BY <1>2, <1>6, <2>2, <2>3, <2>5, BlameKept DEF Kept
<1>8. CASE ~required
  <2>1. /\ Advance /\ UNCHANGED raised
        /\ \/ dflt /\ vals' = [vals EXCEPT ![t] = <<DefaultItem>>]
           \/ ~dflt /\ vals' = vals
    BY <1>5, <1>8 DEF FillIn
  <2>2. Blameless' BY <1>2, <1>6, <2>1, BlameKept
  <2>3. Gone' = Gone \cup New
    <3>1. phase # "specials" OBVIOUS
    <3> QED BY <2>1, <3>1, GoneAdvance
  <2>4. dflt => vals[t] = <<>>
    <3>1. dflt => Own(case, t) = {} BY <1>5 DEF Defaults
    <3> QED BY <1>3, <1>4, <3>1, EmptyBefore DEF Running
  <2>5. Thorough'
    <3>1. \A f \in New \cap Faults(case) : FALSE BY <1>3, <1>5, <1>8
    <3>2. \A f \in New \cap Faults(case) : f = l /\ 0 > 0 BY <3>1
    <3>3. 0 \in Nat OBVIOUS
    <3> QED BY <1>2, <1>6, <2>3, <3>2, <3>3, ThoroughKept DEF Running
  <2>6. \A s \in SlotsOf(S) : vals'[s] = vals[s] \/ (s = t /\ vals'[s] = <<DefaultItem>>)
    BY <2>1 DEF TypeOK
  <2>7. InPlace'
    <3>1. \A s \in SlotsOf(S) : \A h \in DOMAIN vals'[s] :
            \/ \E g \in DOMAIN vals[s] : vals'[s][h] = vals[s][g]
            \/ s = t /\ vals'[s][h] = DefaultItem
      BY <2>6
    <3>2. DefaultItem.at = 0 BY DEF DefaultItem
    <3>3. Gone \subseteq Gone' /\ Source(t, 0) \in Gone' BY <1>3, <2>3
    <3>4. \A s \in SlotsOf(S) : \A h \in DOMAIN vals'[s] :
            \/ \E g \in DOMAIN vals[s] : vals'[s][h] = vals[s][g]
            \/ /\ vals'[s][h].at # 0 => vals'[s][h].at \in Own(case, s)
               /\ Source(s, vals'[s][h].at) \in Gone'
      BY <3>1, <3>2, <3>3
    <3> QED BY <3>3, <3>4, InPlaceKept DEF Running
  <2>8. Filled'
    <3>1. <<DefaultItem>> # <<>> OBVIOUS
    <3>2. \A s \in SlotsOf(S) : vals[s] # <<>> => vals'[s] # <<>> BY <2>6, <3>1
    <3> QED BY <1>3, <2>3, <3>2, FilledKept DEF Running
  <2>9. SeenRight'
    <3>1. \A i \in DOMAIN S.props : \A k \in Own(case, Slot("prop", i, 0)) : Loc("prop", k) \notin New
      <4> TAKE i \in DOMAIN S.props
      <4> TAKE k \in Own(case, Slot("prop", i, 0))
      <4>1. Slot("prop", i, 0) \in SlotsOf(S) /\ Slot("prop", i, 0).sec = "prop"
        BY <1>1, SlotsExist DEF Slot
      <4>2. Source(Slot("prop", i, 0), k) = Loc("prop", k)
        BY <1>1, <4>1, OwnBounds DEF Source, S
      <4> QED BY <1>3, <4>1, <4>2
    <3> QED BY <1>6, <2>3, <3>1, SeenKept DEF Running
  <2>10. Delivered'
    <3> SUFFICES ASSUME errs' = <<>>
                 PROVE  errs = <<>> /\ (Idle(New) \/ \E s, i : Fills(s, i, New))
      BY <2>3, DeliveredKept DEF Running
    <3>1. errs = <<>> BY <1>6
    <3>2. Items(case, t) = IF dflt THEN {0} ELSE Own(case, t) \ Nulls(case, t)
      BY <1>1, <1>4, <1>5, ItemsAreOwn DEF S
    <3>3. CASE ~dflt
      <4>1. 0 \notin Items(case, t) BY <1>1, <1>4, <3>2, <3>3, OwnBounds DEF S
      <4>2. Idle(New) BY <1>3, <2>1, <3>3, <4>1 DEF Idle
      <4> QED BY <3>1, <4>2
    <3>4. CASE dflt
      <4>1. Append(<<>>, DefaultItem) = <<DefaultItem>> OBVIOUS
      <4>2. vals' = [vals EXCEPT ![t] = Append(@, DefaultItem)]
        BY <1>4, <2>1, <2>4, <3>4, <4>1 DEF TypeOK
      <4>3. DefaultItem \in Item /\ DefaultItem.clean /\ DefaultItem.at = 0
        BY DEF DefaultItem, Item
      <4>4. \A k \in SoFar(t) : FALSE BY <1>3, <3>2, <3>4 DEF SoFar
      <4>5. Fills(t, DefaultItem, New) BY <1>3, <1>4, <3>2, <3>4, <4>2, <4>3, <4>4 DEF Fills
      <4> QED BY <3>1, <4>5
    <3> QED BY <3>3, <3>4
  <2>11. Grown
    <3>1. <<DefaultItem>> \in Seq(Item) BY DEF DefaultItem, Item
    <3>2. CASE dflt
      <4>1. IsPrefix(vals[t], <<DefaultItem>>) BY <2>4, <3>1, <3>2, ItemPrefixes
      <4> QED BY <1>4, <2>1, <3>1, <3>2, <4>1, OneGrows
    <3>3. CASE ~dflt BY <2>1, <3>3, NothingGrows
    <3> QED BY <3>2, <3>3
  <2>12. Accounted BY DEF Accounted
  <2> QED BY <2>2, <2>5, <2>7, <2>8, <2>9, <2>10, <2>11, <2>12 DEF Running, Kept
<1> QED BY <1>7, <1>8

----------------------------------------------------------------------------
(***************************************************************************)
(* The steps, one by one.                                                  *)
(***************************************************************************)

LEMMA RaiseKeeps ==
  ASSUME TypeOK, Blameless, raised = <<>>, UNCHANGED <<case, vals, errs>>,
         NEW l \in Place, Raise(l), l \in Faults(case)
  PROVE  Kept
<1>1. raised' = <<l>> /\ raised' # <<>> BY DEF Raise
<1>2. Emit(l, 0) BY EmitNothing
<1>3. Grown /\ Accounted BY <1>1, NothingGrows DEF Accounted
<1> QED BY <1>1, <1>2, <1>3, BlameKept DEF Kept

\* A field is not looked at before its section's items are walked.
LEMMA FieldsAhead ==
  ASSUME TypeOK, NEW t \in SlotsOf(S), phase = PhaseOf(t.sec),
         t.sec = "arg" => t.fld >= pos
  PROVE  Source(t, 0) \notin Gone
<1>1. t.sec \in {"arg", "prop", "child"} /\ t.fld \in Nat /\ pos \in Nat
  BY CaseParts, SlotShapes DEF TypeOK
<1>2. Source(t, 0) = Loc(NoSec(t.sec), t.fld) BY DEF Source
<1>3. ~Behind(Loc(NoSec(t.sec), t.fld))
  BY <1>1 DEF Behind, Loc, NoSec, StageOf, Stage, PhaseOf
<1> QED BY <1>2, <1>3 DEF Gone

\* A scalar that decode_value puts into its slot.
LEMMA ScalarKeeps ==
  ASSUME TypeOK, Blameless, Running, raised = <<>>, UNCHANGED case,
         NEW t \in SlotsOf(S), t.sec \in {"arg", "prop"}, phase = PhaseOf(t.sec),
         pos \in Own(case, t),
         NEW f \in Field, f = ScalarOf(case, t),
         NEW v \in Value, v = IF t.sec = "arg" THEN N.args[pos] ELSE N.props[pos].val,
         NEW grow \in BOOLEAN, Settle(t, Loc(t.sec, pos), DecodeValue(f, v), grow),
         Loc(t.sec, pos) \in Faults(case) <=> ~Admits(f, v),
         grow => ~f.opt,
         ~grow => /\ t.sec = "arg" => t.fld >= pos
                  /\ \A k \in Own(case, t) : k = pos,
         \A i \in DOMAIN S.props :
           i \in seen' <=> i \in seen \/ (S.props[i].val.opt /\ t = Slot("prop", i, 0))
  PROVE  Kept
<1> DEFINE d == DecodeValue(f, v)
<1>1. d \in Outcome /\ (d.res = "dummy" => d.emits > 0)
      /\ (Clean(d) <=> Admits(f, v))
      /\ (d.res = "null" => f.opt)
      /\ (Clean(d) => (d.res = "null" <=> IsNull(f, v)))
  BY DecodeValueType, DummyIsEmitted, CleanIffAdmitted, NullNeedsOption, CleanNull
<1>2. pos \in Nulls(case, t) <=> IsNull(f, v)
  BY DEF Nulls, N
<1>3. ~grow => vals[t] = <<>>
  <2> SUFFICES ASSUME ~grow PROVE vals[t] = <<>>
    OBVIOUS
  <2>1. Source(t, 0) \notin Gone BY FieldsAhead
  <2>2. \A k \in Own(case, t) : Source(t, k) \in Gone => k < pos BY DueAtItem
  <2>3. pos \in Nat BY DEF TypeOK
  <2>4. \A k \in Own(case, t) : Source(t, k) \notin Gone BY <2>2, <2>3
  <2> QED BY <2>1, <2>4, EmptyBefore DEF Running
<1>4. /\ d.res = "null" => ~NeverNull(t) /\ ~grow
      /\ t.sec # "child"
  BY <1>1 DEF NeverNull
<1> HIDE DEF d
<1>5. Settle(t, Loc(t.sec, pos), d, grow) BY DEF d
<1> QED BY <1>1, <1>2, <1>3, <1>4, <1>5, SettleKeeps

LEMMA DecodeArgKeeps ==
  ASSUME TypeOK, Blameless, Running, raised = <<>>, DecodeArg
  PROVE  Kept
<1> DEFINE t == Slot("arg", pos, 0)
<1>1. /\ phase = "args" /\ pos \in DOMAIN S.args /\ pos \in DOMAIN N.args
      /\ Settle(t, Loc("arg", pos), DecodeValue(S.args[pos].val, N.args[pos]), FALSE)
      /\ UNCHANGED <<case, seen>>
  BY DEF DecodeArg, At
<1>2. t \in SlotsOf(S) /\ t.sec = "arg" /\ t.fld = pos /\ t.sub = 0
  BY <1>1, CaseParts, SlotsExist DEF Slot
<1>3. pos \in Nat \ {0} BY DEF TypeOK
<1>4. Own(case, t) = {pos} BY <1>1, <1>2, <1>3 DEF Own, N
<1>5. ScalarOf(case, t) = S.args[pos].val BY <1>2, <1>3 DEF ScalarOf, S
<1>6. S.args[pos].val \in Field /\ N.args[pos] \in Value BY <1>1, ItemTypes
<1>7. Loc("arg", pos) \in Faults(case) <=> ~Admits(S.args[pos].val, N.args[pos])
  BY <1>1, FaultsAre DEF ArgAdmitted, S, N
<1>8. \A i \in DOMAIN S.props : t # Slot("prop", i, 0) BY DEF Slot
<1> HIDE DEF t
<1>9. phase = PhaseOf(t.sec) BY <1>1, <1>2 DEF PhaseOf
<1>10. t.fld >= pos /\ pos \in Own(case, t) /\ \A k \in Own(case, t) : k = pos
  BY <1>2, <1>3, <1>4
<1> QED BY <1>1, <1>2, <1>5, <1>6, <1>7, <1>8, <1>9, <1>10, ScalarKeeps

LEMMA DecodeVarArgKeeps ==
  ASSUME TypeOK, Blameless, Running, raised = <<>>, DecodeVarArg
  PROVE  Kept
<1> DEFINE t == Slot("arg", 0, 0)
<1>1. /\ phase = "args" /\ pos \notin DOMAIN S.args /\ pos \in DOMAIN N.args /\ S.varArgs
      /\ Settle(t, Loc("arg", pos), DecodeValue(S.argVal, N.args[pos]), TRUE)
      /\ UNCHANGED <<case, seen>>
  BY DEF DecodeVarArg, At
<1>2. t \in SlotsOf(S) /\ t.sec = "arg" /\ t.fld = 0 /\ t.sub = 0
  BY CaseParts, SlotsExist DEF Slot
<1>3. pos \in Own(case, t) BY <1>1, <1>2 DEF Own, N, S
<1>4. ScalarOf(case, t) = S.argVal BY <1>2 DEF ScalarOf, S
<1>5. S.argVal \in Field /\ N.args[pos] \in Value /\ ~S.argVal.opt
  BY <1>1, ItemTypes, CaseParts DEF TypeOK, WellFormed, S
<1>6. Loc("arg", pos) \in Faults(case) <=> ~Admits(S.argVal, N.args[pos])
  BY <1>1, FaultsAre DEF ArgAdmitted, S, N
<1>7. \A i \in DOMAIN S.props : t # Slot("prop", i, 0) BY DEF Slot
<1> HIDE DEF t
<1>8. phase = PhaseOf(t.sec) BY <1>1, <1>2 DEF PhaseOf
<1> QED BY <1>1, <1>2, <1>3, <1>4, <1>5, <1>6, <1>7, <1>8, ScalarKeeps

LEMMA ExtraArgKeeps ==
  ASSUME TypeOK, Blameless, Running, raised = <<>>, ExtraArg
  PROVE  Kept
<1>1. /\ pos \notin DOMAIN S.args /\ pos \in DOMAIN N.args /\ ~S.varArgs
      /\ Raise(Loc("arg", pos)) /\ UNCHANGED <<case, vals, errs>>
  BY DEF ExtraArg
<1>2. Loc("arg", pos) \in Faults(case) BY <1>1, FaultsAre DEF ArgAdmitted, S, N
<1>3. Loc("arg", pos) \in Place BY PlaceTypes DEF Sections, TypeOK
<1> QED BY <1>1, <1>2, <1>3, RaiseKeeps

\* The properties that belong to a field share its name, so there is only one.
LEMMA OneOfAName ==
  ASSUME TypeOK, NEW t \in SlotsOf(S), t.sec = "prop", t.fld > 0,
         NEW k \in Own(case, t), NEW m \in Own(case, t)
  PROVE  k = m
<1>1. case \in Case /\ WellFormed(case) BY DEF TypeOK
<1>2. k \in DOMAIN N.props /\ m \in DOMAIN N.props BY <1>1, OwnBounds DEF N, S
<1>3. N.props[k].name = N.props[m].name
  <2>1. CASE t.sub = 0
    BY <2>1 DEF Own, IsArm, Takes, N
  <2>2. CASE t.sub # 0
    BY <2>2 DEF Own, IsPartArm, N
  <2> QED BY <2>1, <2>2
<1> QED BY <1>1, <1>2, <1>3 DEF WellFormed, N

LEMMA NamedPropKeeps ==
  ASSUME TypeOK, Blameless, Running, raised = <<>>, NamedProp
  PROVE  Kept
<1>1. PICK i \in DOMAIN S.props :
        /\ IsArm(S.props, i, N.props[pos].name)
        /\ S.props[i].mode = "Named"
        /\ seen' = IF S.props[i].val.opt THEN seen \cup {i} ELSE seen
        /\ Settle(Slot("prop", i, 0), Loc("prop", pos),
                  DecodeValue(S.props[i].val, N.props[pos].val), FALSE)
  BY DEF NamedProp
<1> DEFINE t == Slot("prop", i, 0)
<1>2. phase = "props" /\ pos \in DOMAIN N.props /\ UNCHANGED case
  BY DEF NamedProp, HereProp, At
<1>3. /\ t \in SlotsOf(S) /\ t.sec = "prop" /\ t.fld = i /\ t.sub = 0
      /\ i \in Nat \ {0}
  BY CaseParts, SlotsExist DEF Slot
<1>4. pos \in Own(case, t) BY <1>1, <1>2, <1>3 DEF Own, N, S
<1>5. ScalarOf(case, t) = S.props[i].val BY <1>3 DEF ScalarOf, S
<1>6. S.props[i].val \in Field /\ N.props[pos].val \in Value BY <1>2, ItemTypes
<1>7. Loc("prop", pos) \in Faults(case) <=> ~Admits(S.props[i].val, N.props[pos].val)
  <2>1. \A h \in DOMAIN S.props : IsArm(S.props, h, N.props[pos].name) => h = i
    BY <1>1, CaseParts, OneArm
  <2>2. ~NoArm(S.props, N.props[pos].name) BY <1>1, ArmOrNone
  <2>3. PropAdmitted(S, N, pos) <=> Admits(S.props[i].val, N.props[pos].val)
    BY <1>1, <2>1, <2>2 DEF PropAdmitted
  <2> QED BY <1>2, <2>3, FaultsAre DEF S, N
<1>8. \A h \in DOMAIN S.props : t = Slot("prop", h, 0) <=> h = i BY DEF Slot
<1>9. \A k \in Own(case, t) : k = pos BY <1>3, <1>4, OneOfAName
<1> HIDE DEF t
<1>10. phase = PhaseOf(t.sec) BY <1>2, <1>3 DEF PhaseOf
<1>11. \A h \in DOMAIN S.props :
         h \in seen' <=> h \in seen \/ (S.props[h].val.opt /\ t = Slot("prop", h, 0))
  BY <1>1, <1>8
<1>12. Settle(t, Loc("prop", pos), DecodeValue(S.props[i].val, N.props[pos].val), FALSE)
  BY <1>1 DEF t
<1> QED BY <1>2, <1>3, <1>4, <1>5, <1>6, <1>7, <1>9, <1>10, <1>11, <1>12, ScalarKeeps

LEMMA FlattenPropKeeps ==
  ASSUME TypeOK, Blameless, Running, raised = <<>>, FlattenProp
  PROVE  Kept
<1>1. PICK i \in DOMAIN S.props : \E j \in DOMAIN S.props[i].part :
        /\ IsArm(S.props, i, N.props[pos].name)
        /\ S.props[i].mode = "Flatten"
        /\ IsPartArm(S.props[i].part, j, N.props[pos].name)
        /\ Settle(Slot("prop", i, j), Loc("prop", pos),
                  DecodeValue(S.props[i].part[j].val, N.props[pos].val), FALSE)
  BY DEF FlattenProp
<1>2. PICK j \in DOMAIN S.props[i].part :
        /\ IsPartArm(S.props[i].part, j, N.props[pos].name)
        /\ Settle(Slot("prop", i, j), Loc("prop", pos),
                  DecodeValue(S.props[i].part[j].val, N.props[pos].val), FALSE)
  BY <1>1
<1> DEFINE t == Slot("prop", i, j)
<1>3. phase = "props" /\ pos \in DOMAIN N.props /\ UNCHANGED <<case, seen>>
  BY DEF FlattenProp, HereProp, At
<1>4. S.props[i].part \in Seq(PartProp)
  <2>1. S.props[i] \in Prop BY CaseParts, ElementOf
  <2> QED BY <2>1 DEF Prop
<1>5. /\ t \in SlotsOf(S) /\ t.sec = "prop" /\ t.fld = i /\ t.sub = j
      /\ i \in Nat \ {0} /\ j \in Nat \ {0}
  BY <1>4, CaseParts, SlotsExist DEF Slot
<1>6. pos \in Own(case, t) BY <1>1, <1>2, <1>3, <1>5 DEF Own, N, S
<1>7. ScalarOf(case, t) = S.props[i].part[j].val BY <1>5 DEF ScalarOf, S
<1>8. S.props[i].part[j].val \in Field /\ N.props[pos].val \in Value BY <1>3, ItemTypes
<1>9. Loc("prop", pos) \in Faults(case) <=> ~Admits(S.props[i].part[j].val, N.props[pos].val)
  <2>1. \A h \in DOMAIN S.props : IsArm(S.props, h, N.props[pos].name) => h = i
    BY <1>1, CaseParts, OneArm
  <2>2. ~NoArm(S.props, N.props[pos].name) BY <1>1, ArmOrNone
  <2>3. \A h \in DOMAIN S.props[i].part :
          IsPartArm(S.props[i].part, h, N.props[pos].name) => h = j
    BY <1>2, <1>4, OnePartArm
  <2>4. PropAdmitted(S, N, pos) <=> Admits(S.props[i].part[j].val, N.props[pos].val)
    BY <1>1, <1>2, <2>1, <2>2, <2>3 DEF PropAdmitted
  <2> QED BY <1>3, <2>4, FaultsAre DEF S, N
<1>10. \A h \in DOMAIN S.props : t # Slot("prop", h, 0) BY <1>5 DEF Slot
<1>11. \A k \in Own(case, t) : k = pos BY <1>5, <1>6, OneOfAName
<1> HIDE DEF t
<1>12. phase = PhaseOf(t.sec) BY <1>3, <1>5 DEF PhaseOf
<1>13. Settle(t, Loc("prop", pos), DecodeValue(S.props[i].part[j].val, N.props[pos].val), FALSE)
  BY <1>2 DEF t
<1> QED BY <1>3, <1>5, <1>6, <1>7, <1>8, <1>9, <1>10, <1>11, <1>12, <1>13, ScalarKeeps

LEMMA VarPropKeeps ==
  ASSUME TypeOK, Blameless, Running, raised = <<>>, VarProp
  PROVE  Kept
<1> DEFINE t == Slot("prop", 0, 0)
<1>1. /\ phase = "props" /\ pos \in DOMAIN N.props /\ UNCHANGED <<case, seen>>
      /\ NoArm(S.props, N.props[pos].name) /\ S.varProps
  BY DEF VarProp, HereProp, At
<1>2. \A h \in DOMAIN S.props : ~IsArm(S.props, h, N.props[pos].name)
  BY <1>1, ArmOrNone
<1>3. Loc("prop", pos) \in Faults(case) <=>
        ~(N.props[pos].keyOk /\ Admits(S.propVal, N.props[pos].val))
  BY <1>1, <1>2, FaultsAre DEF PropAdmitted, S, N
<1>4. CASE ~N.props[pos].keyOk /\ Raise(Loc("prop", pos)) /\ UNCHANGED <<vals, errs>>
  <2>1. Loc("prop", pos) \in Place BY PlaceTypes DEF Sections, TypeOK
  <2> QED BY <1>1, <1>3, <1>4, <2>1, RaiseKeeps
<1>5. CASE /\ N.props[pos].keyOk
           /\ Settle(t, Loc("prop", pos), DecodeValue(S.propVal, N.props[pos].val), TRUE)
  <2>1. t \in SlotsOf(S) /\ t.sec = "prop" /\ t.fld = 0 /\ t.sub = 0
    BY CaseParts, SlotsExist DEF Slot
  <2>2. pos \in Own(case, t) BY <1>1, <2>1 DEF Own, N, S
  <2>3. ScalarOf(case, t) = S.propVal BY <2>1 DEF ScalarOf, S
  <2>4. S.propVal \in Field /\ N.props[pos].val \in Value /\ ~S.propVal.opt
    BY <1>1, ItemTypes, CaseParts DEF TypeOK, WellFormed, S
  <2>5. \A i \in DOMAIN S.props : t # Slot("prop", i, 0)
    <3>1. 0 \notin DOMAIN S.props BY CaseParts
    <3> QED BY <3>1 DEF Slot
  <2> HIDE DEF t
  <2>6. phase = PhaseOf(t.sec) BY <1>1, <2>1 DEF PhaseOf
  <2> QED BY <1>1, <1>3, <1>5, <2>1, <2>2, <2>3, <2>4, <2>5, <2>6, ScalarKeeps
<1> QED BY <1>4, <1>5 DEF VarProp

LEMMA UnexpectedPropKeeps ==
  ASSUME TypeOK, Blameless, Running, raised = <<>>, UnexpectedProp
  PROVE  Kept
<1>1. /\ pos \in DOMAIN N.props /\ NoArm(S.props, N.props[pos].name) /\ ~S.varProps
      /\ Raise(Loc("prop", pos)) /\ UNCHANGED <<case, vals, errs>>
  BY DEF UnexpectedProp, HereProp
<1>2. Loc("prop", pos) \in Faults(case) BY <1>1, FaultsAre DEF PropAdmitted, S, N
<1>3. Loc("prop", pos) \in Place BY PlaceTypes DEF Sections, TypeOK
<1> QED BY <1>1, <1>2, <1>3, RaiseKeeps

\* The slot of a child field is empty exactly until its first child.
LEMMA EmptyIffFirst ==
  ASSUME TypeOK, Running, phase = "children", NEW t \in SlotsOf(S), t.sec = "child", t.fld > 0,
         pos \in Own(case, t)
  PROVE  vals[t] = <<>> <=> \A h \in 1..(pos - 1) : h \notin Own(case, t)
<1>1. phase = PhaseOf(t.sec) BY DEF PhaseOf
<1>2. case \in Case /\ S \in Schema /\ pos \in Nat \ {0} BY CaseParts DEF TypeOK
<1>3. \A k \in Own(case, t) : k \in DOMAIN N.children /\ k \in Nat \ {0}
  BY <1>2, OwnBounds DEF S, N
<1>4. ASSUME NEW h \in 1..(pos - 1), h \in Own(case, t) PROVE vals[t] # <<>>
  <2>1. Source(t, h) = Loc("child", h) BY <1>3, <1>4 DEF Source
  <2>2. Loc("child", h) \in Listed(case) BY <1>3, <1>4, ListedAre DEF N
  <2>3. Behind(Loc("child", h)) BY <1>2 DEF Behind, Loc, StageOf, Stage
  <2>4. Source(t, h) \in Gone BY <2>1, <2>2, <2>3 DEF Gone
  <2>5. NeverNull(t) BY DEF NeverNull
  <2> QED BY <1>4, <2>4, <2>5 DEF Running, Filled
<1>5. ASSUME \A h \in 1..(pos - 1) : h \notin Own(case, t) PROVE vals[t] = <<>>
  <2>1. \A k \in Own(case, t) : Source(t, k) \in Gone => k < pos BY <1>1, DueAtItem
  <2>2. ASSUME NEW k \in Own(case, t), Source(t, k) \in Gone PROVE FALSE
    <3>1. k \in Nat \ {0} /\ k < pos BY <1>3, <2>1, <2>2
    <3>2. k \in 1..(pos - 1) BY <1>2, <3>1
    <3> QED BY <1>5, <3>2
  <2>3. Source(t, 0) \notin Gone BY <1>1, FieldsAhead
  <2> QED BY <2>2, <2>3, EmptyBefore DEF Running
<1> QED BY <1>4, <1>5

\* What decode_node makes of a child is clean if the child is good.
LEMMA ChildOutcomes ==
  ASSUME NEW child \in NodeChild
  PROVE  LET d == ChildOutcome(child)
         IN /\ Clean(d) <=> child.own = "good"
            /\ d.res # "null" /\ (d.res = "dummy" => d.emits > 0)
<1>1. child.own \in {"good", "soft", "hard"} BY DEF NodeChild
<1> QED BY <1>1 DEF ChildOutcome, Result, Clean

\* An outcome that a child's decoder leaves is put into its slot.
LEMMA ChildKeeps ==
  ASSUME TypeOK, Blameless, Running, raised = <<>>, UNCHANGED <<case, seen>>, HereChild,
         NEW t \in SlotsOf(S), t.sec = "child", pos \in Own(case, t),
         NEW d \in Outcome, NEW grow \in BOOLEAN, Settle(t, Loc("child", pos), d, grow),
         Clean(d) <=> Loc("child", pos) \notin Faults(case),
         d.res # "null", d.res = "dummy" => d.emits > 0,
         ~grow => vals[t] = <<>> \/ (t.sub > 0 /\ d.emits > 0)
  PROVE  Kept
<1>1. phase = PhaseOf(t.sec) BY DEF HereChild, At, PhaseOf
<1>2. pos \notin Nulls(case, t) BY DEF Nulls
<1>3. \A i \in DOMAIN S.props : t # Slot("prop", i, 0) BY DEF Slot
<1> QED BY <1>1, <1>2, <1>3, SettleKeeps

\* A child's arm decides whether it is a fault.
LEMMA ArmDecides ==
  ASSUME TypeOK, HereChild, NEW i \in DOMAIN S.children,
         IsArm(S.children, i, N.children[pos].name)
  PROVE  LET c == N.children[pos]
         IN /\ S.children[i].mode = "Multi" =>
                 (Loc("child", pos) \notin Faults(case) <=> c.own = "good")
            /\ S.children[i].mode = "Normal" =>
                 (Loc("child", pos) \notin Faults(case) <=>
                    c.own = "good" /\ FirstOf(N, pos, i, S))
            /\ S.children[i].mode = "Bool" =>
                 (Loc("child", pos) \notin Faults(case) <=>
                    c.extras = 0 /\ FirstOf(N, pos, i, S))
            /\ S.children[i].mode = "Flatten" =>
                 \A j \in DOMAIN S.children[i].part :
                   IsPartArm(S.children[i].part, j, c.name) =>
                     (Loc("child", pos) \notin Faults(case) <=>
                        /\ Fits(S.children[i].part[j].mode, c)
                        /\ FirstOfPart(N, pos, i, j, S))
<1> DEFINE c == N.children[pos]
<1>1. pos \in DOMAIN N.children BY DEF HereChild
<1>2. Loc("child", pos) \notin Faults(case) <=> ChildAdmitted(S, N, pos)
  BY <1>1, FaultsAre DEF S, N
<1>3. \A h \in DOMAIN S.children : IsArm(S.children, h, c.name) => h = i
  BY CaseParts, OneArm
<1>4. ~NoArm(S.children, c.name) BY ArmOrNone
<1>5. S.children[i].part \in Seq(PartChild)
  <2>1. S.children[i] \in Child BY CaseParts, ElementOf
  <2> QED BY <2>1 DEF Child
<1>6. ASSUME NEW g, NEW h, IsPartArm(S.children[i].part, g, N.children[pos].name),
             IsPartArm(S.children[i].part, h, N.children[pos].name)
      PROVE  g = h
  BY <1>5, <1>6, OnePartArm
<1>7. ChildAdmitted(S, N, pos) <=>
        \/ S.children[i].mode = "Multi" /\ Fits("Multi", c)
        \/ /\ S.children[i].mode \in {"Normal", "Bool"}
           /\ Fits(S.children[i].mode, c) /\ FirstOf(N, pos, i, S)
        \/ /\ S.children[i].mode = "Flatten"
           /\ \A j \in DOMAIN S.children[i].part :
                IsPartArm(S.children[i].part, j, c.name) =>
                  /\ Fits(S.children[i].part[j].mode, c)
                  /\ FirstOfPart(N, pos, i, j, S)
  BY <1>3, <1>4 DEF ChildAdmitted
<1> HIDE DEF c
<1>8. /\ S.children[i].mode = "Multi" => (ChildAdmitted(S, N, pos) <=> c.own = "good")
      /\ S.children[i].mode = "Normal" =>
           (ChildAdmitted(S, N, pos) <=> c.own = "good" /\ FirstOf(N, pos, i, S))
      /\ S.children[i].mode = "Bool" =>
           (ChildAdmitted(S, N, pos) <=> c.extras = 0 /\ FirstOf(N, pos, i, S))
  BY <1>7 DEF Fits
<1>9. ASSUME S.children[i].mode = "Flatten", NEW j \in DOMAIN S.children[i].part,
             IsPartArm(S.children[i].part, j, c.name)
      PROVE  ChildAdmitted(S, N, pos) <=> /\ Fits(S.children[i].part[j].mode, c)
                                          /\ FirstOfPart(N, pos, i, j, S)
  <2>1. \A h \in DOMAIN S.children[i].part : IsPartArm(S.children[i].part, h, c.name) => h = j
    BY <1>6, <1>9 DEF c
  <2> QED BY <1>7, <1>9, <2>1
<1> QED BY <1>2, <1>8, <1>9 DEF c

\* A child of an earlier item that belongs to the same slot.
LEMMA FirstIffNoOwn ==
  ASSUME TypeOK, HereChild, NEW i \in DOMAIN S.children
  PROVE  /\ S.children[i].mode # "Flatten" =>
              (FirstOf(N, pos, i, S) <=>
                 \A h \in 1..(pos - 1) : h \notin Own(case, Slot("child", i, 0)))
         /\ \A j \in DOMAIN S.children[i].part :
              FirstOfPart(N, pos, i, j, S) <=>
                \A h \in 1..(pos - 1) : h \notin Own(case, Slot("child", i, j))
<1>1. pos \in DOMAIN N.children /\ \A h \in 1..(pos - 1) : h \in DOMAIN N.children
  BY CaseParts DEF HereChild
<1>2. i # 0 BY CaseParts
<1>3. ASSUME NEW h \in 1..(pos - 1), S.children[i].mode # "Flatten"
      PROVE  h \in Own(case, Slot("child", i, 0)) <=> IsArm(S.children, i, N.children[h].name)
  BY <1>1, <1>2, <1>3 DEF Own, Slot, S, N
<1>4. S.children[i].part \in Seq(PartChild)
  <2>1. S.children[i] \in Child BY CaseParts, ElementOf
  <2> QED BY <2>1 DEF Child
<1>5. ASSUME NEW j \in DOMAIN S.children[i].part, NEW h \in 1..(pos - 1)
      PROVE  h \in Own(case, Slot("child", i, j)) <=>
               /\ IsArm(S.children, i, N.children[h].name)
               /\ IsPartArm(S.children[i].part, j, N.children[h].name)
  <2>1. j # 0 BY <1>4
  <2> QED BY <1>1, <1>2, <2>1 DEF Own, Slot, S, N
<1> QED BY <1>3, <1>5 DEF FirstOf, FirstOfPart

\* The slot of a child with an arm of its own.
LEMMA ArmSlot ==
  ASSUME TypeOK, HereChild, NEW i \in DOMAIN S.children,
         IsArm(S.children, i, N.children[pos].name), S.children[i].mode # "Flatten"
  PROVE  LET t == Slot("child", i, 0)
         IN /\ t \in SlotsOf(S) /\ t.sec = "child" /\ t.fld > 0 /\ pos \in Own(case, t)
            /\ Running => (vals[t] = <<>> <=> FirstOf(N, pos, i, S))
<1> DEFINE t == Slot("child", i, 0)
<1>1. t \in SlotsOf(S) /\ t.sec = "child" /\ t.fld = i /\ t.sub = 0 /\ i > 0
  BY CaseParts, SlotsExist DEF Slot
<1>2. pos \in Own(case, t) BY <1>1 DEF Own, HereChild, N, S
<1>3. phase = "children" BY DEF HereChild, At
<1>4. FirstOf(N, pos, i, S) <=> \A h \in 1..(pos - 1) : h \notin Own(case, t)
  BY FirstIffNoOwn
<1> HIDE DEF t
<1>5. Running => (vals[t] = <<>> <=> FirstOf(N, pos, i, S))
  BY <1>1, <1>2, <1>3, <1>4, EmptyIffFirst
<1> QED BY <1>1, <1>2, <1>5 DEF t

LEMMA NormalChildKeeps ==
  ASSUME TypeOK, Blameless, Running, raised = <<>>, NormalChild
  PROVE  Kept
<1>1. PICK i \in DOMAIN S.children :
        /\ HereArm(i, "Normal")
        /\ LET slot == Slot("child", i, 0)
           IN \/ /\ vals[slot] # <<>>
                 /\ Raise(Loc("child", pos)) /\ UNCHANGED <<vals, errs>>
              \/ /\ vals[slot] = <<>>
                 /\ Settle(slot, Loc("child", pos), ChildOutcome(N.children[pos]), FALSE)
  BY DEF NormalChild
<1> DEFINE t == Slot("child", i, 0)
           d == ChildOutcome(N.children[pos])
<1>2. /\ HereChild /\ IsArm(S.children, i, N.children[pos].name)
      /\ S.children[i].mode = "Normal" /\ UNCHANGED <<case, seen>>
  BY <1>1 DEF NormalChild, HereArm
<1>3. /\ t \in SlotsOf(S) /\ t.sec = "child" /\ pos \in Own(case, t)
      /\ vals[t] = <<>> <=> FirstOf(N, pos, i, S)
  BY <1>2, ArmSlot
<1>4. Loc("child", pos) \notin Faults(case) <=>
        N.children[pos].own = "good" /\ FirstOf(N, pos, i, S)
  BY <1>2, ArmDecides
<1>5. pos \in DOMAIN N.children BY <1>2 DEF HereChild
<1> HIDE DEF t
<1>6. CASE vals[t] # <<>>
  <2>1. Raise(Loc("child", pos)) /\ UNCHANGED <<vals, errs>> BY <1>1, <1>6 DEF t
  <2>2. Loc("child", pos) \in Place BY PlaceTypes DEF Sections, TypeOK
  <2> QED BY <1>2, <1>3, <1>4, <1>6, <2>1, <2>2, RaiseKeeps
<1>7. CASE vals[t] = <<>>
  <2>1. Settle(t, Loc("child", pos), d, FALSE) BY <1>1, <1>7 DEF t
  <2>2. /\ d \in Outcome /\ (Clean(d) <=> N.children[pos].own = "good")
        /\ d.res # "null" /\ (d.res = "dummy" => d.emits > 0)
    BY <1>5, ItemTypes, OutcomeTypes, ChildOutcomes
  <2> HIDE DEF d
  <2> QED BY <1>2, <1>3, <1>4, <1>7, <2>1, <2>2, ChildKeeps
<1> QED BY <1>6, <1>7

LEMMA MultiChildKeeps ==
  ASSUME TypeOK, Blameless, Running, raised = <<>>, MultiChild
  PROVE  Kept
<1>1. PICK i \in DOMAIN S.children :
        /\ HereArm(i, "Multi")
        /\ Settle(Slot("child", i, 0), Loc("child", pos), ChildOutcome(N.children[pos]), TRUE)
  BY DEF MultiChild
<1> DEFINE t == Slot("child", i, 0)
           d == ChildOutcome(N.children[pos])
<1>2. /\ HereChild /\ IsArm(S.children, i, N.children[pos].name)
      /\ S.children[i].mode = "Multi" /\ UNCHANGED <<case, seen>>
  BY <1>1 DEF MultiChild, HereArm
<1>3. t \in SlotsOf(S) /\ t.sec = "child" /\ pos \in Own(case, t) BY <1>2, ArmSlot
<1>4. Loc("child", pos) \notin Faults(case) <=> N.children[pos].own = "good"
  BY <1>2, ArmDecides
<1>5. /\ d \in Outcome /\ (Clean(d) <=> N.children[pos].own = "good")
      /\ d.res # "null" /\ (d.res = "dummy" => d.emits > 0)
  BY <1>2, ItemTypes, OutcomeTypes, ChildOutcomes DEF HereChild
<1>6. Settle(t, Loc("child", pos), d, TRUE) BY <1>1
<1> HIDE DEF t, d
<1> QED BY <1>2, <1>3, <1>4, <1>5, <1>6, ChildKeeps

LEMMA FlagChildKeeps ==
  ASSUME TypeOK, Blameless, Running, raised = <<>>, FlagChild
  PROVE  Kept
<1>1. PICK i \in DOMAIN S.children : HereArm(i, "Bool") /\ SetFlag(Slot("child", i, 0))
  BY DEF FlagChild
<1> DEFINE t == Slot("child", i, 0)
<1>2. /\ HereChild /\ IsArm(S.children, i, N.children[pos].name)
      /\ S.children[i].mode = "Bool" /\ UNCHANGED <<case, seen>>
  BY <1>1 DEF FlagChild, HereArm
<1>3. /\ t \in SlotsOf(S) /\ t.sec = "child" /\ pos \in Own(case, t)
      /\ vals[t] = <<>> <=> FirstOf(N, pos, i, S)
  BY <1>2, ArmSlot
<1>4. Loc("child", pos) \notin Faults(case) <=>
        N.children[pos].extras = 0 /\ FirstOf(N, pos, i, S)
  BY <1>2, ArmDecides
<1>5. SetFlag(t) BY <1>1
<1> HIDE DEF t
<1> QED BY <1>2, <1>3, <1>4, <1>5, SetFlagKeeps

LEMMA FlattenChildKeeps ==
  ASSUME TypeOK, Blameless, Running, raised = <<>>, FlattenChild
  PROVE  Kept
<1>1. PICK i \in DOMAIN S.children : \E j \in DOMAIN S.children[i].part :
        /\ HereArm(i, "Flatten")
        /\ IsPartArm(S.children[i].part, j, N.children[pos].name)
        /\ LET slot == Slot("child", i, j)
               own  == ChildOutcome(N.children[pos])
           IN \/ S.children[i].part[j].mode = "Bool" /\ SetFlag(slot)
              \/ /\ S.children[i].part[j].mode = "Normal"
                 /\ Settle(slot, Loc("child", pos),
                           [own EXCEPT !.emits = @ + Count(vals[slot] # <<>>)], FALSE)
  BY DEF FlattenChild
<1>2. PICK j \in DOMAIN S.children[i].part :
        /\ IsPartArm(S.children[i].part, j, N.children[pos].name)
        /\ LET slot == Slot("child", i, j)
               own  == ChildOutcome(N.children[pos])
           IN \/ S.children[i].part[j].mode = "Bool" /\ SetFlag(slot)
              \/ /\ S.children[i].part[j].mode = "Normal"
                 /\ Settle(slot, Loc("child", pos),
                           [own EXCEPT !.emits = @ + Count(vals[slot] # <<>>)], FALSE)
  BY <1>1
<1> DEFINE t   == Slot("child", i, j)
           own == ChildOutcome(N.children[pos])
           n   == Count(vals[t] # <<>>)
           d   == [own EXCEPT !.emits = @ + n]
<1>3. /\ HereChild /\ IsArm(S.children, i, N.children[pos].name)
      /\ S.children[i].mode = "Flatten" /\ UNCHANGED <<case, seen>>
  BY <1>1 DEF FlattenChild, HereArm
<1>4. S.children[i].part \in Seq(PartChild)
  <2>1. S.children[i] \in Child BY CaseParts, ElementOf
  <2> QED BY <2>1 DEF Child
<1>5. t \in SlotsOf(S) /\ t.sec = "child" /\ t.fld = i /\ t.sub = j /\ i > 0 /\ j # 0
  BY <1>4, CaseParts, SlotsExist DEF Slot
<1>6. pos \in Own(case, t) BY <1>2, <1>3, <1>5 DEF Own, HereChild, N, S
<1>7. FirstOfPart(N, pos, i, j, S) <=> \A h \in 1..(pos - 1) : h \notin Own(case, t)
  BY <1>3, FirstIffNoOwn
<1>8. Loc("child", pos) \notin Faults(case) <=>
        /\ Fits(S.children[i].part[j].mode, N.children[pos])
        /\ FirstOfPart(N, pos, i, j, S)
  BY <1>2, <1>3, ArmDecides
<1>9. n \in {0, 1} /\ (n = 0 <=> vals[t] = <<>>) BY DEF Count
<1>10. \/ S.children[i].part[j].mode = "Bool" /\ SetFlag(t)
       \/ S.children[i].part[j].mode = "Normal" /\ Settle(t, Loc("child", pos), d, FALSE)
  BY <1>2
<1>11. /\ own \in Outcome /\ (Clean(own) <=> N.children[pos].own = "good")
       /\ own.res # "null" /\ (own.res = "dummy" => own.emits > 0)
  BY <1>3, ItemTypes, OutcomeTypes, ChildOutcomes DEF HereChild
<1> HIDE DEF t, own, n
<1>12. vals[t] = <<>> <=> FirstOfPart(N, pos, i, j, S)
  <2>1. phase = "children" BY <1>3 DEF HereChild, At
  <2> QED BY <1>5, <1>6, <1>7, <2>1, EmptyIffFirst
<1>13. CASE S.children[i].part[j].mode = "Bool" /\ SetFlag(t)
  <2>1. Loc("child", pos) \notin Faults(case) <=> N.children[pos].extras = 0 /\ vals[t] = <<>>
    BY <1>8, <1>12, <1>13 DEF Fits
  <2> QED BY <1>3, <1>5, <1>6, <1>13, <2>1, SetFlagKeeps
<1>14. CASE S.children[i].part[j].mode = "Normal" /\ Settle(t, Loc("child", pos), d, FALSE)
  <2>1. Loc("child", pos) \notin Faults(case) <=> N.children[pos].own = "good" /\ vals[t] = <<>>
    BY <1>8, <1>12, <1>14 DEF Fits
  <2>2. d \in Outcome /\ d.emits = own.emits + n /\ d.res = own.res
    BY <1>9, <1>11 DEF Outcome
  <2> HIDE DEF d
  <2>3. own.emits \in Nat BY <1>11 DEF Outcome
  <2>4. Clean(d) <=> N.children[pos].own = "good" /\ vals[t] = <<>>
    BY <1>9, <1>11, <2>2, <2>3 DEF Clean
  <2>5. d.res # "null" /\ (d.res = "dummy" => d.emits > 0)
    BY <1>9, <1>11, <2>2, <2>3
  <2>6. vals[t] = <<>> \/ (t.sub > 0 /\ d.emits > 0)
    <3>1. t.sub > 0 BY <1>4, <1>5
    <3> QED BY <1>9, <2>2, <2>3, <3>1
  <2> QED BY <1>3, <1>5, <1>6, <1>14, <2>1, <2>2, <2>4, <2>5, <2>6, ChildKeeps
<1> QED BY <1>10, <1>13, <1>14

\* A child that no arm takes.
LEMMA ArmlessChild ==
  ASSUME TypeOK, HereChild, NoArm(S.children, N.children[pos].name)
  PROVE  LET t == Slot("child", 0, 0)
         IN /\ t \in SlotsOf(S) /\ t.sec = "child" /\ t.fld = 0 /\ pos \in Own(case, t)
            /\ Loc("child", pos) \notin Faults(case)
                 <=> S.varChildren /\ N.children[pos].own = "good"
<1>1. pos \in DOMAIN N.children BY DEF HereChild
<1>2. \A h \in DOMAIN S.children : ~IsArm(S.children, h, N.children[pos].name)
  BY ArmOrNone
<1>3. Loc("child", pos) \notin Faults(case)
        <=> S.varChildren /\ N.children[pos].own = "good"
  BY <1>1, <1>2, FaultsAre DEF ChildAdmitted, S, N
<1>4. Slot("child", 0, 0) \in SlotsOf(S) BY CaseParts, SlotsExist
<1>5. pos \in Own(case, Slot("child", 0, 0)) BY <1>1 DEF Own, Slot, N, S
<1> QED BY <1>3, <1>4, <1>5 DEF Slot

LEMMA VarChildKeeps ==
  ASSUME TypeOK, Blameless, Running, raised = <<>>, VarChild
  PROVE  Kept
<1> DEFINE t == Slot("child", 0, 0)
           d == ChildOutcome(N.children[pos])
<1>1. /\ HereChild /\ NoArm(S.children, N.children[pos].name) /\ S.varChildren
      /\ Settle(t, Loc("child", pos), d, TRUE) /\ UNCHANGED <<case, seen>>
  BY DEF VarChild
<1>2. /\ t \in SlotsOf(S) /\ t.sec = "child" /\ pos \in Own(case, t)
      /\ Loc("child", pos) \notin Faults(case) <=> N.children[pos].own = "good"
  BY <1>1, ArmlessChild
<1>3. /\ d \in Outcome /\ (Clean(d) <=> N.children[pos].own = "good")
      /\ d.res # "null" /\ (d.res = "dummy" => d.emits > 0)
  BY <1>1, ItemTypes, OutcomeTypes, ChildOutcomes DEF HereChild
<1> HIDE DEF t, d
<1> QED BY <1>1, <1>2, <1>3, ChildKeeps

LEMMA UnexpectedChildKeeps ==
  ASSUME TypeOK, Blameless, Running, raised = <<>>, UnexpectedChild
  PROVE  Kept
<1> DEFINE t == Slot("child", 0, 0)
<1>1. /\ HereChild /\ NoArm(S.children, N.children[pos].name) /\ ~S.varChildren
      /\ Emit(Loc("child", pos), 1) /\ Advance /\ UNCHANGED <<case, vals, seen, raised>>
  BY DEF UnexpectedChild
<1>2. /\ t \in SlotsOf(S) /\ t.sec = "child" /\ t.fld = 0 /\ pos \in Own(case, t)
      /\ Loc("child", pos) \in Faults(case)
  BY <1>1, ArmlessChild
<1>3. ~NeverNull(t) BY <1>2 DEF NeverNull
<1> HIDE DEF t
<1>4. 1 \in Nat \ {0} OBVIOUS
<1> QED BY <1>1, <1>2, <1>3, <1>4, ReportKeeps

LEMMA MissingArgKeeps ==
  ASSUME TypeOK, Blameless, Running, raised = <<>>, MissingArg
  PROVE  Kept
<1> DEFINE t == Slot("arg", pos, 0)
           f == S.args[pos]
           dflt == f.dflt
           req  == ~f.dflt /\ ~f.val.opt
<1>1. /\ phase = "args" /\ pos \in DOMAIN S.args /\ pos \notin DOMAIN N.args
      /\ FillIn(t, Loc("noArg", pos), dflt, req)
      /\ UNCHANGED case
  BY DEF MissingArg, At
<1>2. t \in SlotsOf(S) /\ t.sec = "arg" /\ t.fld = pos /\ t.sub = 0 /\ pos > 0
  BY <1>1, CaseParts, SlotsExist DEF Slot
<1>3. NoSec("arg") = "noArg" BY DEF NoSec
<1>4. Own(case, t) = {} BY <1>1, <1>2 DEF Own, N
<1>5. dflt <=> Defaults(case, t) BY <1>2, <1>4 DEF Defaults, S
<1>6. Loc("noArg", pos) \in Faults(case) <=> req
  BY <1>1, FaultsAre DEF ArgMissing, S, N
<1>7. req => ~dflt OBVIOUS
<1> HIDE DEF dflt, req
<1> QED BY <1>1, <1>2, <1>3, <1>5, <1>6, <1>7, FillInKeeps

\* The items of a section are behind when its fields are finished.
LEMMA AllBehind ==
  ASSUME TypeOK
  PROVE  /\ phase = "propsPost" => \A k \in DOMAIN N.props : Loc("prop", k) \in Gone
         /\ phase = "childrenPost" => \A k \in DOMAIN N.children : Loc("child", k) \in Gone
<1>1. ASSUME phase = "propsPost", NEW k \in DOMAIN N.props PROVE Loc("prop", k) \in Gone
  <2>1. Loc("prop", k) \in Listed(case) BY <1>1, ListedAre DEF N
  <2>2. Behind(Loc("prop", k)) BY <1>1 DEF Behind, Loc, StageOf, Stage
  <2> QED BY <2>1, <2>2 DEF Gone
<1>2. ASSUME phase = "childrenPost", NEW k \in DOMAIN N.children PROVE Loc("child", k) \in Gone
  <2>1. Loc("child", k) \in Listed(case) BY <1>2, ListedAre DEF N
  <2>2. Behind(Loc("child", k)) BY <1>2 DEF Behind, Loc, StageOf, Stage
  <2> QED BY <2>1, <2>2 DEF Gone
<1> QED BY <1>1, <1>2

\* Then a slot that never holds a null is empty if nothing belongs to it.
LEMMA EmptyIffUnset ==
  ASSUME TypeOK, Running, NEW t \in SlotsOf(S), t.fld = pos, t.sub = 0,
         \/ t.sec = "prop" /\ phase = "propsPost" /\ pos \in DOMAIN S.props
         \/ t.sec = "child" /\ phase = "childrenPost" /\ pos \in DOMAIN S.children
  PROVE  /\ Own(case, t) = {} => vals[t] = <<>>
         /\ NeverNull(t) /\ vals[t] = <<>> => Own(case, t) = {}
<1>1. case \in Case /\ S \in Schema BY CaseParts DEF TypeOK
<1>2. t = Slot(t.sec, pos, 0) BY <1>1, SlotShapes
<1>3. Source(t, 0) \notin Gone BY <1>2, DueAtField
<1>4. \A k \in Own(case, t) : Source(t, k) \in Gone
  BY <1>1, OwnBounds, AllBehind DEF Source, S, N
<1> QED BY <1>3, <1>4, EmptyBefore DEF Running, Filled

LEMMA FinishPropKeeps ==
  ASSUME TypeOK, Blameless, Running, raised = <<>>, FinishProp
  PROVE  Kept
<1> DEFINE t     == Slot("prop", pos, 0)
           f     == S.props[pos]
           empty == vals[t] = <<>>
           named == f.mode = "Named"
           unset == IF f.val.opt THEN pos \notin seen ELSE empty
           dflt  == named /\ f.dflt /\ unset
           req   == named /\ ~f.dflt /\ ~f.val.opt /\ empty
<1>1. /\ phase = "propsPost" /\ pos \in DOMAIN S.props
      /\ FillIn(t, Loc("noProp", pos), dflt, req)
      /\ UNCHANGED case
  BY DEF FinishProp, At
<1>2. t \in SlotsOf(S) /\ t.sec = "prop" /\ t.fld = pos /\ t.sub = 0 /\ pos > 0
  BY <1>1, CaseParts, SlotsExist DEF Slot
<1>3. NoSec("prop") = "noProp" BY DEF NoSec
<1>4. NeverNull(t) <=> ~f.val.opt BY <1>2 DEF NeverNull, ScalarOf, S
<1>5. Own(case, t) = {} <=> unset
  <2>1. CASE f.val.opt
    <3>1. pos \in seen <=> \E k \in Own(case, t) : Loc("prop", k) \in Gone
      BY <1>1, <2>1 DEF Running, SeenRight, Given
    <3>2. \A k \in Own(case, t) : Loc("prop", k) \in Gone
      <4>1. case \in Case BY DEF TypeOK
      <4> QED BY <1>1, <1>2, <4>1, OwnBounds, AllBehind DEF S, N
    <3> QED BY <2>1, <3>1, <3>2
  <2>2. CASE ~f.val.opt BY <1>1, <1>2, <1>4, <2>2, EmptyIffUnset
  <2> QED BY <2>1, <2>2
<1>6. named => (Own(case, t) = {} <=>
                  \A k \in DOMAIN N.props : ~IsArm(S.props, pos, N.props[k].name))
  BY <1>2 DEF Own, S, N
<1>7. Loc("noProp", pos) \in Faults(case) <=> req
  BY <1>1, <1>5, <1>6, FaultsAre DEF PropMissing, S, N
<1>8. dflt <=> Defaults(case, t)
  <2>1. Defaults(case, t) <=> Own(case, t) = {} /\ named /\ f.dflt
    BY <1>2 DEF Defaults, S
  <2> QED BY <1>5, <2>1
<1>9. req => ~dflt OBVIOUS
<1> HIDE DEF dflt, req
<1> QED BY <1>1, <1>2, <1>3, <1>7, <1>8, <1>9, FillInKeeps

LEMMA FinishChildKeeps ==
  ASSUME TypeOK, Blameless, Running, raised = <<>>, FinishChild
  PROVE  Kept
<1> DEFINE t     == Slot("child", pos, 0)
           f     == S.children[pos]
           empty == vals[t] = <<>>
           dflt  == f.mode \in {"Normal", "Multi"} /\ f.dflt /\ empty
           req   == f.mode = "Normal" /\ ~f.dflt /\ ~f.opt /\ empty
<1>1. /\ phase = "childrenPost" /\ pos \in DOMAIN S.children
      /\ FillIn(t, Loc("noChild", pos), dflt, req)
      /\ UNCHANGED case
  BY DEF FinishChild, At
<1>2. t \in SlotsOf(S) /\ t.sec = "child" /\ t.fld = pos /\ t.sub = 0 /\ pos > 0
  BY <1>1, CaseParts, SlotsExist DEF Slot
<1>3. NoSec("child") = "noChild" BY DEF NoSec
<1>4. NeverNull(t) BY <1>2 DEF NeverNull
<1>5. Own(case, t) = {} <=> empty BY <1>1, <1>2, <1>4, EmptyIffUnset
<1>6. f.mode # "Flatten" =>
        (Own(case, t) = {} <=>
           \A k \in DOMAIN N.children : ~IsArm(S.children, pos, N.children[k].name))
  BY <1>2 DEF Own, S, N
<1>7. Loc("noChild", pos) \in Faults(case) <=> req
  BY <1>1, <1>5, <1>6, FaultsAre DEF ChildMissing, S, N
<1>8. dflt <=> Defaults(case, t)
  <2>1. Defaults(case, t) <=> Own(case, t) = {} /\ f.mode \in {"Normal", "Multi"} /\ f.dflt
    BY <1>2 DEF Defaults, S
  <2> QED BY <1>5, <2>1
<1>9. req => ~dflt OBVIOUS
<1> HIDE DEF dflt, req
<1> QED BY <1>1, <1>2, <1>3, <1>7, <1>8, <1>9, FillInKeeps

LEMMA JoinedEmpty ==
  ASSUME NEW T, NEW s \in Seq(T), NEW m \in Seq(T), s \o m = <<>>
  PROVE  s = <<>>
<1>1. Len(s \o m) = Len(s) + Len(m) /\ Len(s) \in Nat /\ Len(m) \in Nat OBVIOUS
<1>2. Len(<<>>) = 0 OBVIOUS
<1>3. Len(s) = 0 BY <1>1, <1>2
<1> QED BY <1>3

\* A step that only puts places behind that no slot and no fault waits for.
LEMMA MoveKeeps ==
  ASSUME TypeOK, Blameless, Running, raised = <<>>, UNCHANGED <<case, vals, seen>>,
         NEW l \in Place, NEW n \in Nat, Emit(l, n), n > 0 => l \in Faults(case),
         UNCHANGED raised,
         NEW new, Gone' = Gone \cup new, \A f \in new : f.sec \in {"name", "type"},
         \A f \in new \cap Faults(case) : f = l /\ n > 0,
         phase = "children" => pos \notin DOMAIN N.children
  PROVE  Kept
<1>1. Blameless' BY BlameKept
<1>2. Thorough' BY ThoroughKept DEF Running
<1>3. \A s \in SlotsOf(S) : \A k : Source(s, k) \notin new
  <2> SUFFICES ASSUME NEW s \in SlotsOf(S), NEW k PROVE Source(s, k).sec \notin {"name", "type"}
    OBVIOUS
  <2>1. s.sec \in {"arg", "prop", "child"} BY CaseParts, SlotShapes
  <2> QED BY <2>1 DEF Source, NoSec, Loc
<1>4. InPlace' BY InPlaceKept DEF Running
<1>5. Filled' BY <1>3, FilledKept DEF Running
<1>6. SeenRight'
  <2>1. \A k : Loc("prop", k) \notin new BY DEF Loc
  <2> QED BY <2>1, SeenKept DEF Running
<1>7. Delivered'
  <2>1. ASSUME errs' = <<>> PROVE errs = <<>>
    <3>1. errs \in Seq(Place) BY DEF TypeOK
    <3>2. Times(n, l) \in Seq(Place) BY Repeated DEF Times
    <3>3. errs' = errs \o Times(n, l) BY DEF Emit, Times
    <3> QED BY <2>1, <3>1, <3>2, <3>3, JoinedEmpty
  <2>2. Idle(new) BY <1>3 DEF Idle
  <2> QED BY <2>1, <2>2, DeliveredKept DEF Running
<1>8. Grown /\ Accounted BY NothingGrows DEF Accounted
<1> QED BY <1>1, <1>2, <1>4, <1>5, <1>6, <1>7, <1>8 DEF Kept, Running

LEMMA DecodeSpecialsKeeps ==
  ASSUME TypeOK, Blameless, Running, raised = <<>>, case.entry = "node", DecodeSpecials
  PROVE  Kept
<1> DEFINE badName == S.nodeName /\ ~N.nameOk
           badType == CASE S.typeName = "option"   -> N.ty = "bad"
                        [] S.typeName = "required" -> N.ty # "ok"
                        [] S.typeName = "absent"   -> FALSE
           n == Count(S.typeName = "absent" /\ N.ty # "none")
<1>1. /\ phase = "specials" /\ UNCHANGED <<case, vals, seen>>
      /\ \/ badName /\ Raise(Loc("name", 0)) /\ UNCHANGED errs
         \/ ~badName /\ badType /\ Raise(Loc("type", 0)) /\ UNCHANGED errs
         \/ /\ ~badName /\ ~badType /\ Emit(Loc("type", 0), n)
            /\ Enter("args") /\ UNCHANGED raised
  BY DEF DecodeSpecials, At
<1>2. Loc("name", 0) \in Place /\ Loc("type", 0) \in Place BY PlaceTypes DEF Sections
<1>3. Loc("name", 0) \in Faults(case) <=> badName BY FaultsAre DEF S, N
<1>4. S.typeName \in {"absent", "option", "required"} BY CaseParts DEF Schema
<1>5. /\ n \in Nat
      /\ n > 0 <=> S.typeName = "absent" /\ N.ty # "none"
  BY DEF Count
<1>6. Loc("type", 0) \in Faults(case) <=> n > 0 \/ badType
  BY <1>4, <1>5, FaultsAre DEF S, N
<1> HIDE DEF badName, badType, n
<1>7. CASE badName /\ Raise(Loc("name", 0)) /\ UNCHANGED errs
  BY <1>1, <1>2, <1>3, <1>7, RaiseKeeps
<1>8. CASE ~badName /\ badType /\ Raise(Loc("type", 0)) /\ UNCHANGED errs
  BY <1>1, <1>2, <1>6, <1>8, RaiseKeeps
<1>9. CASE /\ ~badName /\ ~badType /\ Emit(Loc("type", 0), n)
           /\ Enter("args") /\ UNCHANGED raised
  <2>1. Gone' = Gone \cup New BY <1>1, <1>9, GoneSpecials
  <2>2. \A f \in New : f \in {Loc("name", 0), Loc("type", 0)} BY <1>1, NewAre
  <2>3. \A f \in New : f.sec \in {"name", "type"} BY <2>2 DEF Loc
  <2>4. \A f \in New \cap Faults(case) : f = Loc("type", 0) /\ n > 0
    BY <1>3, <1>6, <1>9, <2>2
  <2>5. n > 0 => Loc("type", 0) \in Faults(case) BY <1>6
  <2> QED BY <1>1, <1>2, <1>5, <1>9, <2>1, <2>3, <2>4, <2>5, MoveKeeps
<1> QED BY <1>1, <1>7, <1>8, <1>9

\* The calls that turn from one section to the next lose nothing.
LEMMA TurnKeeps ==
  ASSUME TypeOK, Blameless, Running, raised = <<>>, UNCHANGED <<case, vals, seen, errs, raised>>,
         Gone' = Gone, phase = "children" => pos \notin DOMAIN N.children
  PROVE  Kept
<1>1. PICK l \in Place : TRUE BY PlaceTypes DEF Sections
<1>2. Emit(l, 0) BY EmitNothing
<1>3. Gone' = Gone \cup {} OBVIOUS
<1> QED BY <1>2, <1>3, MoveKeeps

Turn == ArgsDone \/ PropsDone \/ PropsFinished \/ ChildrenDone \/ Finish

LEMMA TurnsPutNothingBehind ==
  ASSUME TypeOK, Turn
  PROVE  /\ UNCHANGED <<case, vals, seen, errs, raised>> /\ Gone' = Gone
         /\ phase = "children" => pos \notin DOMAIN N.children
<1>1. UNCHANGED <<case, vals, seen, errs, raised>>
  BY DEF Turn, ArgsDone, PropsDone, PropsFinished, ChildrenDone, Finish
<1>2. /\ S.args \in Seq(Arg) /\ N.args \in Seq(Value) /\ N.props \in Seq(NodeProp)
      /\ S.props \in Seq(Prop) /\ N.children \in Seq(NodeChild)
      /\ S.children \in Seq(Child) /\ pos \in Nat \ {0}
  BY CaseParts DEF TypeOK, Schema, Node
<1>3. \A T : \A q \in Seq(T) : pos \notin DOMAIN q => \A k \in DOMAIN q : k < pos
  BY <1>2
<1>4. ASSUME NEW l \in Listed(case)
      PROVE  /\ StageOf(l.sec) = 1 => l.pos \in DOMAIN N.args \/ l.pos \in DOMAIN S.args
             /\ StageOf(l.sec) = 2 => l.pos \in DOMAIN N.props
             /\ StageOf(l.sec) = 3 => l.pos \in DOMAIN S.props
             /\ StageOf(l.sec) = 4 => l.pos \in DOMAIN N.children
             /\ StageOf(l.sec) = 5 => l.pos \in DOMAIN S.children
  <2>1. l = Loc(l.sec, l.pos) /\ l.sec \in Sections
    BY ListedTypes DEF TypeOK, Place
  <2>2. /\ l.sec = "arg" => l.pos \in DOMAIN N.args
        /\ l.sec = "noArg" => l.pos \in DOMAIN S.args
        /\ l.sec = "prop" => l.pos \in DOMAIN N.props
        /\ l.sec = "noProp" => l.pos \in DOMAIN S.props
        /\ l.sec = "child" => l.pos \in DOMAIN N.children
        /\ l.sec = "noChild" => l.pos \in DOMAIN S.children
    BY <2>1, ListedAre DEF S, N
  <2> QED BY <2>1, <2>2 DEF StageOf, Sections
<1>5. CASE ArgsDone
  <2>1. phase = "args" /\ phase' = "props" /\ pos' = 1
        /\ pos \notin DOMAIN S.args /\ pos \notin DOMAIN N.args
    BY <1>5 DEF ArgsDone, At, Enter
  <2>2. Stage(phase) = 1 /\ Stage(phase') = 2 BY <2>1 DEF Stage
  <2>3. \A l \in Listed(case) : StageOf(l.sec) = Stage(phase) => l.pos < pos
    BY <1>2, <1>3, <1>4, <2>1, <2>2
  <2>4. Gone' = Gone BY <1>1, <2>1, <2>2, <2>3, GoneMove
  <2> QED BY <1>1, <2>1, <2>4
<1>6. CASE PropsDone
  <2>1. phase = "props" /\ phase' = "propsPost" /\ pos' = 1 /\ pos \notin DOMAIN N.props
    BY <1>6 DEF PropsDone, At, Enter
  <2>2. Stage(phase) = 2 /\ Stage(phase') = 3 BY <2>1 DEF Stage
  <2>3. \A l \in Listed(case) : StageOf(l.sec) = Stage(phase) => l.pos < pos
    BY <1>2, <1>3, <1>4, <2>1, <2>2
  <2>4. Gone' = Gone BY <1>1, <2>1, <2>2, <2>3, GoneMove
  <2> QED BY <1>1, <2>1, <2>4
<1>7. CASE PropsFinished
  <2>1. phase = "propsPost" /\ phase' = "children" /\ pos' = 1 /\ pos \notin DOMAIN S.props
    BY <1>7 DEF PropsFinished, At, Enter
  <2>2. Stage(phase) = 3 /\ Stage(phase') = 4 BY <2>1 DEF Stage
  <2>3. \A l \in Listed(case) : StageOf(l.sec) = Stage(phase) => l.pos < pos
    BY <1>2, <1>3, <1>4, <2>1, <2>2
  <2>4. Gone' = Gone BY <1>1, <2>1, <2>2, <2>3, GoneMove
  <2> QED BY <1>1, <2>1, <2>4
<1>8. CASE ChildrenDone
  <2>1. phase = "children" /\ phase' = "childrenPost" /\ pos' = 1
        /\ pos \notin DOMAIN N.children
    BY <1>8 DEF ChildrenDone, At, Enter
  <2>2. Stage(phase) = 4 /\ Stage(phase') = 5 BY <2>1 DEF Stage
  <2>3. \A l \in Listed(case) : StageOf(l.sec) = Stage(phase) => l.pos < pos
    BY <1>2, <1>3, <1>4, <2>1, <2>2
  <2>4. Gone' = Gone BY <1>1, <2>1, <2>2, <2>3, GoneMove
  <2> QED BY <1>1, <2>1, <2>4
<1>9. CASE Finish
  <2>1. phase = "childrenPost" /\ phase' = "done" /\ pos \notin DOMAIN S.children
    BY <1>9 DEF Finish, At
  <2>2. Stage(phase) = 5 /\ Stage(phase') = 6 BY <2>1 DEF Stage
  <2>3. \A l \in Listed(case) : StageOf(l.sec) = Stage(phase) => l.pos < pos
    BY <1>2, <1>3, <1>4, <2>1, <2>2
  <2>4. Gone' = Gone BY <1>1, <2>1, <2>2, <2>3, GoneMove
  <2> QED BY <1>1, <2>1, <2>4
<1> QED BY <1>5, <1>6, <1>7, <1>8, <1>9 DEF Turn

LEMMA TurnsKeep ==
  ASSUME TypeOK, Blameless, Running, raised = <<>>, Turn
  PROVE  Kept
  BY TurnsPutNothingBehind, TurnKeeps

----------------------------------------------------------------------------
(***************************************************************************)
(* The invariant, and what follows from it.                                *)
(***************************************************************************)

\* A call has just begun, be it the one of Init or one that Parse starts.
Begun == /\ case \in Case /\ WellFormed(case)
         /\ phase = FirstPhase(case.entry) /\ pos = 1
         /\ vals = [s \in SlotsOf(S) |-> <<>>]
         /\ seen = {} /\ errs = <<>> /\ raised = <<>>

LEMMA InitBegins == ASSUME Init PROVE Begun
  BY InputsAssumption DEF Init, Begun

LEMMA BegunInv == ASSUME Begun PROVE CInv
<1>1. TypeOK
  <2>1. phase \in Phases BY DEF Begun, FirstPhase, Phases, Case, Entry
  <2>2. vals \in [SlotsOf(S) -> Seq(Item)] BY DEF Begun
  <2> QED BY <2>1, <2>2 DEF Begun, TypeOK
<1>2. errs = <<>> /\ raised = <<>> /\ seen = {} /\ pos = 1
      /\ \A s \in SlotsOf(S) : vals[s] = <<>>
  BY DEF Begun
<1>3. Blameless BY <1>2 DEF Blameless, Reported, Range
<1>4. /\ phase = FirstPhase(case.entry) /\ case.entry \in Entry
      /\ case.entry = "children" => /\ S.args = <<>> /\ S.props = <<>>
                                    /\ N.args = <<>> /\ N.props = <<>>
  <2>1. WellFormed(case) /\ case \in Case BY <1>1 DEF TypeOK
  <2> QED BY <2>1 DEF Begun, WellFormed, S, N, Case
<1>5. phase = "specials" => case.entry = "node"
  BY <1>4 DEF FirstPhase, Entry
<1>6. Gone = {}
  <2> SUFFICES ASSUME NEW l \in Listed(case), Behind(l) PROVE FALSE
    BY DEF Gone
  <2>1. /\ l = Loc(l.sec, l.pos) /\ l.sec \in Sections /\ l.pos \in Nat
        /\ (StageOf(l.sec) = 0 <=> l.pos = 0) /\ StageOf(l.sec) \in 0..5
    BY <1>1, ListedTypes DEF TypeOK, Place
  <2>2. CASE case.entry = "node"
    <3>1. phase = "specials" BY <1>4, <2>2 DEF FirstPhase
    <3> QED BY <3>1 DEF Behind
  <2>3. CASE case.entry \in {"variant", "unwrap"}
    <3>1. Stage(phase) = 1 BY <1>4, <2>3 DEF FirstPhase, Stage
    <3>2. StageOf(l.sec) # 0
      <4>1. l.sec \notin {"name", "type"} BY <2>1, <2>3 DEF Listed, Loc
      <4> QED BY <2>1, <4>1 DEF StageOf, Sections
    <3> QED BY <1>2, <2>1, <3>1, <3>2 DEF Behind
  <2>4. CASE case.entry = "children"
    <3>1. Stage(phase) = 4 BY <1>4, <2>4 DEF FirstPhase, Stage
    <3>2. DOMAIN S.args = {} /\ DOMAIN S.props = {} /\ DOMAIN N.args = {} /\ DOMAIN N.props = {}
      BY <1>4, <2>4
    <3>3. l.sec \in {"child", "noChild"} BY <2>1, <2>4, <3>2 DEF Listed, Loc, S, N
    <3>4. StageOf(l.sec) \in {4, 5} BY <3>3 DEF StageOf
    <3> QED BY <1>2, <2>1, <3>1, <3>4 DEF Behind
  <2> QED BY <1>4, <2>2, <2>3, <2>4 DEF Entry
<1>7. Thorough BY <1>6 DEF Thorough
<1>8. InPlace /\ Filled BY <1>2, <1>6 DEF InPlace, Filled
<1>9. SeenRight BY <1>2, <1>6 DEF SeenRight, Given
<1>10. Delivered BY <1>2, <1>6 DEF Delivered, Delivers, SoFar
<1> QED BY <1>1, <1>3, <1>5, <1>7, <1>8, <1>9, <1>10 DEF CInv, Running

LEMMA CInit == ASSUME Init PROVE CInv
  BY InitBegins, BegunInv

LEMMA CaseStays == ASSUME Next PROVE UNCHANGED case
  BY DEF Next, DecodeSpecials, DecodeArg, MissingArg, DecodeVarArg, ExtraArg, ArgsDone,
         NamedProp, FlattenProp, VarProp, UnexpectedProp, PropsDone, FinishProp, PropsFinished,
         NormalChild, MultiChild, FlagChild, FlattenChild, VarChild, UnexpectedChild,
         ChildrenDone, FinishChild, Finish

LEMMA NextNeedsNoErr == ASSUME TypeOK, Next PROVE raised = <<>> /\ phase # "done"
<1>1. PICK l \in Place, n \in Nat : Blames(l, n) BY StepBlames
<1>2. Current(l) BY <1>1 DEF Blames
<1>3. phase # "done" BY <1>2 DEF Current, Stage, StageOf, Place, Sections
<1> QED BY <1>3 DEF TypeOK

LEMMA StepKeeps == ASSUME CInv, Next PROVE Kept
<1>1. TypeOK BY DEF CInv
<1>2. raised = <<>> BY <1>1, NextNeedsNoErr
<1>3. Blameless /\ Running /\ (phase = "specials" => case.entry = "node")
  BY <1>2 DEF CInv
<1>4. CASE DecodeSpecials
  <2>1. phase = "specials" BY <1>4 DEF DecodeSpecials, At
  <2> QED BY <1>1, <1>2, <1>3, <1>4, <2>1, DecodeSpecialsKeeps
<1>5. CASE DecodeArg BY <1>1, <1>2, <1>3, <1>5, DecodeArgKeeps
<1>6. CASE MissingArg BY <1>1, <1>2, <1>3, <1>6, MissingArgKeeps
<1>7. CASE DecodeVarArg BY <1>1, <1>2, <1>3, <1>7, DecodeVarArgKeeps
<1>8. CASE ExtraArg BY <1>1, <1>2, <1>3, <1>8, ExtraArgKeeps
<1>9. CASE NamedProp BY <1>1, <1>2, <1>3, <1>9, NamedPropKeeps
<1>10. CASE FlattenProp BY <1>1, <1>2, <1>3, <1>10, FlattenPropKeeps
<1>11. CASE VarProp BY <1>1, <1>2, <1>3, <1>11, VarPropKeeps
<1>12. CASE UnexpectedProp BY <1>1, <1>2, <1>3, <1>12, UnexpectedPropKeeps
<1>13. CASE FinishProp BY <1>1, <1>2, <1>3, <1>13, FinishPropKeeps
<1>14. CASE NormalChild BY <1>1, <1>2, <1>3, <1>14, NormalChildKeeps
<1>15. CASE MultiChild BY <1>1, <1>2, <1>3, <1>15, MultiChildKeeps
<1>16. CASE FlagChild BY <1>1, <1>2, <1>3, <1>16, FlagChildKeeps
<1>17. CASE FlattenChild BY <1>1, <1>2, <1>3, <1>17, FlattenChildKeeps
<1>18. CASE VarChild BY <1>1, <1>2, <1>3, <1>18, VarChildKeeps
<1>19. CASE UnexpectedChild BY <1>1, <1>2, <1>3, <1>19, UnexpectedChildKeeps
<1>20. CASE FinishChild BY <1>1, <1>2, <1>3, <1>20, FinishChildKeeps
<1>21. CASE Turn BY <1>1, <1>2, <1>3, <1>21, TurnsKeep
<1> QED BY <1>4, <1>5, <1>6, <1>7, <1>8, <1>9, <1>10, <1>11, <1>12, <1>13,
           <1>14, <1>15, <1>16, <1>17, <1>18, <1>19, <1>20, <1>21 DEF Next, Turn

LEMMA CStep == ASSUME CInv, [Next]_vars PROVE CInv'
<1>1. TypeOK /\ TypeOK' BY TypeStep DEF CInv
<1>2. CASE Next
  <2>1. raised = <<>> BY <1>1, <1>2, NextNeedsNoErr
  <2>2. Blameless /\ Running /\ (phase = "specials" => case.entry = "node")
    BY <2>1 DEF CInv
  <2>3. Kept BY <1>2, StepKeeps
  <2>4. phase' # "specials"
    <3>1. PICK l \in Place, n \in Nat : Blames(l, n) BY <1>1, <1>2, StepBlames
    <3>2. phase \in Phases /\ phase' \in Phases BY <1>1 DEF TypeOK
    <3>3. Stage(phase) \in Nat /\ Stage("specials") = 0 BY <3>2, StageNumbers DEF Stage
    <3>4. CASE Raise(l) BY <3>4 DEF Raise
    <3>5. CASE Onward BY <3>2, <3>3, <3>5 DEF Onward, Advance
    <3> QED BY <3>1, <3>4, <3>5 DEF Blames
  <2> QED BY <1>1, <2>3, <2>4 DEF CInv, Kept
<1>3. CASE UNCHANGED vars
  <2>1. UNCHANGED <<case, phase, pos, vals, seen, errs, raised>> BY <1>3 DEF vars
  <2>2. S' = S /\ Gone' = Gone BY <2>1 DEF S, Gone, Behind
  <2>3. Blameless' BY <2>1 DEF CInv, Blameless, Reported
  <2>4. raised = <<>> => Running BY DEF CInv
  <2>5. Thorough => Thorough' BY <2>1, <2>2 DEF Thorough
  <2>6. InPlace => InPlace' BY <2>1, <2>2 DEF InPlace, Placed
  <2>7. Filled => Filled' BY <2>1, <2>2 DEF Filled, NeverNull
  <2>8. SeenRight => SeenRight' BY <2>1, <2>2 DEF SeenRight, Given
  <2>9. Delivered => Delivered' BY <2>1, <2>2 DEF Delivered, SoFar
  <2>10. raised' = <<>> => Running'
    BY <2>1, <2>4, <2>5, <2>6, <2>7, <2>8, <2>9 DEF Running
  <2> QED BY <1>1, <2>1, <2>3, <2>10 DEF CInv
<1> QED BY <1>2, <1>3

LEMMA CAlways == Spec => []CInv
<1>1. CInv /\ [Next]_vars => CInv' BY CStep
<1> QED BY <1>1, CInit, PTL DEF Spec

----------------------------------------------------------------------------

\* Whatever the schema and the node, what a field holds is never lost without
\* an error in the same step.
THEOREM NothingReplacedSilently == Spec => NothingSilentlyReplaced
<1>1. ASSUME CInv, Next
      PROVE  /\ IsPrefix(errs, errs')
             /\ \A slot \in SlotsOf(S) :
                  \/ IsPrefix(vals[slot], vals'[slot])
                  \/ slot.sec = "child" /\ slot.sub > 0 /\ errs' # errs
  <2>1. PICK l \in Place, n \in Nat : Blames(l, n) BY <1>1, StepBlames DEF CInv
  <2>2. errs \in Seq(Place) /\ Times(n, l) \in Seq(Place)
    BY <1>1, Repeated DEF CInv, TypeOK, Times
  <2>3. errs' = errs \o Times(n, l) BY <2>1 DEF Blames, Emit, Times
  <2>4. IsPrefix(errs, errs') BY <2>2, <2>3, PrefixFacts
  <2>5. Grown BY <1>1, StepKeeps DEF Kept
  <2> QED BY <2>4, <2>5 DEF Grown, Replaced
<1>2. CInv /\ [Next]_vars =>
        [ /\ IsPrefix(errs, errs')
          /\ \A slot \in SlotsOf(S) :
               \/ IsPrefix(vals[slot], vals'[slot])
               \/ slot.sec = "child" /\ slot.sub > 0 /\ errs' # errs ]_vars
  BY <1>1
<1> QED BY <1>2, CAlways, PTL DEF Spec, NothingSilentlyReplaced

\* The children behind are accounted for.
AccountedFor(k) == \/ Held(k)
                   \/ Loc("child", k) \in Reported
                   \/ \E m \in DOMAIN N.children :
                        /\ k < m /\ N.children[m].name = N.children[k].name
                        /\ Loc("child", m) \in Reported
Passed == \A k \in DOMAIN N.children : Loc("child", k) \in Gone => AccountedFor(k)
PInv == CInv /\ (raised = <<>> => Passed) /\ NoChildPassedOver

LEMMA PrefixKeeps ==
  ASSUME NEW q \in Seq(Item), NEW r \in Seq(Item), IsPrefix(q, r), NEW h \in DOMAIN q
  PROVE  h \in DOMAIN r /\ r[h] = q[h]
<1>1. /\ Len(q) \in Nat /\ Len(r) \in Nat /\ h \in 1..Len(q)
      /\ DOMAIN r = 1..Len(r)
  OBVIOUS
<1>2. Len(q) <= Len(r) /\ SubSeq(q, 1, Len(q)) = SubSeq(r, 1, Len(q)) BY DEF IsPrefix
<1>3. h \in DOMAIN r BY <1>1, <1>2
<1>4. SubSeq(q, 1, Len(q))[h] = q[h] BY <1>1
<1>5. SubSeq(r, 1, Len(q))[h] = r[h] BY <1>1, <1>2
<1> QED BY <1>2, <1>3, <1>4, <1>5

\* What has been reported stays so.
LEMMA ReportedGrows ==
  ASSUME CInv, Next
  PROVE  Reported \subseteq Reported' /\ Range(errs') \subseteq Reported'
<1>1. TypeOK /\ raised = <<>> BY NextNeedsNoErr DEF CInv
<1>2. PICK l \in Place, n \in Nat : Blames(l, n) BY <1>1, StepBlames
<1>3. Range(errs) \subseteq Range(errs') BY <1>1, <1>2, EmitAdds DEF Blames
<1>4. Range(raised) = {} BY <1>1 DEF Range
<1> QED BY <1>3, <1>4 DEF Reported

\* A child that is accounted for stays so.
LEMMA StillAccountedFor ==
  ASSUME CInv, Next, NEW k \in DOMAIN N.children, Loc("child", k) \in Gone, AccountedFor(k)
  PROVE  AccountedFor(k)'
<1>1. TypeOK /\ TypeOK' /\ UNCHANGED case /\ Running
  BY TypeStep, CaseStays, NextNeedsNoErr DEF CInv
<1>2. S' = S /\ N' = N BY <1>1 DEF S, N
<1>3. Reported \subseteq Reported' /\ Range(errs') \subseteq Reported' BY ReportedGrows
<1>4. CASE Loc("child", k) \in Reported BY <1>3, <1>4 DEF AccountedFor
<1>5. CASE \E m \in DOMAIN N.children : /\ k < m /\ N.children[m].name = N.children[k].name
                                        /\ Loc("child", m) \in Reported
  BY <1>2, <1>3, <1>5 DEF AccountedFor
<1>6. CASE Held(k)
  <2>0. PICK s \in SlotsOf(S) : s.sec = "child" /\ \E h \in DOMAIN vals[s] : vals[s][h].at = k
    BY <1>6 DEF Held
  <2>1. PICK h \in DOMAIN vals[s] : vals[s][h].at = k BY <2>0
  <2>2. vals[s] \in Seq(Item) /\ vals'[s] \in Seq(Item) BY <1>1, <1>2 DEF TypeOK
  <2>3. CASE IsPrefix(vals[s], vals'[s])
    <3>1. h \in DOMAIN vals'[s] /\ vals'[s][h].at = k BY <2>1, <2>2, <2>3, PrefixKeeps
    <3> QED BY <1>2, <2>0, <2>1, <3>1 DEF AccountedFor, Held
  <2>4. CASE Replaced(s)
    <3>1. /\ s.sub > 0 /\ phase = "children" /\ pos \in Own(case, s)
          /\ Loc("child", pos) \in Reported'
      BY <1>3, <2>4 DEF Replaced
    <3>2. k \in Own(case, s)
      <4>1. k # 0 BY <1>1, CaseParts
      <4> QED BY <1>1, <2>0, <2>1, <4>1 DEF Running, InPlace, Placed
    <3>3. k < pos
      <4>1. Behind(Loc("child", k)) BY DEF Gone
      <4> QED BY <3>1, <4>1 DEF Behind, Loc, StageOf, Stage
    <3>4. pos \in DOMAIN N.children /\ N.children[pos].name = N.children[k].name
      <4>1. s.fld # 0 /\ s.sub # 0
        <5>1. s.fld = 0 => s.sub = 0 BY <1>1, <2>0, CaseParts, SlotShapes
        <5> QED BY <3>1, <5>1
      <4>2. \A m \in Own(case, s) :
              m \in DOMAIN N.children
                /\ IsPartArm(S.children[s.fld].part, s.sub, N.children[m].name)
        BY <2>0, <4>1 DEF Own, S, N
      <4> QED BY <3>1, <3>2, <4>2 DEF IsPartArm
    <3> QED BY <1>2, <3>1, <3>3, <3>4 DEF AccountedFor
  <2> QED BY <2>3, <2>4, StepKeeps DEF Kept, Grown
<1> QED BY <1>4, <1>5, <1>6 DEF AccountedFor

\* A step puts nothing behind but what it has come to.
LEMMA GoneNext ==
  ASSUME TypeOK, Next, raised' = <<>>
  PROVE  Gone' = Gone \/ Gone' = Gone \cup New
<1>1. UNCHANGED case BY CaseStays
<1>2. \A l : ~Raise(l)
  <2> SUFFICES ASSUME NEW l, Raise(l) PROVE FALSE
    OBVIOUS
  <2>1. raised' = <<l>> BY DEF Raise
  <2> QED BY <2>1
<1>3. CASE Turn BY <1>3, TurnsPutNothingBehind
<1>4. CASE DecodeSpecials
  <2>1. phase = "specials" /\ Enter("args") BY <1>2, <1>4 DEF DecodeSpecials, At
  <2> QED BY <1>1, <2>1, GoneSpecials
<1>5. CASE Advance /\ phase # "specials" BY <1>1, <1>5, GoneAdvance
<1>6. CASE DecodeArg \/ MissingArg \/ DecodeVarArg \/ ExtraArg
  BY <1>2, <1>5, <1>6 DEF DecodeArg, MissingArg, DecodeVarArg, ExtraArg, Settle, FillIn, At
<1>7. CASE NamedProp \/ FlattenProp \/ VarProp \/ UnexpectedProp \/ FinishProp
  BY <1>2, <1>5, <1>7
  DEF NamedProp, FlattenProp, VarProp, UnexpectedProp, FinishProp, Settle, FillIn, HereProp, At
<1>8. CASE NormalChild \/ MultiChild \/ FlagChild \/ FlattenChild
  BY <1>2, <1>5, <1>8
  DEF NormalChild, MultiChild, FlagChild, FlattenChild, Settle, SetFlag, HereArm, HereChild, At
<1>9. CASE VarChild \/ UnexpectedChild \/ FinishChild
  BY <1>2, <1>5, <1>9 DEF VarChild, UnexpectedChild, FinishChild, Settle, FillIn, HereChild, At
<1> QED BY <1>3, <1>4, <1>6, <1>7, <1>8, <1>9 DEF Next, Turn

LEMMA PStep == ASSUME PInv, [Next]_vars PROVE PInv'
<1>1. CInv /\ CInv' /\ TypeOK BY CStep DEF PInv, CInv
<1>2. CASE Next
  <2>1. /\ raised = <<>> /\ phase # "done" /\ UNCHANGED case
        /\ Passed /\ S' = S /\ N' = N
    BY <1>1, <1>2, NextNeedsNoErr, CaseStays DEF PInv, S, N
  <2>2. ASSUME NEW k \in DOMAIN N.children, Loc("child", k) \in Gone PROVE AccountedFor(k)'
    BY <1>1, <1>2, <2>1, <2>2, StillAccountedFor DEF Passed
  <2>3. \A k : Loc("child", k).sec = "child" /\ Loc("child", k).pos = k BY DEF Loc
  <2>4. CASE raised' = <<>>
    <3>1. ASSUME NEW k \in DOMAIN N.children, Loc("child", k) \in Gone' PROVE AccountedFor(k)'
      <4>1. CASE Loc("child", k) \in Gone BY <2>2, <4>1
      <4>2. CASE Loc("child", k) \in New
        <5>1. Current(Loc("child", k)) BY <4>2 DEF New
        <5>2. phase = "children" /\ k = pos
          BY <1>1, <2>3, <5>1 DEF Current, StageOf, Stage, TypeOK, Phases
        <5>3. \/ Loc("child", pos) \in Range(errs')
              \/ \E s \in SlotsOf(S) : s.sec = "child"
                   /\ \E h \in DOMAIN vals'[s] : vals'[s][h].at = pos
          BY <1>1, <1>2, <2>4, <5>2, StepKeeps DEF Kept, Accounted
        <5>4. Range(errs') \subseteq Reported' BY DEF Reported
        <5> QED BY <2>1, <5>2, <5>3, <5>4 DEF AccountedFor, Held
      <4> QED BY <1>1, <1>2, <2>4, <3>1, <4>1, <4>2, GoneNext
    <3>2. Passed' BY <2>1, <3>1 DEF Passed
    <3>3. ASSUME NEW k \in DOMAIN N.children, Past(k)' PROVE AccountedFor(k)'
      <4>1. phase' = "childrenPost" \/ (phase' = "children" /\ k < pos')
        BY <2>4, <3>3 DEF Past
      <4>2. Behind(Loc("child", k))' BY <2>3, <4>1 DEF Behind, StageOf, Stage
      <4>3. Loc("child", k) \in Gone' BY <2>1, <4>2, ListedAre DEF Gone, N
      <4> QED BY <3>1, <4>3
    <3>4. NoChildPassedOver' BY <2>1, <3>3 DEF NoChildPassedOver, AccountedFor
    <3> QED BY <1>1, <3>2, <3>4 DEF PInv
  <2>5. CASE raised' # <<>>
    <3>1. PICK l \in Place, n \in Nat : Blames(l, n) BY <1>1, <1>2, StepBlames
    <3>2. raised' = <<l>> /\ phase' = "done" BY <2>1, <2>5, <3>1 DEF Blames, Raise
    <3>3. ASSUME NEW k \in DOMAIN N.children, Past(k)' PROVE AccountedFor(k)'
      <4>1. l.sec = "child" /\ k < l.pos BY <3>2, <3>3 DEF Past
      <4>2. phase = "children" /\ l.pos = pos
        BY <1>1, <3>1, <4>1 DEF Blames, Current, StageOf, Stage, TypeOK, Phases
      <4>3. Behind(Loc("child", k)) BY <2>3, <4>1, <4>2 DEF Behind, StageOf, Stage
      <4>4. Loc("child", k) \in Gone BY <4>3, ListedAre DEF Gone, N
      <4> QED BY <2>2, <4>4
    <3>4. NoChildPassedOver' BY <2>1, <3>3 DEF NoChildPassedOver, AccountedFor
    <3> QED BY <1>1, <2>5, <3>4 DEF PInv
  <2> QED BY <2>4, <2>5
<1>3. CASE UNCHANGED vars
  <2>1. UNCHANGED <<case, phase, pos, vals, seen, errs, raised>> BY <1>3 DEF vars
  <2>2. S' = S /\ N' = N /\ Gone' = Gone /\ Reported' = Reported
    BY <2>1 DEF S, N, Gone, Behind, Reported
  <2>3. \A k : Held(k)' <=> Held(k) BY <2>1, <2>2 DEF Held
  <2>4. Passed => Passed' BY <2>2, <2>3 DEF Passed, AccountedFor
  <2>5. \A k : Past(k)' <=> Past(k) BY <2>1 DEF Past
  <2>6. NoChildPassedOver' BY <2>2, <2>3, <2>5 DEF PInv, NoChildPassedOver
  <2> QED BY <1>1, <2>1, <2>4, <2>6 DEF PInv
<1> QED BY <1>2, <1>3

\* Whatever the schema and the node, no child is dropped without a word, even
\* by a call that ends with Err.
THEOREM ChildrenAccountedFor == Spec => []NoChildPassedOver
<1>1. Init => PInv
  <2> SUFFICES ASSUME Init PROVE PInv
    OBVIOUS
  <2>1. CInv /\ raised = <<>> BY CInit DEF Init
  <2>2. \A k \in DOMAIN N.children : ~Behind(Loc("child", k)) /\ ~Past(k)
    <3> SUFFICES ASSUME NEW k \in DOMAIN N.children
                 PROVE  ~Behind(Loc("child", k)) /\ ~Past(k)
      OBVIOUS
    <3>1. k \in Nat \ {0} BY <2>1, CaseParts DEF CInv
    <3>2. pos = 1 /\ phase \in {"specials", "args", "children"}
      <4>1. case.entry \in Entry BY <2>1 DEF CInv, TypeOK, Case
      <4> QED BY <4>1 DEF Init, FirstPhase, Entry
    <3> QED BY <2>1, <3>1, <3>2 DEF Behind, Past, Loc, StageOf, Stage
  <2> QED BY <2>1, <2>2 DEF PInv, Passed, NoChildPassedOver, Gone
<1>2. PInv /\ [Next]_vars => PInv' BY PStep
<1>3. PInv => NoChildPassedOver BY DEF PInv
<1> QED BY <1>1, <1>2, <1>3, PTL DEF Spec

-----------------------------------------------------------------------------
(***************************************************************************)
(* The contract.                                                           *)
(***************************************************************************)

LEMMA SameCase == Contract!Case = Case
  BY DEF Contract!Case, Case, Contract!Entry, Entry, Contract!Schema, Schema, Contract!Node, Node,
         Contract!Arg, Arg, Contract!Prop, Prop, Contract!PartProp, PartProp, Contract!Child, Child,
         Contract!ChildMode, ChildMode, Contract!PartChild, PartChild, Contract!NodeProp, NodeProp,
         Contract!NodeChild, NodeChild, Contract!Field, Field, Contract!Value, Value,
         Contract!Plain, Plain, Contract!Numeric, Numeric, Contract!IntTypes, IntTypes,
         Contract!FloatTypes, FloatTypes, Contract!Annotation, Annotation,
         Contract!BuiltinType, BuiltinType, Contract!Kind, Kind, Contract!TextFault, TextFault

LEMMA SameWellFormed == ASSUME NEW c PROVE Contract!WellFormed(c) <=> WellFormed(c)
  BY DEF Contract!WellFormed, WellFormed

LEMMA SameArms ==
  /\ \A fields, i, name : Contract!IsArm(fields, i, name) <=> IsArm(fields, i, name)
  /\ \A fields, name : Contract!NoArm(fields, name) <=> NoArm(fields, name)
  /\ \A part, j, name : Contract!IsPartArm(part, j, name) <=> IsPartArm(part, j, name)
  BY DEF Contract!IsArm, IsArm, Contract!NoArm, NoArm, Contract!IsPartArm, IsPartArm,
         Contract!Takes, Takes, Contract!HasName, HasName

LEMMA SameAdmits == \A f, v : Contract!Admits(f, v) <=> Admits(f, v)
  BY DEF Contract!Admits, Admits, Contract!NullAdmitted, NullAdmitted,
         Contract!TypeAdmitted, TypeAdmitted, Contract!LiteralAdmitted, LiteralAdmitted,
         Contract!KindOf, KindOf, Contract!Numeric, Numeric, Contract!IntTypes, IntTypes,
         Contract!FloatTypes, FloatTypes, Contract!FromStr, FromStr,
         Contract!BuiltinType, BuiltinType

LEMMA SameFaults == ASSUME NEW c PROVE Contract!Faults(c) = Faults(c)
<1>1. \A SS, NN, k : Contract!ArgAdmitted(SS, NN, k) <=> ArgAdmitted(SS, NN, k)
  BY SameAdmits DEF Contract!ArgAdmitted, ArgAdmitted
<1>2. \A SS, NN, i : Contract!ArgMissing(SS, NN, i) <=> ArgMissing(SS, NN, i)
  BY DEF Contract!ArgMissing, ArgMissing
<1>3. \A SS, NN, k : Contract!PropAdmitted(SS, NN, k) <=> PropAdmitted(SS, NN, k)
  BY SameAdmits, SameArms DEF Contract!PropAdmitted, PropAdmitted
<1>4. \A SS, NN, i : Contract!PropMissing(SS, NN, i) <=> PropMissing(SS, NN, i)
  BY SameArms DEF Contract!PropMissing, PropMissing
<1>5. \A SS, NN, k : Contract!ChildAdmitted(SS, NN, k) <=> ChildAdmitted(SS, NN, k)
  BY SameArms DEF Contract!ChildAdmitted, ChildAdmitted, Contract!Fits, Fits,
                  Contract!FirstOf, FirstOf, Contract!FirstOfPart, FirstOfPart
<1>6. \A SS, NN, i : Contract!ChildMissing(SS, NN, i) <=> ChildMissing(SS, NN, i)
  BY SameArms DEF Contract!ChildMissing, ChildMissing
<1>7. \A SS, NN : Contract!SpecialFaults(SS, NN) = SpecialFaults(SS, NN)
  BY DEF Contract!SpecialFaults, SpecialFaults, Contract!Loc, Loc
<1> QED BY <1>1, <1>2, <1>3, <1>4, <1>5, <1>6, <1>7 DEF Contract!Faults, Faults, Contract!Loc, Loc

LEMMA SameExpected == ASSUME NEW c, NEW values PROVE Contract!AsExpected(c, values) <=> AsExpected(c, values)
<1>1. Contract!SlotsOf(c.schema) = SlotsOf(c.schema)
  BY DEF Contract!SlotsOf, SlotsOf, Contract!Slot, Slot, Contract!PartSlots, PartSlots
<1>2. \A SS, NN, i : Contract!ArgItems(SS, NN, i) = ArgItems(SS, NN, i)
  BY DEF Contract!ArgItems, ArgItems, Contract!IsNull, IsNull, Contract!OrDefault, OrDefault
<1>3. \A SS, NN, i, j : Contract!PropItems(SS, NN, i, j) = PropItems(SS, NN, i, j)
  BY DEF Contract!PropItems, PropItems, Contract!IsNull, IsNull, Contract!OrDefault, OrDefault,
         Contract!IsArm, IsArm, Contract!NoArm, NoArm,
         Contract!IsPartArm, IsPartArm, Contract!Takes, Takes, Contract!HasName, HasName
<1>4. \A SS, NN, i, j : Contract!ChildItems(SS, NN, i, j) = ChildItems(SS, NN, i, j)
  BY DEF Contract!ChildItems, ChildItems, Contract!OrDefault, OrDefault,
         Contract!IsArm, IsArm, Contract!NoArm, NoArm,
         Contract!IsPartArm, IsPartArm, Contract!Takes, Takes, Contract!HasName, HasName
<1>5. \A s : Contract!Items(c, s) = Items(c, s)
  BY <1>2, <1>3, <1>4 DEF Contract!Items, Items
<1>6. \A h, p : Contract!Delivers(h, p) <=> Delivers(h, p)
  BY DEF Contract!Delivers, Delivers
<1> QED BY <1>1, <1>5, <1>6 DEF Contract!AsExpected, AsExpected

----------------------------------------------------------------------------

LEMMA DueIsListed ==
  ASSUME NEW c \in Case, WellFormed(c), NEW s \in SlotsOf(c.schema), NEW k \in Items(c, s)
  PROVE  Source(s, k) \in Listed(c)
<1>1. c.schema \in Schema /\ c.node \in Node BY DEF Case
<1>2. s.sec \in {"arg", "prop", "child"} BY <1>1, SlotShapes
<1>3. CASE k \in Own(c, s)
  <2>1. Source(s, k) = Loc(s.sec, k) BY <1>3, OwnBounds DEF Source
  <2> QED BY <1>2, <1>3, <2>1, OwnBounds, ListedAre
<1>4. CASE Defaults(c, s) /\ k = 0
  <2>1. Source(s, k) = Loc(NoSec(s.sec), s.fld) BY <1>4 DEF Source
  <2>2. /\ s.sec = "arg" => s.fld \in DOMAIN c.schema.args
        /\ s.sec = "prop" => s.fld \in DOMAIN c.schema.props
        /\ s.sec = "child" => s.fld \in DOMAIN c.schema.children
    BY <1>1, <1>4, SlotShapes DEF Defaults
  <2> QED BY <1>2, <2>1, <2>2, ListedAre DEF NoSec
<1> QED BY <1>3, <1>4, ItemsAreOwn

\* A call that ends without Err has everything behind.
LEMMA EndIsComplete ==
  /\ CInv /\ phase = "done" /\ raised = <<>>
    => /\ Range(errs) = Faults(case)
       /\ errs = <<>> => AsExpected(case, vals)
<1> SUFFICES ASSUME CInv, phase = "done", raised = <<>>
             PROVE  /\ Range(errs) = Faults(case)
                    /\ errs = <<>> => AsExpected(case, vals)
  OBVIOUS
<1>1. Running /\ Blameless /\ case \in Case /\ WellFormed(case) BY DEF CInv, TypeOK
<1>2. Gone = Listed(case)
  <2>1. ASSUME NEW l \in Listed(case) PROVE Behind(l)
    <3>1. StageOf(l.sec) \in 0..5 BY <1>1, ListedTypes
    <3> QED BY <3>1 DEF Behind, Stage
  <2> QED BY <2>1 DEF Gone
<1>3. Faults(case) \subseteq Range(errs)
  <2>1. Faults(case) \cap Gone \subseteq Range(errs) BY <1>1 DEF Running, Thorough
  <2> QED BY <1>2, <2>1, FaultsAreListed
<1>4. Range(errs) \subseteq Faults(case)
  BY <1>1 DEF Blameless, Reported
<1>5. ASSUME errs = <<>>, NEW s \in SlotsOf(case.schema)
      PROVE  Delivers(vals[s], Items(case, s))
  <2>1. s \in SlotsOf(S) BY DEF S
  <2>2. Delivers(vals[s], SoFar(s)) BY <1>1, <1>5, <2>1 DEF Running, Delivered
  <2>3. SoFar(s) = Items(case, s) BY <1>1, <1>2, DueIsListed DEF SoFar
  <2> QED BY <2>2, <2>3
<1> QED BY <1>3, <1>4, <1>5 DEF AsExpected

\* What a step reports besides what was reported: one fault, or none.
LEMMA ReportsOne ==
  ASSUME CInv, Next, CInv', NEW l \in Place, NEW n \in Nat, Blames(l, n)
  PROVE  /\ Raise(l) \/ n > 0 => l \in Faults(case)
         /\ Reported' = IF Raise(l) \/ n > 0 THEN Reported \cup {l} ELSE Reported
<1>1. /\ raised = <<>> /\ UNCHANGED case /\ TypeOK
  BY NextNeedsNoErr, CaseStays DEF CInv
<1>2. errs \in Seq(Place) BY <1>1 DEF TypeOK
<1>3. /\ Times(n, l) \in Seq(Place) /\ Len(Times(n, l)) = n
      /\ \A k \in 1..n : Times(n, l)[k] = l
  BY Repeated DEF Times
<1>4. errs' = errs \o Times(n, l) BY DEF Blames, Emit, Times
<1>5. Range(errs') = IF n > 0 THEN Range(errs) \cup {l} ELSE Range(errs)
  <2>1. /\ \A k \in DOMAIN errs' : \/ k \in DOMAIN errs /\ errs'[k] = errs[k]
                                   \/ n > 0 /\ errs'[k] = l
        /\ \A k \in DOMAIN errs : k \in DOMAIN errs' /\ errs'[k] = errs[k]
        /\ n > 0 => Len(errs) + 1 \in DOMAIN errs' /\ errs'[Len(errs) + 1] = l
    BY <1>2, <1>3, <1>4
  <2> QED BY <2>1 DEF Range
<1>6. Range(raised) = {} BY <1>1 DEF Range
<1>7. CASE Raise(l)
  <2>1. raised' = <<l>> BY <1>7 DEF Raise
  <2>2. Range(raised') = {l} BY <2>1 DEF Range
  <2>3. Reported' = Reported \cup {l} BY <1>5, <1>6, <2>2 DEF Reported
  <2>4. l \in Faults(case) BY <1>1, <2>3 DEF CInv, Blameless
  <2> QED BY <1>7, <2>3, <2>4
<1>8. CASE ~Raise(l)
  <2>1. raised' = raised BY <1>8 DEF Blames
  <2>2. Reported' = IF n > 0 THEN Reported \cup {l} ELSE Reported
    BY <1>5, <1>6, <2>1 DEF Reported
  <2>3. n > 0 => l \in Faults(case) BY <1>1, <2>2 DEF CInv, Blameless
  <2> QED BY <1>8, <2>2, <2>3
<1> QED BY <1>7, <1>8

\* Without Err, only Finish ends a call.
LEMMA OnlyFinishEnds ==
  ASSUME TypeOK, Next, phase' = "done", raised' = <<>>
  PROVE  Finish
<1>1. phase # "done" BY NextNeedsNoErr
<1>2. \A l : ~Raise(l)
  <2> SUFFICES ASSUME NEW l, Raise(l) PROVE FALSE
    OBVIOUS
  <2>1. raised' = <<l>> BY DEF Raise
  <2> QED BY <2>1
<1>3. ~Advance /\ \A p \in Phases \ {"done"} : ~Enter(p)
  BY <1>1 DEF Advance, Enter
<1>4. \A slot, loc, d, grow : ~Settle(slot, loc, d, grow) BY <1>2, <1>3 DEF Settle
<1>5. \A slot, loc, dflt, required : ~FillIn(slot, loc, dflt, required)
  BY <1>2, <1>3 DEF FillIn
<1>6. \A slot : ~SetFlag(slot) BY <1>3 DEF SetFlag
<1>7. ~DecodeSpecials /\ ~ArgsDone /\ ~PropsDone /\ ~PropsFinished /\ ~ChildrenDone
  BY <1>2, <1>3 DEF DecodeSpecials, ArgsDone, PropsDone, PropsFinished, ChildrenDone, Phases
<1>8. ~DecodeArg /\ ~MissingArg /\ ~DecodeVarArg /\ ~ExtraArg
  BY <1>2, <1>4, <1>5 DEF DecodeArg, MissingArg, DecodeVarArg, ExtraArg
<1>9. ~NamedProp /\ ~FlattenProp /\ ~VarProp /\ ~UnexpectedProp /\ ~FinishProp
  BY <1>2, <1>4, <1>5 DEF NamedProp, FlattenProp, VarProp, UnexpectedProp, FinishProp
<1>10. ~NormalChild /\ ~MultiChild /\ ~FlagChild /\ ~FlattenChild /\ ~VarChild
  BY <1>2, <1>4, <1>6 DEF NormalChild, MultiChild, FlagChild, FlattenChild, VarChild
<1>11. ~UnexpectedChild /\ ~FinishChild BY <1>3, <1>5 DEF UnexpectedChild, FinishChild
<1> QED BY <1>7, <1>8, <1>9, <1>10, <1>11 DEF Next

LEMMA ContractInit == ASSUME Init PROVE Contract!Init
<1>1. TypeOK BY TypeInit
<1>2. phase # "done"
  <2>1. case.entry \in Entry BY <1>1 DEF TypeOK, Case
  <2> QED BY <2>1 DEF Init, FirstPhase, Entry
<1>3. Verdict = "pending" /\ ~Clear BY <1>2 DEF Verdict, Ended, Clear
<1>4. Reported = {} BY DEF Init, Reported, Range
<1> QED BY <1>1, <1>3, <1>4, SameCase, SameWellFormed DEF Contract!Init, TypeOK

LEMMA ContractStep ==
  ASSUME CInv, [Next]_vars, CInv'
  PROVE  [Contract!Next]_(Contract!vars)
<1> DEFINE result == IF Clear THEN vals ELSE <<>>
<1>1. CASE UNCHANGED vars
  <2>1. UNCHANGED <<case, phase, pos, vals, seen, errs, raised>> BY <1>1 DEF vars
  <2>2. UNCHANGED <<case, Verdict, Reported, result>>
    BY <2>1 DEF Verdict, Reported, Clear, Ended
  <2> QED BY <2>2 DEF Contract!vars
<1>2. CASE Next
  <2>1. PICK l \in Place, n \in Nat : Blames(l, n) BY <1>2, StepBlames DEF CInv
  <2>2. raised = <<>> /\ phase # "done" /\ UNCHANGED case
    BY <1>2, NextNeedsNoErr, CaseStays DEF CInv
  <2>3. Verdict = "pending" /\ result = <<>> BY <2>2 DEF Verdict, Ended, Clear
  <2>4. /\ Raise(l) \/ n > 0 => l \in Faults(case)
        /\ Reported' = IF Raise(l) \/ n > 0 THEN Reported \cup {l} ELSE Reported
    BY <1>2, <2>1, ReportsOne
  <2>5. Contract!Faults(case) = Faults(case) BY SameFaults
  <2>6. CASE Raise(l)
    <3>1. raised' = <<l>> /\ phase' = "done" BY <2>6 DEF Raise
    <3>2. raised' # <<>> BY <3>1
    <3>3. Verdict' = "hard" /\ result' = <<>>
      BY <3>1, <3>2 DEF Verdict, Ended, Clear
    <3>4. Contract!Refuse
      BY <2>2, <2>3, <2>4, <2>5, <2>6, <3>3 DEF Contract!Refuse, Contract!Pending
    <3> QED BY <3>4 DEF Contract!Next
  <2>7. CASE ~Raise(l) /\ phase' # "done"
    <3>1. Verdict' = "pending" /\ result' = <<>> BY <2>7 DEF Verdict, Ended, Clear
    <3>2. CASE n > 0
      <4>1. Contract!Report
        BY <2>2, <2>3, <2>4, <2>5, <3>1, <3>2 DEF Contract!Report, Contract!Pending
      <4> QED BY <4>1 DEF Contract!Next
    <3>3. CASE ~(n > 0)
      BY <2>2, <2>3, <2>4, <2>7, <3>1, <3>3 DEF Contract!vars
    <3> QED BY <3>2, <3>3
  <2>8. CASE ~Raise(l) /\ phase' = "done"
    <3>1. raised' = <<>> BY <2>1, <2>2, <2>8 DEF Blames
    <3>2. Finish BY <1>2, <2>8, <3>1, OnlyFinishEnds DEF CInv
    <3>3. UNCHANGED <<case, vals, errs, raised>> BY <3>2 DEF Finish
    <3>4. Reported' = Reported /\ Reported = Range(errs)
      BY <2>2, <3>3 DEF Reported, Range
    <3>5. Range(errs) = Faults(case) /\ (errs = <<>> => AsExpected(case, vals))
      <4>1. (/\ CInv /\ phase = "done" /\ raised = <<>>
              => /\ Range(errs) = Faults(case)
                 /\ errs = <<>> => AsExpected(case, vals))'
        BY EndIsComplete, PTL
      <4> QED BY <2>8, <3>1, <3>3, <4>1
    <3>6. CASE errs = <<>>
      <4>1. Verdict' = "good" /\ result' = vals
        BY <2>8, <3>1, <3>3, <3>6 DEF Verdict, Ended, Clear
      <4>2. Faults(case) = {} BY <3>5, <3>6 DEF Range
      <4>3. Contract!Conforms(case) BY <2>5, <4>2 DEF Contract!Conforms
      <4>4. Contract!AsExpected(case, result') BY <3>5, <3>6, <4>1, SameExpected
      <4>5. Contract!Accept
        BY <2>3, <3>3, <3>4, <4>1, <4>3, <4>4 DEF Contract!Accept, Contract!Pending
      <4> QED BY <4>5 DEF Contract!Next
    <3>7. CASE errs # <<>>
      <4>1. Verdict' = "soft" /\ result' = <<>>
        BY <2>8, <3>1, <3>3, <3>7 DEF Verdict, Ended, Clear
      <4>2. Reported # {}
        <5>1. errs \in Seq(Place) BY DEF CInv, TypeOK
        <5>2. 1 \in DOMAIN errs BY <3>7, <5>1
        <5> QED BY <3>4, <5>2 DEF Range
      <4>3. Contract!Tolerate
        BY <2>3, <2>5, <3>3, <3>4, <3>5, <4>1, <4>2 DEF Contract!Tolerate, Contract!Pending
      <4> QED BY <4>3 DEF Contract!Next
    <3> QED BY <3>6, <3>7
  <2> QED BY <2>6, <2>7, <2>8
<1> QED BY <1>1, <1>2

\* Whatever the schema and the node, the generated decoder keeps the contract
\* of a decoder: it accepts the conforming nodes and no others, delivers every
\* item to its field, and reports the faults of the node and nothing else.
THEOREM ContractKept == Spec => KeepsContract
<1>1. CInv /\ [Next]_vars => [Contract!Next]_(Contract!vars)
  <2>1. CInv /\ [Next]_vars => CInv' BY CStep
  <2> QED BY <2>1, ContractStep
<1> QED BY <1>1, CAlways, ContractInit, PTL DEF Spec, KeepsContract, Contract!Spec
=============================================================================
