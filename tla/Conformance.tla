---------------------------- MODULE Conformance ----------------------------
(***************************************************************************)
(* What a node has to be to conform to a schema, and which values each     *)
(* field then has, said without reference to any order of decoding.        *)
(*                                                                         *)
(* Faults(c) is the set of places of case c that do not conform: items of  *)
(* the node no field takes or whose field does not admit them, and fields  *)
(* for which the node has nothing.  Items(c, slot) is the set of positions *)
(* whose values belong in a slot of a conforming case.                     *)
(***************************************************************************)
EXTENDS Schemas

\* Only decode_node of a struct looks at the node's name and type name.
SpecialFaults(S, N) ==
  {l \in {Loc("name", 0), Loc("type", 0)} :
     \/ l.sec = "name" /\ S.nodeName /\ ~N.nameOk
     \/ l.sec = "type" /\ \/ S.typeName = "absent" /\ N.ty # "none"
                          \/ S.typeName = "option" /\ N.ty = "bad"
                          \/ S.typeName = "required" /\ N.ty # "ok"}

\* Argument k belongs to the k-th field, or to the catch-all field.
ArgAdmitted(S, N, k) ==
  IF k \in DOMAIN S.args THEN Admits(S.args[k].val, N.args[k])
                         ELSE S.varArgs /\ Admits(S.argVal, N.args[k])

ArgMissing(S, N, i) ==
  i \notin DOMAIN N.args /\ ~S.args[i].dflt /\ ~S.args[i].val.opt

\* A property belongs to the first field that takes its name.
PropAdmitted(S, N, k) ==
  LET p == N.props[k]
  IN /\ \A i \in DOMAIN S.props : IsArm(S.props, i, p.name) =>
          \/ S.props[i].mode = "Named" /\ Admits(S.props[i].val, p.val)
          \/ /\ S.props[i].mode = "Flatten"
             /\ \A j \in DOMAIN S.props[i].part :
                  IsPartArm(S.props[i].part, j, p.name) =>
                    Admits(S.props[i].part[j].val, p.val)
     /\ NoArm(S.props, p.name) => S.varProps /\ p.keyOk /\ Admits(S.propVal, p.val)

PropMissing(S, N, i) ==
  /\ S.props[i].mode = "Named" /\ ~S.props[i].dflt /\ ~S.props[i].val.opt
  /\ \A k \in DOMAIN N.props : ~IsArm(S.props, i, N.props[k].name)

\* A child belongs to the first field that takes its name.  Only a Multi or
\* catch-all field takes more than one, and a flag takes an empty node.
Fits(mode, child) == IF mode = "Bool" THEN child.extras = 0
                                      ELSE child.own = "good"

FirstOf(N, k, i, S) ==
  \A h \in 1..(k - 1) : ~IsArm(S.children, i, N.children[h].name)

FirstOfPart(N, k, i, j, S) ==
  \A h \in 1..(k - 1) : ~(/\ IsArm(S.children, i, N.children[h].name)
                          /\ IsPartArm(S.children[i].part, j, N.children[h].name))

ChildAdmitted(S, N, k) ==
  LET c == N.children[k]
  IN /\ \A i \in DOMAIN S.children : IsArm(S.children, i, c.name) =>
          \/ S.children[i].mode = "Multi" /\ Fits("Multi", c)
          \/ /\ S.children[i].mode \in {"Normal", "Bool"}
             /\ Fits(S.children[i].mode, c) /\ FirstOf(N, k, i, S)
          \/ /\ S.children[i].mode = "Flatten"
             /\ \A j \in DOMAIN S.children[i].part :
                  IsPartArm(S.children[i].part, j, c.name) =>
                    /\ Fits(S.children[i].part[j].mode, c)
                    /\ FirstOfPart(N, k, i, j, S)
     /\ NoArm(S.children, c.name) => S.varChildren /\ c.own = "good"

ChildMissing(S, N, i) ==
  /\ S.children[i].mode = "Normal" /\ ~S.children[i].dflt /\ ~S.children[i].opt
  /\ \A k \in DOMAIN N.children : ~IsArm(S.children, i, N.children[k].name)

Faults(c) ==
  LET S == c.schema
      N == c.node
  IN (IF c.entry = "node" THEN SpecialFaults(S, N) ELSE {})
       \cup {Loc("arg", k) : k \in {k \in DOMAIN N.args : ~ArgAdmitted(S, N, k)}}
       \cup {Loc("noArg", i) : i \in {i \in DOMAIN S.args : ArgMissing(S, N, i)}}
       \cup {Loc("prop", k) : k \in {k \in DOMAIN N.props : ~PropAdmitted(S, N, k)}}
       \cup {Loc("noProp", i) : i \in {i \in DOMAIN S.props : PropMissing(S, N, i)}}
       \cup {Loc("child", k) :
               k \in {k \in DOMAIN N.children : ~ChildAdmitted(S, N, k)}}
       \cup {Loc("noChild", i) : i \in {i \in DOMAIN S.children : ChildMissing(S, N, i)}}

Conforms(c) == Faults(c) = {}

----------------------------------------------------------------------------

IsNull(f, v) == f.opt /\ v.kind = "Null"

\* What a field gets: its own items, its default if it has one and the node
\* has nothing for it.
OrDefault(own, dflt) == IF own = {} /\ dflt THEN {0} ELSE own

ArgItems(S, N, i) ==
  IF i = 0 THEN DOMAIN N.args \ DOMAIN S.args
  ELSE IF i \in DOMAIN N.args
       THEN {k \in {i} : ~IsNull(S.args[i].val, N.args[i])}
       ELSE OrDefault({}, S.args[i].dflt)

PropItems(S, N, i, j) ==
  LET own == {k \in DOMAIN N.props :
                IF i = 0 THEN NoArm(S.props, N.props[k].name)
                ELSE /\ IsArm(S.props, i, N.props[k].name)
                     /\ IF j = 0 THEN S.props[i].mode = "Named"
                        ELSE IsPartArm(S.props[i].part, j, N.props[k].name)}
      f   == IF i = 0 THEN S.propVal
             ELSE IF j = 0 THEN S.props[i].val ELSE S.props[i].part[j].val
      set == {k \in own : ~IsNull(f, N.props[k].val)}
  IN IF own = {} /\ i > 0 /\ j = 0 /\ S.props[i].mode = "Named"
     THEN OrDefault({}, S.props[i].dflt) ELSE set

ChildItems(S, N, i, j) ==
  LET own == {k \in DOMAIN N.children :
                IF i = 0 THEN NoArm(S.children, N.children[k].name)
                ELSE /\ IsArm(S.children, i, N.children[k].name)
                     /\ IF j = 0 THEN S.children[i].mode # "Flatten"
                        ELSE IsPartArm(S.children[i].part, j, N.children[k].name)}
  IN IF i > 0 /\ j = 0 /\ S.children[i].mode \in {"Normal", "Multi"}
     THEN OrDefault(own, S.children[i].dflt) ELSE own

Items(c, slot) ==
  CASE slot.sec = "arg"   -> ArgItems(c.schema, c.node, slot.fld)
    [] slot.sec = "prop"  -> PropItems(c.schema, c.node, slot.fld, slot.sub)
    [] slot.sec = "child" -> ChildItems(c.schema, c.node, slot.fld, slot.sub)

\* `held` has the decoded values of the items at `positions`, each once and in
\* the order they are written, and nothing else.
Delivers(held, positions) ==
  /\ {held[h].at : h \in DOMAIN held} = positions
  /\ \A h \in DOMAIN held : held[h].clean
  /\ \A g, h \in DOMAIN held : g < h => held[g].at < held[h].at

AsExpected(c, values) ==
  \A slot \in SlotsOf(c.schema) : Delivers(values[slot], Items(c, slot))
=============================================================================
