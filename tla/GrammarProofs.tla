--------------------------- MODULE GrammarProofs ---------------------------
(***************************************************************************)
(* Theorems about Grammar, for lists of tokens of any length, and about    *)
(* GrammarRules, for documents of any size and layout.                     *)
(***************************************************************************)
EXTENDS GrammarRules, FiniteSetTheorems, SequenceTheorems, WellFoundedInduction, TLAPS

----------------------------------------------------------------------------
\* Positions

LEMMA TokensAreFinite ==
  ASSUME text \in Seq(Token)
  PROVE  Len(text) \in Nat /\ DOMAIN text = 1..Len(text)
  OBVIOUS

\* A run begins at p and does not go past the end of the text.
LEMMA RunEndBounds ==
  ASSUME text \in Seq(Token), NEW p \in 1..(Len(text) + 1), NEW tokens
  PROVE  RunEnd(p, tokens) \in p..(Len(text) + 1)
<1> DEFINE run == {q \in p..Len(text) : \A r \in p..q : text[r] \in tokens}
<1>1. Len(text) \in Nat
  BY TokensAreFinite
<1>2. IsFiniteSet(p..Len(text)) /\ Cardinality(p..Len(text)) <= Len(text) + 1 - p
  <2>1. p \in Int /\ Len(text) \in Int
    BY <1>1
  <2>2. /\ IsFiniteSet(p..Len(text))
        /\ Cardinality(p..Len(text)) = IF p > Len(text) THEN 0 ELSE Len(text) - p + 1
    BY <2>1, FS_Interval
  <2>3. QED
    BY <1>1, <2>2
<1>3. run \in SUBSET (p..Len(text))
  OBVIOUS
<1> HIDE DEF run
<1>4. Cardinality(run) \in Nat /\ Cardinality(run) <= Cardinality(p..Len(text))
  BY <1>2, <1>3, FS_Subset, FS_CardinalityType
<1>5. IsFiniteSet(p..Len(text)) /\ Cardinality(p..Len(text)) \in Nat
  BY <1>2, FS_CardinalityType
<1>6. p + Cardinality(run) \in p..(Len(text) + 1)
  BY <1>1, <1>2, <1>4, <1>5
<1>7. QED
  BY <1>6 DEF RunEnd, run

LEMMA AtBounds ==
  ASSUME text \in Seq(Token), NEW p, NEW tokens, At(p, tokens)
  PROVE  p \in 1..Len(text) /\ p + 1 \in 1..(Len(text) + 1)
  BY TokensAreFinite DEF At

LEMMA LiteralBounds ==
  ASSUME text \in Seq(Token), NEW p \in 1..(Len(text) + 1)
  PROVE  /\ LiteralAt(p) \in p..(Len(text) + 1)
         /\ IsValue(p) => LiteralAt(p) \in p..Len(text)
         /\ ValueFrom(p) \in Value
         /\ ValueFrom(p).at = LiteralAt(p)
<1>1. LiteralAt(p) \in p..(Len(text) + 1)
  <2>1. CASE At(p, {"ty"})
    <3>1. p + 1 \in 1..(Len(text) + 1)
      BY <2>1, AtBounds
    <3>2. RunEnd(p + 1, Blank) \in (p + 1)..(Len(text) + 1)
      BY <3>1, RunEndBounds
    <3>3. QED
      BY <2>1, <3>2, TokensAreFinite DEF LiteralAt
  <2>2. CASE ~At(p, {"ty"})
    BY <2>2, TokensAreFinite DEF LiteralAt
  <2>3. QED
    BY <2>1, <2>2
<1>2. IsValue(p) => LiteralAt(p) \in 1..Len(text)
  BY AtBounds DEF IsValue
<1>3. ValueFrom(p) \in Value /\ ValueFrom(p).at = LiteralAt(p)
  BY <1>1, TokensAreFinite DEF ValueFrom, Value
<1>4. QED
  BY <1>1, <1>2, <1>3, TokensAreFinite

\* The value of a property comes behind its key.
LEMMA KeyedBounds ==
  ASSUME text \in Seq(Token), NEW p \in 1..(Len(text) + 1), IsKeyed(p)
  PROVE  /\ ValueAt(p) \in (p + 1)..(Len(text) + 1)
         /\ LiteralAt(ValueAt(p)) \in (p + 1)..Len(text)
<1>1. p + 1 \in 1..(Len(text) + 1)
  BY AtBounds DEF IsKeyed
<1>2. EqualsAt(p) \in (p + 1)..(Len(text) + 1)
  BY <1>1, RunEndBounds DEF EqualsAt
<1>3. EqualsAt(p) + 1 \in 1..(Len(text) + 1)
  BY AtBounds DEF IsKeyed
<1>4. ValueAt(p) \in (EqualsAt(p) + 1)..(Len(text) + 1)
  BY <1>3, RunEndBounds DEF ValueAt
<1>5. ValueAt(p) \in (p + 1)..(Len(text) + 1)
  BY <1>2, <1>4, TokensAreFinite
<1>6. LiteralAt(ValueAt(p)) \in ValueAt(p)..Len(text)
  BY <1>5, LiteralBounds, TokensAreFinite DEF IsKeyed
<1>7. QED
  BY <1>5, <1>6, TokensAreFinite

\* Reading goes on behind everything that an entry is read into.
LEMMA EntryBounds ==
  ASSUME text \in Seq(Token), NEW p \in 1..(Len(text) + 1), IsEntry(p)
  PROVE  /\ EntryEnd(p) \in (p + 1)..(Len(text) + 1)
         /\ IsProperty(p) => /\ LiteralAt(ValueAt(p)) \in (p + 1)..Len(text)
                             /\ ValueAt(p) \in 1..(Len(text) + 1)
                             /\ EntryEnd(p) = LiteralAt(ValueAt(p)) + 1
         /\ IsArgument(p) => /\ LiteralAt(p) \in p..Len(text)
                             /\ EntryEnd(p) = LiteralAt(p) + 1
<1>1. CASE IsProperty(p)
  <2>1. IsKeyed(p) /\ ~IsArgument(p)
    BY <1>1 DEF IsProperty, IsArgument
  <2>2. EntryEnd(p) = LiteralAt(ValueAt(p)) + 1
    <3>1. LiteralAt(ValueAt(p)) \in Int
      BY <2>1, KeyedBounds
    <3>2. QED
      BY <1>1, <3>1 DEF EntryEnd
  <2>3. QED
    BY <2>1, <2>2, KeyedBounds, TokensAreFinite
<1>2. CASE ~IsProperty(p)
  <2>1. IsArgument(p) /\ IsValue(p)
    BY <1>2 DEF IsEntry, IsArgument
  <2>2. LiteralAt(p) \in p..Len(text)
    BY <2>1, LiteralBounds
  <2>3. EntryEnd(p) = LiteralAt(p) + 1
    BY <1>2, <2>2 DEF EntryEnd
  <2>4. QED
    BY <1>2, <2>1, <2>2, <2>3, TokensAreFinite
<1>3. QED
  BY <1>1, <1>2

LEMMA BehindBounds ==
  ASSUME text \in Seq(Token), NEW p \in 1..(Len(text) + 1)
  PROVE  Behind(p) \in p..(Len(text) + 1)
<1>1. CASE Dashed(p)
  <2>1. p + 1 \in 1..(Len(text) + 1)
    BY <1>1, AtBounds DEF Dashed
  <2>2. RunEnd(p + 1, LineSpace) \in (p + 1)..(Len(text) + 1)
    BY <2>1, RunEndBounds
  <2>3. QED
    BY <1>1, <2>2, TokensAreFinite DEF Behind
<1>2. CASE ~Dashed(p)
  BY <1>2, TokensAreFinite DEF Behind
<1>3. QED
  BY <1>1, <1>2

LEMMA NameBounds ==
  ASSUME text \in Seq(Token), NEW p \in 1..(Len(text) + 1), IsNode(p)
  PROVE  NameAt(p) \in p..Len(text)
<1>1. NameAt(p) = LiteralAt(p)
  BY DEF NameAt, LiteralAt
<1>2. NameAt(p) \in 1..Len(text)
  BY AtBounds DEF IsNode
<1>3. QED
  BY <1>1, <1>2, LiteralBounds, TokensAreFinite
----------------------------------------------------------------------------
\* Lists of nodes

LEMMA Put ==
  ASSUME NEW list \in Seq(Node), NEW k \in DOMAIN list, NEW n \in Node
  PROVE  LET new == [list EXCEPT ![k] = n]
         IN  /\ new \in Seq(Node) /\ Len(new) = Len(list)
             /\ DOMAIN new = DOMAIN list
             /\ \A i \in DOMAIN list : new[i] = IF i = k THEN n ELSE list[i]
  OBVIOUS

LEMMA Cut ==
  ASSUME NEW T, NEW list \in Seq(T), NEW m \in 0..Len(list)
  PROVE  LET new == SubSeq(list, 1, m)
         IN  /\ new \in Seq(T) /\ Len(new) = m /\ DOMAIN new = 1..m
             /\ \A i \in 1..m : i \in DOMAIN list /\ new[i] = list[i]
<1>1. m \in Int /\ Len(list) \in Nat /\ DOMAIN list = 1..Len(list)
  OBVIOUS
<1>2. \A i \in 1..m : list[i] \in T
  BY <1>1
<1>3. /\ SubSeq(list, 1, m) \in Seq(T)
      /\ Len(SubSeq(list, 1, m)) = IF 1 <= m THEN m - 1 + 1 ELSE 0
      /\ \A i \in 1..(m - 1 + 1) : SubSeq(list, 1, m)[i] = list[1 + i - 1]
  BY <1>1, <1>2, SubSeqProperties
<1>4. Len(SubSeq(list, 1, m)) = m
  BY <1>1, <1>3
<1>5. DOMAIN SubSeq(list, 1, m) = 1..m
  BY <1>3, <1>4
<1>6. \A i \in 1..m : SubSeq(list, 1, m)[i] = list[i]
  BY <1>1, <1>3
<1>7. QED
  BY <1>1, <1>3, <1>4, <1>5, <1>6

\* The node that is being read is one of those that have been read.
LEMMA NowIsOpen ==
  ASSUME TypeOK, open # <<>>
  PROVE  /\ Len(open) \in DOMAIN open /\ Len(open) \in Nat
         /\ Last(open) = open[Len(open)] /\ Last(open) \in Frame
         /\ Now \in DOMAIN nodes /\ Now = open[Len(open)].node
         /\ nodes[Now] \in Node
         /\ \A f \in DOMAIN open : f # Len(open) => open[f].node < Now
<1>1. Len(open) \in DOMAIN open /\ Len(open) \in Nat /\ DOMAIN open = 1..Len(open)
  BY DEF TypeOK
<1>2. Last(open) = open[Len(open)] /\ Last(open) \in Frame
  BY <1>1 DEF Last, TypeOK
<1>3. Now \in DOMAIN nodes /\ nodes[Now] \in Node
  BY <1>1, <1>2 DEF Now, TypeOK
<1>4. \A f \in DOMAIN open : f # Len(open) => open[f].node < Now
  BY <1>1, <1>2 DEF Now, TypeOK
<1>5. QED
  BY <1>1, <1>2, <1>3, <1>4 DEF Now

LEMMA OnwardBounds ==
  ASSUME TypeOK
  PROVE  /\ pos \in 1..(Len(text) + 1) /\ Len(text) \in Nat
         /\ Onward \in pos..(Len(text) + 1) /\ Onward \in 1..(Len(text) + 1)
         /\ Behind(Onward) \in Onward..(Len(text) + 1)
         /\ Behind(Onward) \in 1..(Len(text) + 1)
<1>1. text \in Seq(Token) /\ pos \in 1..(Len(text) + 1) /\ Len(text) \in Nat
  BY TokensAreFinite DEF TypeOK
<1>2. Onward \in pos..(Len(text) + 1)
  BY <1>1, RunEndBounds DEF Onward
<1>3. Onward \in 1..(Len(text) + 1)
  BY <1>1, <1>2
<1>4. Behind(Onward) \in Onward..(Len(text) + 1)
  BY <1>1, <1>3, BehindBounds
<1>5. QED
  BY <1>1, <1>2, <1>3, <1>4

----------------------------------------------------------------------------
\* Entries

LEMMA PartsAreNumbers ==
  ASSUME NEW n \in Node
  PROVE  n.name \in Nat /\ \A p \in Keys(n) \cup Values(n) : p \in Nat
<1>1. n.args \in Seq(Value) /\ n.props \in SUBSET Property /\ n.name \in Nat
  BY DEF Node
<1>2. \A i \in DOMAIN n.args : n.args[i] \in Value
  BY <1>1
<1>3. \A i \in DOMAIN n.args : n.args[i].at \in Nat
  BY <1>2 DEF Value
<1>4. \A q \in n.props : q.key \in Nat /\ q.at \in Nat
  BY <1>1 DEF Property
<1>5. QED
  BY <1>1, <1>3, <1>4 DEF Keys, Values

LEMMA OrderWidens ==
  ASSUME NEW n \in Node, NEW end \in Int, NEW later \in Int, end <= later,
         EntriesInOrder(n, end)
  PROVE  EntriesInOrder(n, later)
<1>1. n.name < later
  BY PartsAreNumbers DEF EntriesInOrder
<1>2. \A p \in Keys(n) \cup Values(n) : n.name < p /\ p < later
  BY PartsAreNumbers DEF EntriesInOrder
<1>3. QED
  BY <1>1, <1>2 DEF EntriesInOrder

\* An argument is added behind the others.
LEMMA WithArgument ==
  ASSUME NEW n \in Node, NEW v \in Value
  PROVE  LET new == [n EXCEPT !.args = Append(@, v)]
         IN  /\ new \in Node /\ new.name = n.name
             /\ \A end \in Int :
                  EntriesInOrder(n, end) /\ end <= v.at
                    => EntriesInOrder(new, v.at + 1)
<1> DEFINE new == [n EXCEPT !.args = Append(@, v)]
<1>1. n.args \in Seq(Value) /\ n.name \in Nat /\ v.at \in Nat
  BY DEF Node, Value
<1>2. new.args = Append(n.args, v) /\ new.name = n.name /\ new.props = n.props
  BY DEF Node
<1>3. /\ Append(n.args, v) \in Seq(Value)
      /\ DOMAIN Append(n.args, v) = 1..(Len(n.args) + 1) /\ DOMAIN n.args = 1..Len(n.args)
      /\ Len(n.args) \in Nat
      /\ \A i \in 1..Len(n.args) : Append(n.args, v)[i] = n.args[i]
      /\ Append(n.args, v)[Len(n.args) + 1] = v
  BY <1>1, AppendProperties
<1>4. new \in Node
  BY <1>3 DEF Node
<1>5. ASSUME NEW end \in Int, EntriesInOrder(n, end), end <= v.at
      PROVE  EntriesInOrder(new, v.at + 1)
  <2> HIDE DEF new
  <2>1. Keys(new) = Keys(n)
    BY <1>2 DEF Keys
  <2>2. \A p \in Values(new) : p \in Values(n) \/ p = v.at
    BY <1>2, <1>3 DEF Values
  <2>3. \A p \in Keys(n) \cup Values(n) : p \in Nat /\ n.name < p /\ p < end
    BY <1>5, PartsAreNumbers DEF EntriesInOrder
  <2>4. n.name < end
    BY <1>5 DEF EntriesInOrder
  <2>5. \A i \in 1..Len(n.args) : n.args[i].at \in Values(n)
    BY <1>3 DEF Values
  <2>6. \A i, j \in DOMAIN new.args : i < j => new.args[i].at < new.args[j].at
    <3> SUFFICES ASSUME NEW i \in DOMAIN new.args, NEW j \in DOMAIN new.args, i < j
                 PROVE  new.args[i].at < new.args[j].at
      OBVIOUS
    <3>1. i \in 1..Len(n.args) /\ new.args[i] = n.args[i]
      BY <1>2, <1>3
    <3>2. CASE j \in 1..Len(n.args)
      BY <1>2, <1>3, <1>5, <3>1, <3>2 DEF EntriesInOrder
    <3>3. CASE j = Len(n.args) + 1
      <4>1. new.args[j].at = v.at
        BY <1>2, <1>3, <3>3
      <4>2. n.args[i].at \in Nat /\ n.args[i].at < end
        BY <2>3, <2>5, <3>1
      <4>3. QED
        BY <1>1, <1>5, <3>1, <4>1, <4>2
    <3>4. QED
      BY <1>2, <1>3, <3>2, <3>3
  <2>7. \A q \in new.props : q.key < q.at
    BY <1>2, <1>5 DEF EntriesInOrder
  <2>8. new.name < v.at + 1
    BY <1>1, <1>2, <1>5, <2>4
  <2>9. \A p \in Keys(new) \cup Values(new) : new.name < p /\ p < v.at + 1
    <3>1. \A p \in Keys(n) \cup Values(n) : n.name < p /\ p < v.at + 1
      BY <1>1, <1>5, <2>3
    <3>2. n.name < v.at
      BY <1>1, <1>5, <2>4
    <3>3. QED
      BY <1>1, <1>2, <2>1, <2>2, <3>1, <3>2
  <2>10. QED
    BY <2>6, <2>7, <2>8, <2>9 DEF EntriesInOrder
<1>6. QED
  BY <1>2, <1>4, <1>5

\* A property has the key of one that was there or its own, and its own value.
LEMMA InsertIsOneOf ==
  ASSUME NEW props \in SUBSET Property, NEW key \in Nat, NEW v \in Value,
         NEW q \in Insert(props, key, v)
  PROVE  /\ q \in Property
         /\ \/ q \in props
            \/ q.at = v.at /\ (q.key = key \/ \E r \in props : q.key = r.key)
  BY DEF Insert, Property, Value

LEMMA WithProperty ==
  ASSUME NEW n \in Node, NEW key \in Nat, NEW v \in Value, key < v.at
  PROVE  LET new == [n EXCEPT !.props = Insert(@, key, v)]
         IN  /\ new \in Node /\ new.name = n.name
             /\ \A end \in Int :
                  EntriesInOrder(n, end) /\ end <= key
                    => EntriesInOrder(new, v.at + 1)
<1> DEFINE new == [n EXCEPT !.props = Insert(@, key, v)]
<1>1. n.props \in SUBSET Property /\ n.name \in Nat /\ v.at \in Nat
  BY DEF Node, Value
<1>2. new.args = n.args /\ new.name = n.name /\ new.props = Insert(n.props, key, v)
  BY DEF Node
<1>3. \A q \in new.props : /\ q \in Property
                           /\ \/ q \in n.props
                              \/ /\ q.at = v.at
                                 /\ q.key = key \/ \E r \in n.props : q.key = r.key
  BY <1>1, <1>2, InsertIsOneOf
<1>4. new \in Node
  BY <1>2, <1>3 DEF Node
<1>5. ASSUME NEW end \in Int, EntriesInOrder(n, end), end <= key
      PROVE  EntriesInOrder(new, v.at + 1)
  <2> HIDE DEF new
  <2>1. \A p \in Keys(n) \cup Values(n) : p \in Nat /\ n.name < p /\ p < end
    BY <1>5, PartsAreNumbers DEF EntriesInOrder
  <2>2. \A q \in n.props : q.key \in Keys(n) /\ q.at \in Values(n)
    BY DEF Keys, Values
  <2>3. \A q \in new.props : /\ n.name < q.key /\ q.key < q.at /\ q.at < v.at + 1
                             /\ q.key \in Nat /\ q.at \in Nat
    <3> SUFFICES ASSUME NEW q \in new.props
                 PROVE  /\ n.name < q.key /\ q.key < q.at /\ q.at < v.at + 1
                        /\ q.key \in Nat /\ q.at \in Nat
      OBVIOUS
    <3>1. n.name < end
      BY <1>5 DEF EntriesInOrder
    <3>2. CASE q \in n.props
      <4>1. q.key < q.at
        BY <1>5, <3>2 DEF EntriesInOrder
      <4>2. QED
        BY <1>1, <1>5, <2>1, <2>2, <3>2, <4>1
    <3>3. CASE q.at = v.at /\ q.key = key
      BY <1>1, <1>5, <3>1, <3>3
    <3>4. CASE q.at = v.at /\ \E r \in n.props : q.key = r.key
      <4>1. q.key \in Keys(n)
        BY <2>2, <3>4
      <4>2. q.key \in Nat /\ n.name < q.key /\ q.key < end
        BY <2>1, <4>1
      <4>3. QED
        BY <1>1, <1>5, <3>4, <4>2
    <3>5. QED
      BY <1>3, <3>2, <3>3, <3>4
  <2>4. \A p \in Keys(new) \cup Values(new) :
          \/ p \in Values(n)
          \/ \E q \in new.props : p = q.key \/ p = q.at
    BY <1>2 DEF Keys, Values
  <2>5. \A p \in Keys(new) \cup Values(new) : n.name < p /\ p < v.at + 1
    BY <1>1, <1>5, <2>1, <2>3, <2>4
  <2>6. n.name < v.at + 1
    BY <1>1, <1>5 DEF EntriesInOrder
  <2>7. QED
    BY <1>2, <1>5, <2>3, <2>5, <2>6 DEF EntriesInOrder
<1>6. QED
  BY <1>2, <1>4, <1>5

\* What an argument or a property does: the node that is being read is replaced
\* by one whose entries are in order up to where reading goes on.
Reads(n) ==
  /\ n \in Node /\ nodes' = [nodes EXCEPT ![Now] = n]
  /\ n.name = nodes[Now].name
  /\ EntriesInOrder(nodes[Now], pos) => EntriesInOrder(n, pos')

LEMMA ArgumentReads ==
  ASSUME TypeOK, Argument
  PROVE  pos' \in (pos + 1)..(Len(text) + 1) /\ \E n : Reads(n)
<1> DEFINE v == ValueFrom(Onward)
           n == [nodes[Now] EXCEPT !.args = Append(@, v)]
<1>1. /\ Onward # pos /\ IsArgument(Onward) /\ pos' = EntryEnd(Onward)
      /\ nodes' = [nodes EXCEPT ![Now] = n] /\ open # <<>>
  BY DEF Argument, Entry, TypeOK
<1>2. /\ pos \in 1..(Len(text) + 1) /\ Onward \in 1..(Len(text) + 1)
      /\ Onward \in (pos + 1)..(Len(text) + 1) /\ Len(text) \in Nat
  BY <1>1, OnwardBounds
<1>3. LiteralAt(Onward) \in Onward..Len(text) /\ EntryEnd(Onward) = LiteralAt(Onward) + 1
  BY <1>1, <1>2, EntryBounds DEF IsEntry, TypeOK
<1>4. v \in Value /\ v.at = LiteralAt(Onward)
  BY <1>2, LiteralBounds DEF TypeOK
<1>5. nodes[Now] \in Node
  BY <1>1, NowIsOpen
<1>6. pos \in Int /\ pos <= v.at /\ pos' = v.at + 1
  BY <1>1, <1>2, <1>3, <1>4
<1> HIDE DEF v
<1>7. /\ n \in Node /\ n.name = nodes[Now].name
      /\ EntriesInOrder(nodes[Now], pos) => EntriesInOrder(n, v.at + 1)
  BY <1>4, <1>5, <1>6, WithArgument
<1>8. pos' \in (pos + 1)..(Len(text) + 1)
  BY <1>1, <1>2, <1>3
<1> HIDE DEF n
<1>9. Reads(n)
  BY <1>1, <1>6, <1>7 DEF Reads
<1>10. QED
  BY <1>8, <1>9

LEMMA SetPropertyReads ==
  ASSUME TypeOK, SetProperty
  PROVE  pos' \in (pos + 1)..(Len(text) + 1) /\ \E n : Reads(n)
<1> DEFINE v == ValueFrom(ValueAt(Onward))
           n == [nodes[Now] EXCEPT !.props = Insert(@, Onward, v)]
<1>1. /\ Onward # pos /\ IsProperty(Onward) /\ pos' = EntryEnd(Onward)
      /\ nodes' = [nodes EXCEPT ![Now] = n] /\ open # <<>>
  BY DEF SetProperty, Entry, TypeOK
<1>2. /\ pos \in 1..(Len(text) + 1) /\ Onward \in 1..(Len(text) + 1)
      /\ Onward \in (pos + 1)..(Len(text) + 1) /\ Len(text) \in Nat
  BY <1>1, OnwardBounds
<1>3. /\ LiteralAt(ValueAt(Onward)) \in (Onward + 1)..Len(text)
      /\ ValueAt(Onward) \in 1..(Len(text) + 1)
      /\ EntryEnd(Onward) = LiteralAt(ValueAt(Onward)) + 1
  BY <1>1, <1>2, EntryBounds DEF IsEntry, TypeOK
<1>4. v \in Value /\ v.at = LiteralAt(ValueAt(Onward))
  BY <1>3, LiteralBounds DEF TypeOK
<1>5. nodes[Now] \in Node
  BY <1>1, NowIsOpen
<1>6. /\ pos \in Int /\ pos <= Onward /\ Onward \in Nat /\ Onward < v.at
      /\ pos' = v.at + 1
  BY <1>1, <1>2, <1>3, <1>4
<1> HIDE DEF v
<1>7. /\ n \in Node /\ n.name = nodes[Now].name
      /\ EntriesInOrder(nodes[Now], pos) => EntriesInOrder(n, v.at + 1)
  BY <1>4, <1>5, <1>6, WithProperty
<1>8. pos' \in (pos + 1)..(Len(text) + 1)
  BY <1>1, <1>2, <1>3
<1> HIDE DEF n
<1>9. Reads(n)
  BY <1>1, <1>6, <1>7 DEF Reads
<1>10. QED
  BY <1>8, <1>9

----------------------------------------------------------------------------
(***************************************************************************)
(* The variables keep their types.                                         *)
(***************************************************************************)

LEMMA InitTypes == Init => TypeOK
<1> SUFFICES ASSUME Init PROVE TypeOK
  OBVIOUS
<1>1. text \in Seq(Token)
  BY TextsAssumption DEF Init
<1>2. Len(text) \in Nat /\ DOMAIN text = 1..Len(text)
  BY <1>1
<1>3. pos \in 1..(Len(text) + 1)
  BY <1>2 DEF Init, Begin, At
<1>4. QED
  BY <1>1, <1>3 DEF Init, Begin, TypeOK

\* A step within a node leaves the open nodes as they are.
LEMMA EntryKeepsTypes ==
  ASSUME TypeOK, stage = "node", NEW n, Reads(n), pos' \in (pos + 1)..(Len(text) + 1),
         UNCHANGED <<text, stage, open, error>>
  PROVE  TypeOK'
<1>1. open # <<>> /\ Now \in DOMAIN nodes /\ Now = Len(nodes)
  BY NowIsOpen DEF TypeOK
<1>2. /\ nodes' \in Seq(Node) /\ Len(nodes') = Len(nodes)
      /\ DOMAIN nodes' = DOMAIN nodes
  BY <1>1, Put DEF Reads, TypeOK
<1>3. Now' = Now
  BY DEF Now
<1>4. pos' \in 1..(Len(text) + 1)
  BY TokensAreFinite DEF TypeOK
<1>5. QED
  BY <1>1, <1>2, <1>3, <1>4 DEF TypeOK

LEMMA BeginKeepsTypes ==
  ASSUME TypeOK, BeginNode
  PROVE  TypeOK'
<1> DEFINE start == Behind(pos)
           n == [ty |-> IF At(start, {"ty"}) THEN start ELSE 0, name |-> NameAt(start),
                 args |-> <<>>, props |-> {}, parent |-> Parent, block |-> <<>>]
           f == [node |-> Len(nodes) + 1, skip |-> Dashed(pos),
                 hide |-> FALSE, brace |-> 0]
<1>1. /\ IsNode(start) /\ nodes' = Append(nodes, n) /\ open' = Append(open, f)
      /\ pos' = NameAt(start) + 1 /\ stage' = "node" /\ UNCHANGED <<text, error>>
  BY DEF BeginNode
<1>2. start \in 1..(Len(text) + 1) /\ Len(text) \in Nat
  BY BehindBounds, TokensAreFinite DEF TypeOK
<1>3. NameAt(start) \in 1..Len(text)
  BY <1>1, <1>2, NameBounds DEF TypeOK
<1>4. Parent \in Nat
  <2>1. CASE open = <<>>
    BY <2>1 DEF Parent
  <2>2. CASE open # <<>>
    BY <2>2, NowIsOpen DEF Parent, TypeOK
  <2>3. QED
    BY <2>1, <2>2
<1>5. n \in Node
  BY <1>2, <1>3, <1>4 DEF Node
<1>6. f \in Frame /\ f.node = Len(nodes) + 1
  BY DEF Frame, Dashed, TypeOK, At
<1> HIDE DEF n, f
<1>7. /\ nodes' \in Seq(Node) /\ Len(nodes') = Len(nodes) + 1
      /\ DOMAIN nodes' = 1..(Len(nodes) + 1) /\ DOMAIN nodes = 1..Len(nodes)
      /\ Len(nodes) \in Nat
  BY <1>1, <1>5, AppendProperties DEF TypeOK
<1>8. /\ open' \in Seq(Frame) /\ Len(open') = Len(open) + 1 /\ Len(open) \in Nat
      /\ DOMAIN open' = 1..(Len(open) + 1) /\ DOMAIN open = 1..Len(open)
      /\ \A g \in 1..Len(open) : open'[g] = open[g]
      /\ open'[Len(open) + 1] = f
  BY <1>1, <1>6, AppendProperties DEF TypeOK
<1>9. \A g \in DOMAIN open' : open'[g].node \in DOMAIN nodes'
  <2>1. \A g \in DOMAIN open : open[g].node \in 1..Len(nodes)
    BY <1>7 DEF TypeOK
  <2>2. QED
    BY <1>6, <1>7, <1>8, <2>1
<1>10. \A g, h \in DOMAIN open' : g < h => open'[g].node < open'[h].node
  <2>1. \A g, h \in DOMAIN open : g < h => open[g].node < open[h].node
    BY DEF TypeOK
  <2>2. \A g \in DOMAIN open : open[g].node < f.node
    BY <1>6, <1>7 DEF TypeOK
  <2>3. QED
    BY <1>8, <2>1, <2>2
<1>11. Now' = Len(nodes') /\ open' # <<>>
  <2>1. Last(open') = f
    BY <1>8 DEF Last
  <2>2. QED
    BY <1>6, <1>7, <1>8, <2>1 DEF Now
<1>12. pos' \in 1..(Len(text') + 1)
  BY <1>1, <1>2, <1>3
<1>13. QED
  BY <1>1, <1>7, <1>8, <1>9, <1>10, <1>11, <1>12 DEF TypeOK

LEMMA OpenKeepsTypes ==
  ASSUME TypeOK, OpenBlock
  PROVE  TypeOK'
<1> DEFINE brace == Behind(Onward)
           f == [Last(open) EXCEPT !.hide = Dashed(Onward), !.brace = brace]
<1>1. open # <<>>
  BY DEF OpenBlock, TypeOK
<1>2. /\ Len(open) \in DOMAIN open /\ Len(open) \in Nat /\ DOMAIN open = 1..Len(open)
      /\ Last(open) = open[Len(open)] /\ Last(open) \in Frame
  BY <1>1, NowIsOpen DEF TypeOK
<1>3. /\ open' = [open EXCEPT ![Len(open)] = f] /\ pos' = brace + 1
      /\ At(brace, {"{"}) /\ stage' = "nodes" /\ UNCHANGED <<text, nodes, error>>
  BY <1>2 DEF OpenBlock, BlockAhead
<1>4. brace \in 1..(Len(text) + 1) /\ Dashed(Onward) \in BOOLEAN
  BY OnwardBounds DEF Dashed, At
<1>5. f \in Frame /\ f.node = Last(open).node
  <2>1. brace \in Nat
    BY OnwardBounds
  <2> HIDE DEF brace
  <2>2. QED
    BY <1>2, <1>4, <2>1 DEF Frame
<1> HIDE DEF f
<1>6. /\ open' \in Seq(Frame) /\ Len(open') = Len(open) /\ DOMAIN open' = DOMAIN open
      /\ \A g \in 1..Len(open) : open'[g] = IF g = Len(open) THEN f ELSE open[g]
  BY <1>2, <1>3, <1>5, ExceptSeq DEF TypeOK
<1>7. \A g \in DOMAIN open' : open'[g].node = open[g].node
  BY <1>2, <1>5, <1>6
<1>8. pos' \in 1..(Len(text') + 1)
  BY <1>3, <1>4, AtBounds DEF TypeOK
<1>9. QED
  BY <1>3, <1>6, <1>7, <1>8 DEF TypeOK

LEMMA CloseKeepsTypes ==
  ASSUME TypeOK, CloseBlock
  PROVE  TypeOK'
<1>1. /\ open # <<>> /\ stage' = "closed" /\ pos' = pos + 1 /\ At(pos, {"}"})
      /\ UNCHANGED <<text, open, error>>
      /\ nodes' = IF Last(open).hide THEN SubSeq(nodes, 1, Now)
                  ELSE [nodes EXCEPT ![Now] =
                          [nodes[Now] EXCEPT !.block = <<Last(open).brace, pos>>]]
  BY DEF CloseBlock
<1>2. /\ Last(open) \in Frame /\ Now \in DOMAIN nodes /\ nodes[Now] \in Node
      /\ \A f \in DOMAIN open : open[f].node <= Now /\ open[f].node \in DOMAIN nodes
  <2>1. /\ Last(open) \in Frame /\ Now \in DOMAIN nodes /\ nodes[Now] \in Node
        /\ Now = open[Len(open)].node
        /\ \A f \in DOMAIN open : f # Len(open) => open[f].node < Now
    BY <1>1, NowIsOpen
  <2>2. \A f \in DOMAIN open : open[f].node \in DOMAIN nodes
    BY DEF TypeOK
  <2>3. \A k \in DOMAIN nodes : k \in Int
    BY DEF TypeOK
  <2>4. QED
    BY <2>1, <2>2, <2>3
<1>3. pos' \in 1..(Len(text') + 1)
  BY <1>1, AtBounds DEF TypeOK
<1>4. /\ nodes' \in Seq(Node)
      /\ \A f \in DOMAIN open : open[f].node \in DOMAIN nodes'
  <2>1. CASE Last(open).hide
    <3>1. nodes \in Seq(Node) /\ Now \in 0..Len(nodes)
      BY <1>2 DEF TypeOK
    <3>2. nodes' \in Seq(Node) /\ DOMAIN nodes' = 1..Now
      BY <1>1, <2>1, <3>1, Cut
    <3>3. QED
      BY <1>2, <3>1, <3>2
  <2>2. CASE ~Last(open).hide
    <3>1. <<Last(open).brace, pos>> \in Seq(Nat)
      BY <1>2 DEF Frame, TypeOK
    <3> DEFINE n == [nodes[Now] EXCEPT !.block = <<Last(open).brace, pos>>]
    <3>2. n \in Node /\ nodes' = [nodes EXCEPT ![Now] = n] /\ nodes \in Seq(Node)
      BY <1>1, <1>2, <2>2, <3>1 DEF Node, TypeOK
    <3> HIDE DEF n
    <3>3. nodes' \in Seq(Node) /\ DOMAIN nodes' = DOMAIN nodes
      BY <1>2, <3>2, Put
    <3>4. QED
      BY <1>2, <3>3
  <2>3. QED
    BY <2>1, <2>2
<1>5. QED
  BY <1>1, <1>3, <1>4 DEF TypeOK

LEMMA EndKeepsTypes ==
  ASSUME TypeOK, EndNode
  PROVE  TypeOK'
<1>1. /\ open # <<>> /\ stage' = "nodes" /\ open' = SubSeq(open, 1, Len(open) - 1)
      /\ pos' = IF At(Onward, Terminator) THEN Onward + 1 ELSE Onward
      /\ nodes' = IF Last(open).skip THEN SubSeq(nodes, 1, Now - 1) ELSE nodes
      /\ UNCHANGED <<text, error>>
  BY DEF EndNode, CanEnd, Front, TypeOK
<1>2. /\ Len(open) \in DOMAIN open /\ Len(open) \in Nat /\ Now \in DOMAIN nodes
      /\ \A f \in DOMAIN open : f # Len(open) => open[f].node < Now
  BY <1>1, NowIsOpen
<1>3. pos' \in 1..(Len(text') + 1)
  BY <1>1, OnwardBounds, AtBounds DEF TypeOK
<1>4. Len(open) - 1 \in 0..Len(open) /\ Now - 1 \in 0..Len(nodes)
  BY <1>2 DEF TypeOK
<1>5. /\ open' \in Seq(Frame) /\ DOMAIN open' = 1..(Len(open) - 1)
      /\ \A f \in 1..(Len(open) - 1) : f \in DOMAIN open /\ open'[f] = open[f]
  BY <1>1, <1>4, Cut, SMTT(20) DEF TypeOK
<1>6. /\ nodes' \in Seq(Node)
      /\ \A k \in DOMAIN nodes : k < Now => k \in DOMAIN nodes'
  <2>1. CASE Last(open).skip
    <3>1. nodes' \in Seq(Node) /\ DOMAIN nodes' = 1..(Now - 1)
      BY <1>1, <1>4, <2>1, Cut DEF TypeOK
    <3>2. QED
      BY <1>2, <3>1 DEF TypeOK
  <2>2. CASE ~Last(open).skip
    BY <1>1, <2>2 DEF TypeOK
  <2>3. QED
    BY <2>1, <2>2
<1>7. \A f \in DOMAIN open' : open'[f].node \in DOMAIN nodes'
  <2>1. \A f \in DOMAIN open : open[f].node \in DOMAIN nodes
    BY DEF TypeOK
  <2>2. QED
    BY <1>2, <1>5, <1>6, <2>1
<1>8. \A f, g \in DOMAIN open' : f < g => open'[f].node < open'[g].node
  <2>1. \A f, g \in DOMAIN open : f < g => open[f].node < open[g].node
    BY DEF TypeOK
  <2>2. QED
    BY <1>5, <2>1
<1>9. QED
  BY <1>1, <1>3, <1>5, <1>6, <1>7, <1>8 DEF TypeOK

LEMMA NextKeepsTypes == TypeOK /\ [Next]_vars => TypeOK'
<1> SUFFICES ASSUME TypeOK, [Next]_vars PROVE TypeOK'
  OBVIOUS
<1>1. CASE SkipLineSpace
  <2>1. pos' \in 1..(Len(text') + 1)
    BY <1>1, AtBounds DEF SkipLineSpace, TypeOK
  <2>2. QED
    BY <1>1, <2>1 DEF SkipLineSpace, TypeOK
<1>2. CASE BeginNode
  BY <1>2, BeginKeepsTypes
<1>3. CASE Argument
  <2>1. PICK n : Reads(n) /\ pos' \in (pos + 1)..(Len(text) + 1)
    BY <1>3, ArgumentReads
  <2>2. stage = "node" /\ UNCHANGED <<text, stage, open, error>>
    BY <1>3 DEF Argument, Entry
  <2>3. QED
    BY <2>1, <2>2, EntryKeepsTypes
<1>4. CASE SetProperty
  <2>1. PICK n : Reads(n) /\ pos' \in (pos + 1)..(Len(text) + 1)
    BY <1>4, SetPropertyReads
  <2>2. stage = "node" /\ UNCHANGED <<text, stage, open, error>>
    BY <1>4 DEF SetProperty, Entry
  <2>3. QED
    BY <2>1, <2>2, EntryKeepsTypes
<1>5. CASE IgnoreEntry
  <2>1. IsEntry(Behind(Onward)) /\ pos' = EntryEnd(Behind(Onward))
    BY <1>5 DEF IgnoreEntry, EntryAhead
  <2>2. pos' \in (Behind(Onward) + 1)..(Len(text) + 1)
    BY <2>1, OnwardBounds, EntryBounds DEF TypeOK
  <2>3. pos' \in 1..(Len(text) + 1)
    BY <2>2, OnwardBounds
  <2>4. Now' = Now /\ UNCHANGED <<text, stage, nodes, open, error>>
    BY <1>5 DEF IgnoreEntry, Now
  <2>5. QED
    BY <2>3, <2>4 DEF TypeOK
<1>6. CASE OpenBlock
  BY <1>6, OpenKeepsTypes
<1>7. CASE CloseBlock
  BY <1>7, CloseKeepsTypes
<1>8. CASE EndNode
  BY <1>8, EndKeepsTypes
<1>9. CASE Finish
  BY <1>9 DEF Finish, TypeOK
<1>10. CASE Unclosed
  <2>1. Last(open).brace \in Nat
    BY <1>10, NowIsOpen DEF Unclosed, Frame
  <2>2. QED
    BY <1>10, <2>1 DEF Unclosed, TypeOK
<1>11. CASE Fail
  BY <1>11 DEF Fail, TypeOK
<1>12. CASE UNCHANGED vars
  BY <1>12 DEF vars, TypeOK, Now
<1>13. QED
  BY <1>1, <1>2, <1>3, <1>4, <1>5, <1>6, <1>7, <1>8, <1>9, <1>10, <1>11, <1>12
     DEF Next, Done

\* The variables keep their types, the open nodes stay in the list in the order
\* in which they were opened, and the one that is being read stays the last
\* (grammar.rs, nodes), for every list of tokens.
THEOREM TypeCorrect == Spec => []TypeOK
<1>1. QED
  BY InitTypes, NextKeepsTypes, PTL DEF Spec

----------------------------------------------------------------------------
(***************************************************************************)
(* What is read stays in order.                                            *)
(***************************************************************************)

\* It stays so if nodes are only dropped from the end, or keep what has been
\* read of them, while reading goes on.
LEMMA OrderKept ==
  ASSUME TypeOK, ReadInOrder, pos' \in Int, pos <= pos',
         nodes' \in Seq(Node), Len(nodes') <= Len(nodes),
         \A i \in DOMAIN nodes' : /\ nodes'[i].name = nodes[i].name
                                  /\ nodes'[i].args = nodes[i].args
                                  /\ nodes'[i].props = nodes[i].props
  PROVE  ReadInOrder'
<1> SUFFICES ASSUME NEW i \in DOMAIN nodes'
             PROVE  /\ EntriesInOrder(nodes'[i], pos')
                    /\ i < Len(nodes') => EntriesInOrder(nodes'[i], nodes'[i + 1].name)
  BY DEF ReadInOrder
<1>1. /\ i \in DOMAIN nodes /\ nodes[i] \in Node /\ pos \in Int
      /\ i < Len(nodes') => i < Len(nodes) /\ i + 1 \in DOMAIN nodes'
  BY DEF TypeOK
<1>2. \A end : EntriesInOrder(nodes'[i], end) <=> EntriesInOrder(nodes[i], end)
  BY DEF EntriesInOrder, Keys, Values
<1>3. EntriesInOrder(nodes[i], pos')
  BY <1>1, OrderWidens DEF ReadInOrder
<1>4. QED
  BY <1>1, <1>2, <1>3 DEF ReadInOrder

LEMMA EntryKeepsOrder ==
  ASSUME TypeOK, ReadInOrder, stage = "node", NEW n, Reads(n),
         pos' \in (pos + 1)..(Len(text) + 1)
  PROVE  ReadInOrder'
<1>1. /\ Now \in DOMAIN nodes /\ Now = Len(nodes) /\ nodes \in Seq(Node)
      /\ pos \in Int /\ pos' \in Int /\ pos <= pos'
  BY NowIsOpen, TokensAreFinite DEF TypeOK
<1>2. /\ Len(nodes') = Len(nodes) /\ DOMAIN nodes' = DOMAIN nodes
      /\ \A i \in DOMAIN nodes : nodes'[i] = IF i = Now THEN n ELSE nodes[i]
  BY <1>1, Put DEF Reads
<1>3. \A i \in DOMAIN nodes : nodes'[i].name = nodes[i].name
  BY <1>2 DEF Reads
<1> SUFFICES ASSUME NEW i \in DOMAIN nodes'
             PROVE  /\ EntriesInOrder(nodes'[i], pos')
                    /\ i < Len(nodes') => EntriesInOrder(nodes'[i], nodes'[i + 1].name)
  BY DEF ReadInOrder
<1>4. i \in DOMAIN nodes /\ EntriesInOrder(nodes[i], pos) /\ nodes[i] \in Node
  BY <1>1, <1>2 DEF ReadInOrder
<1>5. CASE i = Now
  BY <1>1, <1>2, <1>4, <1>5 DEF Reads
<1>6. CASE i # Now
  <2>1. nodes'[i] = nodes[i]
    BY <1>2, <1>4, <1>6
  <2>2. EntriesInOrder(nodes[i], pos')
    BY <1>1, <1>4, OrderWidens
  <2>3. i < Len(nodes) => i + 1 \in DOMAIN nodes
    BY <1>1, <1>4
  <2>4. i < Len(nodes) => EntriesInOrder(nodes[i], nodes[i + 1].name)
    BY <1>4 DEF ReadInOrder
  <2>5. QED
    BY <1>2, <1>3, <2>1, <2>2, <2>3, <2>4
<1>7. QED
  BY <1>5, <1>6

LEMMA BeginKeepsOrder ==
  ASSUME TypeOK, ReadInOrder, BeginNode
  PROVE  ReadInOrder'
<1> DEFINE start == Behind(pos)
           n == [ty |-> IF At(start, {"ty"}) THEN start ELSE 0, name |-> NameAt(start),
                 args |-> <<>>, props |-> {}, parent |-> Parent, block |-> <<>>]
<1>1. /\ IsNode(start) /\ nodes' = Append(nodes, n) /\ pos' = NameAt(start) + 1
  BY DEF BeginNode
<1>2. /\ start \in pos..(Len(text) + 1) /\ start \in 1..(Len(text) + 1)
      /\ pos \in Int /\ Len(text) \in Nat
  BY BehindBounds, TokensAreFinite DEF TypeOK
<1>3. NameAt(start) \in start..Len(text)
  BY <1>1, <1>2, NameBounds DEF TypeOK
<1>4. /\ n.name \in Int /\ pos <= n.name /\ pos' = n.name + 1 /\ pos' \in Int
      /\ pos <= pos'
  BY <1>1, <1>2, <1>3
<1>5. EntriesInOrder(n, pos')
  BY <1>4 DEF EntriesInOrder, Keys, Values
<1> HIDE DEF n
<1>6. nodes \in Seq(Node) /\ Len(nodes) \in Nat /\ DOMAIN nodes = 1..Len(nodes)
  BY DEF TypeOK
<1>7. /\ Len(nodes') = Len(nodes) + 1 /\ DOMAIN nodes' = 1..(Len(nodes) + 1)
      /\ \A i \in 1..Len(nodes) : nodes'[i] = nodes[i]
      /\ nodes'[Len(nodes) + 1] = n
  BY <1>1, <1>6
<1> SUFFICES ASSUME NEW i \in DOMAIN nodes'
             PROVE  /\ EntriesInOrder(nodes'[i], pos')
                    /\ i < Len(nodes') => EntriesInOrder(nodes'[i], nodes'[i + 1].name)
  BY DEF ReadInOrder
<1>8. CASE i = Len(nodes) + 1
  BY <1>5, <1>6, <1>7, <1>8
<1>9. CASE i \in 1..Len(nodes)
  <2>1. nodes'[i] = nodes[i] /\ nodes[i] \in Node /\ EntriesInOrder(nodes[i], pos)
    BY <1>6, <1>7, <1>9 DEF ReadInOrder
  <2>2. EntriesInOrder(nodes[i], pos') /\ EntriesInOrder(nodes[i], n.name)
    BY <1>2, <1>4, <2>1, OrderWidens
  <2>3. CASE i = Len(nodes)
    BY <1>6, <1>7, <2>1, <2>2, <2>3
  <2>4. CASE i < Len(nodes)
    <3>1. i + 1 \in 1..Len(nodes) /\ EntriesInOrder(nodes[i], nodes[i + 1].name)
      BY <1>6, <1>9, <2>4 DEF ReadInOrder
    <3>2. QED
      BY <1>7, <2>1, <2>2, <3>1
  <2>5. QED
    BY <1>6, <1>9, <2>3, <2>4
<1>10. QED
  BY <1>6, <1>7, <1>8, <1>9

LEMMA CloseKeepsOrder ==
  ASSUME TypeOK, ReadInOrder, CloseBlock
  PROVE  ReadInOrder'
<1>1. /\ open # <<>> /\ pos' = pos + 1
      /\ nodes' = IF Last(open).hide THEN SubSeq(nodes, 1, Now)
                  ELSE [nodes EXCEPT ![Now] =
                          [nodes[Now] EXCEPT !.block = <<Last(open).brace, pos>>]]
  BY DEF CloseBlock
<1>2. /\ nodes \in Seq(Node) /\ pos \in Int /\ Now \in DOMAIN nodes
      /\ nodes[Now] \in Node
  BY <1>1, NowIsOpen DEF TypeOK
<1>3. nodes' \in Seq(Node)
  BY CloseKeepsTypes DEF TypeOK
<1>4. /\ Len(nodes') <= Len(nodes)
      /\ \A i \in DOMAIN nodes' : /\ nodes'[i].name = nodes[i].name
                                  /\ nodes'[i].args = nodes[i].args
                                  /\ nodes'[i].props = nodes[i].props
  <2>1. CASE Last(open).hide
    <3>1. Now \in 0..Len(nodes) /\ nodes' = SubSeq(nodes, 1, Now)
      BY <1>1, <1>2, <2>1
    <3>2. /\ Len(nodes') = Now /\ DOMAIN nodes' = 1..Now
          /\ \A i \in 1..Now : nodes'[i] = nodes[i]
      BY <1>2, <3>1, Cut
    <3>3. QED
      BY <3>1, <3>2
  <2>2. CASE ~Last(open).hide
    <3> DEFINE n == [nodes[Now] EXCEPT !.block = <<Last(open).brace, pos>>]
    <3>1. /\ n.name = nodes[Now].name /\ n.args = nodes[Now].args
          /\ n.props = nodes[Now].props
      BY <1>2 DEF Node
    <3>2. nodes' = [nodes EXCEPT ![Now] = n]
      BY <1>1, <2>2
    <3> HIDE DEF n
    <3>3. /\ Len(nodes') = Len(nodes) /\ DOMAIN nodes' = DOMAIN nodes
          /\ \A i \in DOMAIN nodes : nodes'[i] = IF i = Now THEN n ELSE nodes[i]
      BY <1>2, <3>2
    <3>4. Len(nodes') <= Len(nodes)
      BY <1>2, <3>3
    <3>5. QED
      BY <3>1, <3>3, <3>4
  <2>3. QED
    BY <2>1, <2>2
<1>5. QED
  BY <1>1, <1>2, <1>3, <1>4, OrderKept

LEMMA EndKeepsOrder ==
  ASSUME TypeOK, ReadInOrder, EndNode
  PROVE  ReadInOrder'
<1>1. /\ open # <<>>
      /\ pos' = IF At(Onward, Terminator) THEN Onward + 1 ELSE Onward
      /\ nodes' = IF Last(open).skip THEN SubSeq(nodes, 1, Now - 1) ELSE nodes
  BY DEF EndNode, CanEnd, TypeOK
<1>2. nodes \in Seq(Node) /\ Now \in DOMAIN nodes
  BY <1>1, NowIsOpen DEF TypeOK
<1>3. pos' \in Int /\ pos <= pos'
  BY <1>1, OnwardBounds
<1>4. nodes' \in Seq(Node)
  BY EndKeepsTypes DEF TypeOK
<1>5. Len(nodes') <= Len(nodes) /\ \A i \in DOMAIN nodes' : nodes'[i] = nodes[i]
  <2>1. CASE Last(open).skip
    <3>1. Now - 1 \in 0..Len(nodes) /\ nodes' = SubSeq(nodes, 1, Now - 1)
      BY <1>1, <1>2, <2>1
    <3>2. /\ Len(nodes') = Now - 1 /\ DOMAIN nodes' = 1..(Now - 1)
          /\ \A i \in 1..(Now - 1) : nodes'[i] = nodes[i]
      BY <1>2, <3>1, Cut
    <3>3. QED
      BY <3>1, <3>2
  <2>2. CASE ~Last(open).skip
    BY <1>1, <1>2, <2>2
  <2>3. QED
    BY <2>1, <2>2
<1>6. QED
  BY <1>3, <1>4, <1>5, OrderKept

LEMMA NextKeepsOrder == TypeOK /\ ReadInOrder /\ [Next]_vars => ReadInOrder'
<1> SUFFICES ASSUME TypeOK, ReadInOrder, [Next]_vars PROVE ReadInOrder'
  OBVIOUS
<1>1. pos \in Int /\ nodes \in Seq(Node) /\ Len(nodes) \in Nat
  BY DEF TypeOK
<1>2. ASSUME UNCHANGED nodes, pos' \in Int, pos <= pos'
      PROVE  ReadInOrder'
  BY <1>1, <1>2, OrderKept
<1>3. CASE SkipLineSpace
  BY <1>1, <1>2, <1>3 DEF SkipLineSpace
<1>4. CASE BeginNode
  BY <1>4, BeginKeepsOrder
<1>5. CASE Argument
  <2>1. PICK n : Reads(n) /\ pos' \in (pos + 1)..(Len(text) + 1)
    BY <1>5, ArgumentReads
  <2>2. QED
    BY <1>5, <2>1, EntryKeepsOrder DEF Argument, Entry
<1>6. CASE SetProperty
  <2>1. PICK n : Reads(n) /\ pos' \in (pos + 1)..(Len(text) + 1)
    BY <1>6, SetPropertyReads
  <2>2. QED
    BY <1>6, <2>1, EntryKeepsOrder DEF SetProperty, Entry
<1>7. CASE IgnoreEntry
  <2>1. IsEntry(Behind(Onward)) /\ pos' = EntryEnd(Behind(Onward)) /\ UNCHANGED nodes
    BY <1>7 DEF IgnoreEntry, EntryAhead
  <2>2. pos' \in (Behind(Onward) + 1)..(Len(text) + 1)
    BY <2>1, OnwardBounds, EntryBounds DEF TypeOK
  <2>3. QED
    BY <1>2, <2>1, <2>2, OnwardBounds
<1>8. CASE OpenBlock
  <2>1. pos' = Behind(Onward) + 1 /\ UNCHANGED nodes
    BY <1>8 DEF OpenBlock
  <2>2. QED
    BY <1>2, <2>1, OnwardBounds
<1>9. CASE CloseBlock
  BY <1>9, CloseKeepsOrder
<1>10. CASE EndNode
  BY <1>10, EndKeepsOrder
<1>11. CASE Finish \/ Unclosed \/ Fail \/ UNCHANGED vars
  <2>1. UNCHANGED <<pos, nodes>>
    BY <1>11 DEF Finish, Unclosed, Fail, vars
  <2>2. QED
    BY <1>1, <1>2, <2>1
<1>12. QED
  BY <1>3, <1>4, <1>5, <1>6, <1>7, <1>8, <1>9, <1>10, <1>11 DEF Next, Done

\* Whatever the parser drops or replaces on the way, the nodes and arguments
\* that it has are those of the text in their order, every entry belongs to one
\* node, and a key is before its value (grammar.rs, nodes), for every list of
\* tokens.
THEOREM ReadsInOrder == Spec => []ReadInOrder
<1>1. Init => ReadInOrder
  BY DEF Init, Begin, ReadInOrder
<1>2. QED
  BY InitTypes, NextKeepsTypes, NextKeepsOrder, <1>1, PTL DEF Spec

----------------------------------------------------------------------------
(***************************************************************************)
(* Nothing behind a slashdash is kept.                                     *)
(***************************************************************************)

\* A run is made of the tokens of its kind.  (The members of `run` are the first
\* ones; if one between p and the end were not in it, it had too few.)
LEMMA RunIsOfItsKind ==
  ASSUME text \in Seq(Token), NEW p \in 1..(Len(text) + 1), NEW tokens
  PROVE  \A r \in p..(RunEnd(p, tokens) - 1) : At(r, tokens)
<1> DEFINE run == {q \in p..Len(text) : \A r \in p..q : text[r] \in tokens}
<1> SUFFICES ASSUME NEW r \in p..(RunEnd(p, tokens) - 1) PROVE At(r, tokens)
  OBVIOUS
<1>1. Len(text) \in Nat /\ DOMAIN text = 1..Len(text) /\ p \in Int /\ r \in Int
  BY TokensAreFinite
<1>2. RunEnd(p, tokens) = p + Cardinality(run)
  BY DEF RunEnd
<1>3. RunEnd(p, tokens) \in p..(Len(text) + 1)
  BY RunEndBounds
<1>4. r \in run
  <2>1. SUFFICES ASSUME r \notin run PROVE FALSE
    OBVIOUS
  <2>2. run \subseteq p..(r - 1)
    BY <1>1, <2>1
  <2>3. IsFiniteSet(p..(r - 1)) /\ Cardinality(p..(r - 1)) = r - p
    <3>1. r - 1 \in Int /\ ~(p > r)
      BY <1>1
    <3>2. /\ IsFiniteSet(p..(r - 1))
          /\ Cardinality(p..(r - 1)) = IF p > r - 1 THEN 0 ELSE r - 1 - p + 1
      BY <1>1, <3>1, FS_Interval
    <3>3. QED
      BY <1>1, <3>1, <3>2
  <2> HIDE DEF run
  <2>4. Cardinality(run) \in Nat /\ Cardinality(run) <= r - p
    BY <2>2, <2>3, FS_Subset, FS_CardinalityType
  <2>5. QED
    BY <1>1, <1>2, <1>3, <2>4
<1>5. QED
  BY <1>1, <1>4 DEF At

\* Where only tokens other than slashdashes are gone past, none comes before.
LEMMA DashlessRun ==
  ASSUME text \in Seq(Token), NEW p \in 1..(Len(text) + 1), ~DashBefore(p),
         NEW end \in p..(Len(text) + 1), \A r \in p..(end - 1) : ~At(r, {"/-"})
  PROVE  ~DashBefore(end)
<1>1. SUFFICES ASSUME DashBefore(end) PROVE FALSE
  OBVIOUS
<1>2. Len(text) \in Nat
  BY TokensAreFinite
<1>3. PICK q \in 1..(end - 1) :
        At(q, {"/-"}) /\ \A r \in (q + 1)..(end - 1) : At(r, LineSpace)
  BY <1>1 DEF DashBefore
<1>4. q \in 1..(p - 1)
  BY <1>2, <1>3
<1>5. \A r \in (q + 1)..(p - 1) : At(r, LineSpace)
  BY <1>2, <1>3
<1>6. QED
  BY <1>3, <1>4, <1>5 DEF DashBefore

\* Nor does one behind a token that is neither a slashdash nor space.
LEMMA DashlessToken ==
  ASSUME text \in Seq(Token), NEW p \in 1..Len(text), NEW tokens, At(p, tokens),
         tokens \cap (LineSpace \cup {"/-"}) = {}
  PROVE  ~DashBefore(p + 1)
<1>1. SUFFICES ASSUME DashBefore(p + 1) PROVE FALSE
  OBVIOUS
<1>2. PICK q \in 1..p : At(q, {"/-"}) /\ \A r \in (q + 1)..p : At(r, LineSpace)
  BY <1>1, TokensAreFinite DEF DashBefore
<1>3. ~At(p, {"/-"}) /\ ~At(p, LineSpace)
  BY DEF At
<1>4. q # p /\ p \in (q + 1)..p
  BY <1>2, <1>3, TokensAreFinite
<1>5. QED
  BY <1>2, <1>3, <1>4

\* Where a node begins, and whether it is behind a slashdash that was seen.
BeginsAt(n) == StartOf(n.ty, n.name)
Dropped(i)  == \E f \in DOMAIN open : open[f].node = i /\ open[f].skip

\* Until a node ends its slashdash is remembered; where reading goes on there is
\* none before.
Undashed ==
  /\ ~DashBefore(pos)
  /\ stage = "done" => open = <<>>
  /\ \A i \in DOMAIN nodes :
       /\ \A p \in EntryStarts(nodes[i]) : ~DashBefore(p)
       /\ DashBefore(BeginsAt(nodes[i])) => Dropped(i)

LEMMA DashlessOnward ==
  ASSUME TypeOK, Undashed
  PROVE  /\ ~DashBefore(Onward)
         /\ At(Onward, Terminator) => ~DashBefore(Onward + 1)
<1>1. /\ text \in Seq(Token) /\ pos \in 1..(Len(text) + 1) /\ Len(text) \in Nat
      /\ Onward \in pos..(Len(text) + 1) /\ Onward \in 1..(Len(text) + 1)
  BY OnwardBounds DEF TypeOK
<1>2. \A r \in pos..(Onward - 1) : At(r, NodeSpace)
  BY <1>1, RunIsOfItsKind DEF Onward
<1>3. \A r \in pos..(Onward - 1) : ~At(r, {"/-"})
  BY <1>2 DEF At, NodeSpace, Blank
<1>4. ~DashBefore(Onward)
  BY <1>1, <1>3, DashlessRun DEF Undashed
<1>5. ASSUME At(Onward, Terminator) PROVE ~DashBefore(Onward + 1)
  <2>1. Onward + 1 \in Onward..(Len(text) + 1)
    BY <1>1, <1>5, AtBounds
  <2>2. ~At(Onward, {"/-"})
    BY <1>5 DEF At, Terminator
  <2>3. \A r \in Onward..(Onward + 1 - 1) : r = Onward
    BY <1>1
  <2>4. \A r \in Onward..(Onward + 1 - 1) : ~At(r, {"/-"})
    BY <2>2, <2>3
  <2>5. QED
    BY <1>1, <1>4, <2>1, <2>4, DashlessRun
<1>6. QED
  BY <1>4, <1>5

LEMMA DashlessEntry ==
  ASSUME TypeOK, NEW p \in 1..(Len(text) + 1), IsEntry(p)
  PROVE  ~DashBefore(EntryEnd(p))
<1>1. PICK at \in 1..Len(text) : At(at, Literal) /\ EntryEnd(p) = at + 1
  <2>1. CASE IsProperty(p)
    BY <2>1, EntryBounds, TokensAreFinite DEF IsProperty, IsKeyed, IsValue, TypeOK
  <2>2. CASE IsArgument(p)
    BY <2>2, EntryBounds, TokensAreFinite DEF IsArgument, IsValue, TypeOK
  <2>3. QED
    BY <2>1, <2>2 DEF IsEntry
<1>2. Literal \cap (LineSpace \cup {"/-"}) = {}
  BY DEF Literal, Word, LineSpace, Blank
<1>3. QED
  BY <1>1, <1>2, DashlessToken DEF TypeOK

\* What has to be shown of a step that does not end the document.
LEMMA DashlessStep ==
  ASSUME UNCHANGED text, ~DashBefore(pos'), stage' # "done",
         \A i \in DOMAIN nodes' :
           /\ \A p \in EntryStarts(nodes'[i]) : ~DashBefore(p)
           /\ DashBefore(BeginsAt(nodes'[i])) =>
                \E f \in DOMAIN open' : open'[f].node = i /\ open'[f].skip
  PROVE  Undashed'
<1>1. \A p : DashBefore(p)' <=> DashBefore(p)
  BY DEF DashBefore, At
<1>2. QED
  BY <1>1 DEF Undashed, Dropped, EntryStarts, Keys, BeginsAt, StartOf

\* Nodes that are left, or whose block is closed, begin where they began.
LEMMA DashlessKept ==
  ASSUME Undashed, UNCHANGED text, ~DashBefore(pos'), stage' # "done",
         \A i \in DOMAIN nodes' :
           /\ i \in DOMAIN nodes
           /\ nodes'[i].ty = nodes[i].ty /\ nodes'[i].name = nodes[i].name
           /\ nodes'[i].args = nodes[i].args /\ nodes'[i].props = nodes[i].props
           /\ Dropped(i) => \E f \in DOMAIN open' : open'[f].node = i /\ open'[f].skip
  PROVE  Undashed'
<1>1. \A i \in DOMAIN nodes' : /\ EntryStarts(nodes'[i]) = EntryStarts(nodes[i])
                               /\ BeginsAt(nodes'[i]) = BeginsAt(nodes[i])
  BY DEF EntryStarts, Keys, BeginsAt
<1>2. \A i \in DOMAIN nodes' :
           /\ \A p \in EntryStarts(nodes'[i]) : ~DashBefore(p)
           /\ DashBefore(BeginsAt(nodes'[i])) =>
                \E f \in DOMAIN open' : open'[f].node = i /\ open'[f].skip
  BY <1>1 DEF Undashed
<1>3. QED
  BY <1>2, DashlessStep

LEMMA DashlessInit == Init => Undashed
<1> SUFFICES ASSUME Init PROVE Undashed
  OBVIOUS
<1>1. text \in Seq(Token) /\ Len(text) \in Nat /\ DOMAIN text = 1..Len(text)
  BY TextsAssumption DEF Init
<1>2. ~DashBefore(pos)
  <2>1. CASE At(1, {"bom"})
    <3>1. 1 \in 1..Len(text) /\ pos = 2
      BY <1>1, <2>1 DEF Init, Begin, At
    <3>2. {"bom"} \cap (LineSpace \cup {"/-"}) = {}
      BY DEF LineSpace, Blank
    <3>3. ~DashBefore(1 + 1)
      BY <1>1, <2>1, <3>1, <3>2, DashlessToken
    <3>4. QED
      BY <3>1, <3>3
  <2>2. CASE ~At(1, {"bom"})
    BY <2>2 DEF Init, Begin, DashBefore
  <2>3. QED
    BY <2>1, <2>2
<1>3. QED
  BY <1>2 DEF Init, Begin, Undashed

LEMMA BeginKeepsDashless ==
  ASSUME TypeOK, Undashed, BeginNode
  PROVE  Undashed'
<1> DEFINE start == Behind(pos)
           n == [ty |-> IF At(start, {"ty"}) THEN start ELSE 0, name |-> NameAt(start),
                 args |-> <<>>, props |-> {}, parent |-> Parent, block |-> <<>>]
           f == [node |-> Len(nodes) + 1, skip |-> Dashed(pos),
                 hide |-> FALSE, brace |-> 0]
<1>1. /\ IsNode(start) /\ nodes' = Append(nodes, n) /\ open' = Append(open, f)
      /\ pos' = NameAt(start) + 1 /\ stage' = "node" /\ UNCHANGED text
  BY DEF BeginNode
<1>2. text \in Seq(Token) /\ start \in 1..(Len(text) + 1) /\ Len(text) \in Nat
  BY BehindBounds, TokensAreFinite DEF TypeOK
<1>3. NameAt(start) \in start..Len(text) /\ At(NameAt(start), Word)
  BY <1>1, <1>2, NameBounds DEF IsNode
<1>4. ~DashBefore(pos')
  <2>1. NameAt(start) \in 1..Len(text)
    BY <1>2, <1>3
  <2>2. Word \cap (LineSpace \cup {"/-"}) = {}
    BY DEF Word, LineSpace, Blank
  <2>3. QED
    BY <1>1, <1>2, <1>3, <2>1, <2>2, DashlessToken
<1>5. EntryStarts(n) = {}
  BY DEF EntryStarts, Keys
<1>6. BeginsAt(n) = start
  BY <1>2 DEF BeginsAt, StartOf, NameAt
<1>7. DashBefore(start) => Dashed(pos)
  BY DEF Behind, Undashed
<1>8. f.node = Len(nodes) + 1 /\ f.skip = Dashed(pos)
  OBVIOUS
<1> HIDE DEF n, f, start
<1>9. /\ Len(nodes) \in Nat /\ DOMAIN nodes' = 1..(Len(nodes) + 1)
      /\ DOMAIN nodes = 1..Len(nodes)
      /\ \A i \in DOMAIN nodes : nodes'[i] = nodes[i]
      /\ nodes'[Len(nodes) + 1] = n
  BY <1>1 DEF TypeOK
<1>10. /\ Len(open) \in Nat /\ DOMAIN open' = 1..(Len(open) + 1)
       /\ DOMAIN open = 1..Len(open)
       /\ \A g \in DOMAIN open : open'[g] = open[g]
       /\ open'[Len(open) + 1] = f
  BY <1>1 DEF TypeOK
<1>11. ASSUME NEW i \in DOMAIN nodes'
       PROVE  /\ \A p \in EntryStarts(nodes'[i]) : ~DashBefore(p)
              /\ DashBefore(BeginsAt(nodes'[i])) =>
                   \E g \in DOMAIN open' : open'[g].node = i /\ open'[g].skip
  <2>1. CASE i \in DOMAIN nodes
    <3>1. /\ \A p \in EntryStarts(nodes'[i]) : ~DashBefore(p)
          /\ DashBefore(BeginsAt(nodes'[i])) => Dropped(i)
      BY <1>9, <2>1 DEF Undashed
    <3>2. DOMAIN open \subseteq DOMAIN open'
      BY <1>10
    <3>3. QED
      BY <1>10, <3>1, <3>2 DEF Dropped
  <2>2. CASE i = Len(nodes) + 1
    <3>1. Len(open) + 1 \in DOMAIN open'
      BY <1>10
    <3>2. QED
      BY <1>5, <1>6, <1>7, <1>8, <1>9, <1>10, <2>2, <3>1
  <2>3. QED
    BY <1>9, <2>1, <2>2
<1>12. QED
  BY <1>1, <1>4, <1>11, DashlessStep

\* Arguments and keys begin where there is no slashdash before.
LEMMA EntryKeepsDashless ==
  ASSUME TypeOK, Undashed, stage = "node", UNCHANGED <<text, stage, open>>,
         ~DashBefore(pos'), NEW n \in Node, nodes' = [nodes EXCEPT ![Now] = n],
         n.ty = nodes[Now].ty, n.name = nodes[Now].name,
         \A p \in EntryStarts(n) : p \in EntryStarts(nodes[Now]) \/ p = Onward
  PROVE  Undashed'
<1>1. Now \in DOMAIN nodes /\ nodes \in Seq(Node)
  BY NowIsOpen DEF TypeOK
<1>2. /\ DOMAIN nodes' = DOMAIN nodes
      /\ \A i \in DOMAIN nodes : nodes'[i] = IF i = Now THEN n ELSE nodes[i]
  BY <1>1
<1>3. BeginsAt(n) = BeginsAt(nodes[Now])
  BY DEF BeginsAt
<1>4. ~DashBefore(Onward)
  BY DashlessOnward
<1>5. \A p \in EntryStarts(n) : ~DashBefore(p)
  BY <1>1, <1>4 DEF Undashed
<1>6. \A i \in DOMAIN nodes' :
        /\ \A p \in EntryStarts(nodes'[i]) : ~DashBefore(p)
        /\ DashBefore(BeginsAt(nodes'[i])) => Dropped(i)
  BY <1>2, <1>3, <1>5 DEF Undashed
<1>7. QED
  BY <1>6, DashlessStep DEF Dropped

LEMMA ArgumentKeepsDashless ==
  ASSUME TypeOK, Undashed, Argument
  PROVE  Undashed'
<1> DEFINE v == ValueFrom(Onward)
           n == [nodes[Now] EXCEPT !.args = Append(@, v)]
<1>1. /\ IsArgument(Onward) /\ pos' = EntryEnd(Onward) /\ stage = "node"
      /\ nodes' = [nodes EXCEPT ![Now] = n] /\ open # <<>>
      /\ UNCHANGED <<text, stage, open>>
  BY DEF Argument, Entry, TypeOK
<1>2. Onward \in 1..(Len(text) + 1) /\ text \in Seq(Token)
  BY OnwardBounds DEF TypeOK
<1>3. ~DashBefore(pos')
  BY <1>1, <1>2, DashlessEntry DEF IsEntry
<1>4. v \in Value /\ StartOf(v.ty, v.at) = Onward
  BY <1>2, LiteralBounds DEF ValueFrom, StartOf, LiteralAt
<1>5. nodes[Now] \in Node
  BY <1>1, NowIsOpen
<1> HIDE DEF v
<1>6. /\ n \in Node /\ n.ty = nodes[Now].ty /\ n.name = nodes[Now].name
      /\ n.props = nodes[Now].props /\ n.args = Append(nodes[Now].args, v)
  BY <1>4, <1>5, WithArgument DEF Node
<1> HIDE DEF n
<1>7. /\ nodes[Now].args \in Seq(Value)
      /\ DOMAIN n.args = 1..(Len(nodes[Now].args) + 1)
      /\ DOMAIN nodes[Now].args = 1..Len(nodes[Now].args)
      /\ \A i \in DOMAIN nodes[Now].args : n.args[i] = nodes[Now].args[i]
      /\ n.args[Len(nodes[Now].args) + 1] = v /\ Len(nodes[Now].args) \in Nat
  BY <1>4, <1>5, <1>6, AppendProperties, SMTT(20) DEF Node
<1>8. ASSUME NEW p \in EntryStarts(n)
      PROVE  p \in EntryStarts(nodes[Now]) \/ p = Onward
  <2>1. CASE p \in Keys(n)
    BY <1>6, <2>1 DEF EntryStarts, Keys
  <2>2. CASE \E i \in DOMAIN n.args : p = StartOf(n.args[i].ty, n.args[i].at)
    <3>1. PICK i \in DOMAIN n.args : p = StartOf(n.args[i].ty, n.args[i].at)
      BY <2>2
    <3>2. CASE i \in DOMAIN nodes[Now].args
      BY <1>7, <3>1, <3>2 DEF EntryStarts
    <3>3. CASE i = Len(nodes[Now].args) + 1
      BY <1>4, <1>7, <3>1, <3>3
    <3>4. QED
      BY <1>7, <3>2, <3>3
  <2>3. QED
    BY <2>1, <2>2 DEF EntryStarts
<1>9. QED
  BY <1>1, <1>3, <1>6, <1>8, EntryKeepsDashless

LEMMA SetPropertyKeepsDashless ==
  ASSUME TypeOK, Undashed, SetProperty
  PROVE  Undashed'
<1> DEFINE v == ValueFrom(ValueAt(Onward))
           n == [nodes[Now] EXCEPT !.props = Insert(@, Onward, v)]
<1>1. /\ IsProperty(Onward) /\ pos' = EntryEnd(Onward) /\ stage = "node"
      /\ nodes' = [nodes EXCEPT ![Now] = n] /\ open # <<>>
      /\ UNCHANGED <<text, stage, open>>
  BY DEF SetProperty, Entry, TypeOK
<1>2. Onward \in 1..(Len(text) + 1) /\ Onward \in Nat /\ text \in Seq(Token)
  BY OnwardBounds DEF TypeOK
<1>3. ~DashBefore(pos')
  BY <1>1, <1>2, DashlessEntry DEF IsEntry
<1>4. v \in Value /\ v.at \in Int /\ Onward < v.at
  <2>1. /\ ValueAt(Onward) \in 1..(Len(text) + 1)
        /\ LiteralAt(ValueAt(Onward)) \in (Onward + 1)..Len(text)
    BY <1>1, <1>2, EntryBounds DEF IsEntry
  <2>2. v \in Value /\ v.at = LiteralAt(ValueAt(Onward))
    BY <1>2, <2>1, LiteralBounds
  <2>3. QED
    BY <1>2, <2>1, <2>2, TokensAreFinite
<1>5. nodes[Now] \in Node
  BY <1>1, NowIsOpen
<1> HIDE DEF v
<1>6. /\ n \in Node /\ n.ty = nodes[Now].ty /\ n.name = nodes[Now].name
      /\ n.args = nodes[Now].args /\ n.props = Insert(nodes[Now].props, Onward, v)
      /\ nodes[Now].props \in SUBSET Property
  BY <1>2, <1>4, <1>5, WithProperty DEF Node
<1> HIDE DEF n
<1>7. \A q \in n.props : q.key = Onward \/ \E r \in nodes[Now].props : q.key = r.key
  BY <1>2, <1>4, <1>6, InsertIsOneOf
<1>8. \A p \in EntryStarts(n) : p \in EntryStarts(nodes[Now]) \/ p = Onward
  BY <1>6, <1>7 DEF EntryStarts, Keys
<1>9. QED
  BY <1>1, <1>3, <1>6, <1>8, EntryKeepsDashless

LEMMA BlockKeepsDashless ==
  ASSUME TypeOK, Undashed, OpenBlock
  PROVE  Undashed'
<1> DEFINE brace == Behind(Onward)
           f == [Last(open) EXCEPT !.hide = Dashed(Onward), !.brace = brace]
<1>1. open # <<>>
  BY DEF OpenBlock, TypeOK
<1>2. /\ Len(open) \in DOMAIN open /\ Last(open) = open[Len(open)]
      /\ Last(open) \in Frame /\ DOMAIN open = 1..Len(open) /\ Len(open) \in Nat
  BY <1>1, NowIsOpen DEF TypeOK
<1>3. /\ open' = [open EXCEPT ![Len(open)] = f] /\ pos' = brace + 1
      /\ At(brace, {"{"}) /\ stage' = "nodes" /\ UNCHANGED <<text, nodes>>
  BY <1>2 DEF OpenBlock, BlockAhead
<1>4. f.node = Last(open).node /\ f.skip = Last(open).skip
  BY <1>2 DEF Frame
<1>5. ~DashBefore(pos')
  <2>1. brace \in 1..Len(text) /\ text \in Seq(Token)
    BY <1>3, AtBounds DEF TypeOK
  <2>2. {"{"} \cap (LineSpace \cup {"/-"}) = {}
    BY DEF LineSpace, Blank
  <2>3. QED
    BY <1>3, <2>1, <2>2, DashlessToken
<1> HIDE DEF f
<1>6. /\ DOMAIN open' = DOMAIN open
      /\ \A g \in DOMAIN open : open'[g].node = open[g].node /\ open'[g].skip = open[g].skip
  BY <1>2, <1>3, <1>4 DEF TypeOK
<1>7. \A i \in DOMAIN nodes' :
        Dropped(i) => \E g \in DOMAIN open' : open'[g].node = i /\ open'[g].skip
  BY <1>6 DEF Dropped
<1>8. QED
  BY <1>3, <1>5, <1>7, DashlessKept

LEMMA CloseKeepsDashless ==
  ASSUME TypeOK, Undashed, CloseBlock
  PROVE  Undashed'
<1>1. /\ open # <<>> /\ pos' = pos + 1 /\ At(pos, {"}"}) /\ stage' = "closed"
      /\ UNCHANGED <<text, open>>
      /\ nodes' = IF Last(open).hide THEN SubSeq(nodes, 1, Now)
                  ELSE [nodes EXCEPT ![Now] =
                          [nodes[Now] EXCEPT !.block = <<Last(open).brace, pos>>]]
  BY DEF CloseBlock
<1>2. nodes \in Seq(Node) /\ Now \in DOMAIN nodes /\ nodes[Now] \in Node
  BY <1>1, NowIsOpen DEF TypeOK
<1>3. ~DashBefore(pos')
  <2>1. pos \in 1..Len(text) /\ text \in Seq(Token)
    BY <1>1, AtBounds DEF TypeOK
  <2>2. {"}"} \cap (LineSpace \cup {"/-"}) = {}
    BY DEF LineSpace, Blank
  <2>3. QED
    BY <1>1, <2>1, <2>2, DashlessToken
<1>4. ASSUME NEW i \in DOMAIN nodes'
      PROVE  /\ i \in DOMAIN nodes
             /\ nodes'[i].ty = nodes[i].ty /\ nodes'[i].name = nodes[i].name
             /\ nodes'[i].args = nodes[i].args /\ nodes'[i].props = nodes[i].props
  <2>1. CASE Last(open).hide
    <3>1. Now \in 0..Len(nodes)
      BY <1>2
    <3>2. nodes' = SubSeq(nodes, 1, Now)
      BY <1>1, <2>1
    <3>3. /\ DOMAIN nodes' = 1..Now
          /\ \A k \in 1..Now : k \in DOMAIN nodes /\ nodes'[k] = nodes[k]
      BY <1>2, <3>1, <3>2, Cut
    <3>4. QED
      BY <3>3
  <2>2. CASE ~Last(open).hide
    <3> DEFINE n == [nodes[Now] EXCEPT !.block = <<Last(open).brace, pos>>]
    <3>1. /\ n.ty = nodes[Now].ty /\ n.name = nodes[Now].name
          /\ n.args = nodes[Now].args /\ n.props = nodes[Now].props
      BY <1>2 DEF Node
    <3>2. nodes' = [nodes EXCEPT ![Now] = n]
      BY <1>1, <2>2
    <3> HIDE DEF n
    <3>3. /\ DOMAIN nodes' = DOMAIN nodes
          /\ \A k \in DOMAIN nodes : nodes'[k] = IF k = Now THEN n ELSE nodes[k]
      BY <1>2, <3>2
    <3>4. QED
      BY <3>1, <3>3
  <2>3. QED
    BY <2>1, <2>2
<1>5. ASSUME NEW i \in DOMAIN nodes', Dropped(i)
      PROVE  \E g \in DOMAIN open' : open'[g].node = i /\ open'[g].skip
  BY <1>1, <1>5 DEF Dropped
<1>6. QED
  BY <1>1, <1>3, <1>4, <1>5, DashlessKept

\* Only the slashdash of the node that ends is forgotten, and its node with it.
LEMMA EndKeepsDashless ==
  ASSUME TypeOK, Undashed, EndNode
  PROVE  Undashed'
<1>1. /\ open # <<>> /\ stage' = "nodes" /\ open' = SubSeq(open, 1, Len(open) - 1)
      /\ pos' = IF At(Onward, Terminator) THEN Onward + 1 ELSE Onward
      /\ nodes' = IF Last(open).skip THEN SubSeq(nodes, 1, Now - 1) ELSE nodes
      /\ UNCHANGED text
  BY DEF EndNode, CanEnd, Front, TypeOK
<1>2. /\ Len(open) \in DOMAIN open /\ Len(open) \in Nat /\ Now \in DOMAIN nodes
      /\ DOMAIN open = 1..Len(open)
      /\ Last(open) = open[Len(open)] /\ Now = open[Len(open)].node
      /\ nodes \in Seq(Node)
  BY <1>1, NowIsOpen DEF TypeOK
<1>3. ~DashBefore(pos')
  BY <1>1, DashlessOnward
<1>4. /\ DOMAIN open' = 1..(Len(open) - 1)
      /\ \A f \in 1..(Len(open) - 1) : f \in DOMAIN open /\ open'[f] = open[f]
  <2>1. Len(open) - 1 \in 0..Len(open) /\ open \in Seq(Frame)
    BY <1>2 DEF TypeOK
  <2>2. QED
    BY <1>1, <2>1, Cut
<1>5. ASSUME NEW i \in DOMAIN nodes'
      PROVE  /\ i \in DOMAIN nodes /\ nodes'[i] = nodes[i]
             /\ Last(open).skip => i # Now
  <2>1. CASE Last(open).skip
    <3>1. Now - 1 \in 0..Len(nodes) /\ nodes \in Seq(Node)
      BY <1>2
    <3> DEFINE m == Now - 1
    <3>2. m \in 0..Len(nodes) /\ nodes' = SubSeq(nodes, 1, m)
      BY <1>1, <2>1, <3>1
    <3> HIDE DEF m
    <3>3. /\ DOMAIN nodes' = 1..m
          /\ \A k \in 1..m : k \in DOMAIN nodes /\ nodes'[k] = nodes[k]
      BY <3>1, <3>2, Cut
    <3>4. \A k \in 1..m : k # Now
      BY <1>2 DEF m
    <3>5. QED
      BY <3>3, <3>4
  <2>2. CASE ~Last(open).skip
    BY <1>1, <2>2
  <2>3. QED
    BY <2>1, <2>2
<1>6. ASSUME NEW i \in DOMAIN nodes', Dropped(i)
      PROVE  \E g \in DOMAIN open' : open'[g].node = i /\ open'[g].skip
  <2>1. PICK f \in DOMAIN open : open[f].node = i /\ open[f].skip
    BY <1>6 DEF Dropped
  <2>2. f # Len(open)
    BY <1>2, <1>5, <2>1
  <2>3. f \in DOMAIN open' /\ open'[f] = open[f]
    BY <1>2, <1>4, <2>2
  <2>4. QED
    BY <2>1, <2>3
<1>7. QED
  BY <1>1, <1>3, <1>5, <1>6, DashlessKept

LEMMA NextKeepsDashless == TypeOK /\ Undashed /\ [Next]_vars => Undashed'
<1> SUFFICES ASSUME TypeOK, Undashed, [Next]_vars PROVE Undashed'
  OBVIOUS
<1>1. CASE SkipLineSpace
  <2>1. /\ pos \in 1..Len(text) /\ pos + 1 \in pos..(Len(text) + 1)
        /\ pos \in 1..(Len(text) + 1) /\ pos' = pos + 1
        /\ text \in Seq(Token)
    BY <1>1, AtBounds, TokensAreFinite DEF SkipLineSpace, TypeOK
  <2>2. ~At(pos, {"/-"})
    BY <1>1 DEF SkipLineSpace, At, LineSpace, Blank
  <2>3. \A r \in pos..(pos + 1 - 1) : r = pos
    BY <2>1
  <2>4. \A r \in pos..(pos + 1 - 1) : ~At(r, {"/-"})
    BY <2>2, <2>3
  <2>5. ~DashBefore(pos')
    BY <2>1, <2>4, DashlessRun DEF Undashed
  <2>6. /\ UNCHANGED <<text, nodes, open>> /\ stage' # "done"
    BY <1>1 DEF SkipLineSpace
  <2>7. QED
    BY <2>5, <2>6, DashlessKept DEF Dropped
<1>2. CASE BeginNode
  BY <1>2, BeginKeepsDashless
<1>3. CASE Argument
  BY <1>3, ArgumentKeepsDashless
<1>4. CASE SetProperty
  BY <1>4, SetPropertyKeepsDashless
<1>5. CASE IgnoreEntry
  <2>1. /\ IsEntry(Behind(Onward)) /\ pos' = EntryEnd(Behind(Onward))
        /\ UNCHANGED <<text, nodes, open>> /\ stage' # "done"
    BY <1>5 DEF IgnoreEntry, EntryAhead
  <2>2. ~DashBefore(pos')
    BY <2>1, OnwardBounds, DashlessEntry
  <2>3. QED
    BY <2>1, <2>2, DashlessKept DEF Dropped
<1>6. CASE OpenBlock
  BY <1>6, BlockKeepsDashless
<1>7. CASE CloseBlock
  BY <1>7, CloseKeepsDashless
<1>8. CASE EndNode
  BY <1>8, EndKeepsDashless
<1>9. CASE Finish \/ Unclosed \/ Fail \/ UNCHANGED vars
  <2>1. /\ UNCHANGED <<text, pos, nodes, open>>
        /\ stage' = "done" => open = <<>>
    BY <1>9 DEF Finish, Unclosed, Fail, vars, Undashed
  <2>2. \A p : DashBefore(p)' <=> DashBefore(p)
    BY <2>1 DEF DashBefore, At
  <2>3. QED
    BY <2>1, <2>2 DEF Undashed, Dropped, EntryStarts, Keys, BeginsAt, StartOf
<1>10. QED
  BY <1>1, <1>2, <1>3, <1>4, <1>5, <1>6, <1>7, <1>8, <1>9 DEF Next, Done

\* Of a document that has been read nothing is kept that a slashdash takes away:
\* no node, argument or property that is behind one begins there, how many
\* lines, comments or other entries that were dropped may be between them
\* (grammar.rs, prop_or_arg and nodes), for every list of tokens.
THEOREM SlashdashedIsDropped == Spec => []NothingSlashdashedIsKept
<1>1. Undashed => NothingSlashdashedIsKept
  BY DEF Undashed, Dropped, BeginsAt, NothingSlashdashedIsKept
<1>2. QED
  BY InitTypes, NextKeepsTypes, DashlessInit, NextKeepsDashless, <1>1, PTL DEF Spec

----------------------------------------------------------------------------
(***************************************************************************)
(* The braces around a node are those of its parents.                      *)
(***************************************************************************)

\* The blocks that are being read: those of all open nodes, but of the last one
\* only while nodes are read in it.
Depth  == IF stage = "nodes" THEN Len(open) ELSE Len(open) - 1
Opened == 1..Depth
Reading == stage \in {"nodes", "node", "closed"}

\* Whether p is within a block that is closed, or behind the brace of node j, if
\* its block is being read.
Shut(block, p) == block # <<>> /\ block[1] < p /\ p < block[2]
Ajar(frame, j, p) == frame.node = j /\ frame.brace < p
\* The nodes whose blocks, as far as they have been read, reach over a name.
Around == [i \in DOMAIN nodes |->
             {j \in DOMAIN nodes : \/ Shut(nodes[j].block, nodes[i].name)
                                  \/ \E f \in Opened : Ajar(open[f], j, nodes[i].name)}]

\* A block comes behind the name of its node and, if it is closed, before `end`.
BlockBehind(n, end) ==
  n.block # <<>> => /\ n.block[1] \in Nat /\ n.block[2] \in Nat
                    /\ n.name < n.block[1] /\ n.block[2] < end
Braced ==
  /\ \A i \in DOMAIN nodes : nodes[i].name < pos /\ BlockBehind(nodes[i], pos)
  /\ \A i, j \in DOMAIN nodes : i < j => nodes[i].name < nodes[j].name
  /\ \A f \in Opened :
       /\ nodes[open[f].node].name < open[f].brace /\ open[f].brace < pos
       /\ nodes[open[f].node].block = <<>>
  /\ stage = "node" => nodes[Now].block = <<>>

\* The parent of a node is the last of those whose blocks reach over its name.
Nested ==
  \A i \in DOMAIN nodes :
    /\ nodes[i].parent \in 0..(i - 1)
    /\ nodes[i].parent # 0 => nodes[i].parent \in Around[i]
    /\ \A j \in Around[i] : j <= nodes[i].parent

NInv == /\ Reading => Braced /\ Nested
        /\ ParentsAreTheBracesAround

LEMMA OpenedBounds ==
  ASSUME TypeOK, Reading
  PROVE  /\ Depth \in Nat /\ Opened \subseteq DOMAIN open
         /\ DOMAIN open = 1..Len(open) /\ Len(open) \in Nat
         /\ \A f \in Opened : open[f] \in Frame /\ open[f].brace \in Nat
                              /\ open[f].node \in DOMAIN nodes
<1>1. open \in Seq(Frame) /\ Len(open) \in Nat /\ DOMAIN open = 1..Len(open)
  BY DEF TypeOK
<1>2. stage # "nodes" => Len(open) > 0
  BY <1>1 DEF TypeOK, Reading
<1>3. Depth \in Nat /\ Depth <= Len(open)
  BY <1>1, <1>2 DEF Depth
<1>4. Opened \subseteq DOMAIN open
  BY <1>1, <1>3 DEF Opened
<1>5. \A f \in DOMAIN open : open[f] \in Frame
  BY <1>1
<1>6. \A f \in DOMAIN open : open[f].brace \in Nat
  BY <1>5 DEF Frame
<1>7. QED
  BY <1>1, <1>3, <1>4, <1>5, <1>6 DEF TypeOK

LEMMA NodeNumbers ==
  ASSUME TypeOK
  PROVE  /\ DOMAIN nodes = 1..Len(nodes) /\ Len(nodes) \in Nat /\ pos \in Nat
         /\ \A i \in DOMAIN nodes : nodes[i].name \in Nat /\ nodes[i] \in Node
<1>1. nodes \in Seq(Node)
  BY DEF TypeOK
<1>2. \A i \in DOMAIN nodes : nodes[i] \in Node
  BY <1>1
<1>3. \A i \in DOMAIN nodes : nodes[i].name \in Nat
  BY <1>2 DEF Node
<1>4. QED
  BY <1>1, <1>2, <1>3, TokensAreFinite DEF TypeOK

\* A step that adds no node keeps the parents, if the same blocks as before
\* reach over the names of the nodes that stay.
LEMMA ParentsKept ==
  ASSUME TypeOK, Nested, Len(nodes') <= Len(nodes), nodes' \in Seq(Node),
         \A i \in DOMAIN nodes' : /\ nodes'[i].parent = nodes[i].parent
                                  /\ Around'[i] = Around[i] \cap DOMAIN nodes'
  PROVE  Nested'
<1>1. /\ DOMAIN nodes = 1..Len(nodes) /\ DOMAIN nodes' = 1..Len(nodes')
      /\ Len(nodes) \in Nat /\ Len(nodes') \in Nat
  BY NodeNumbers
<1>2. DOMAIN nodes' \subseteq DOMAIN nodes
  BY <1>1
<1>3. SUFFICES ASSUME NEW i \in DOMAIN nodes'
               PROVE  /\ nodes'[i].parent \in 0..(i - 1)
                      /\ nodes'[i].parent # 0 => nodes'[i].parent \in Around'[i]
                      /\ \A j \in Around'[i] : j <= nodes'[i].parent
  BY DEF Nested
<1>4. /\ nodes[i].parent \in 0..(i - 1)
      /\ nodes[i].parent # 0 => nodes[i].parent \in Around[i]
      /\ \A j \in Around[i] : j <= nodes[i].parent
  BY <1>2 DEF Nested
<1>5. nodes[i].parent # 0 => nodes[i].parent \in DOMAIN nodes'
  BY <1>1, <1>4
<1>6. QED
  BY <1>4, <1>5

LEMMA BlockBehindKept ==
  ASSUME NEW n, NEW p \in Nat, NEW q \in Nat, p <= q, BlockBehind(n, p)
  PROVE  BlockBehind(n, q) /\ ~Shut(n.block, q)
BY DEF BlockBehind, Shut

LEMMA OneMore ==
  ASSUME NEW d \in Nat, d > 0
  PROVE  /\ 1..(d - 1) \subseteq 1..d /\ d \notin 1..(d - 1)
         /\ \A g \in 1..d : g \in 1..(d - 1) \/ g = d
OBVIOUS

LEMMA NInit == Init => NInv
<1>1. SUFFICES ASSUME Init PROVE NInv
  OBVIOUS
<1>2. nodes = <<>> /\ open = <<>> /\ stage = "nodes"
  BY <1>1 DEF Init, Begin
<1>3. DOMAIN nodes = {} /\ Opened = {}
  BY <1>2 DEF Opened, Depth
<1>4. QED
  BY <1>2, <1>3 DEF NInv, Braced, Nested, ParentsAreTheBracesAround

\* Entries and space say nothing about braces.
LEMMA QuietKeepsNesting ==
  ASSUME TypeOK, TypeOK', Braced, Nested, UNCHANGED <<stage, open>>, pos <= pos',
         Len(nodes') = Len(nodes),
         \A i \in DOMAIN nodes : /\ nodes'[i].name = nodes[i].name
                                 /\ nodes'[i].parent = nodes[i].parent
                                 /\ nodes'[i].block = nodes[i].block,
         stage = "node" => Now \in DOMAIN nodes, Reading
  PROVE  Braced' /\ Nested'
<1>1. /\ DOMAIN nodes' = DOMAIN nodes /\ pos \in Nat /\ pos' \in Nat
      /\ \A i \in DOMAIN nodes : nodes[i].name \in Nat
  BY NodeNumbers DEF TypeOK
<1>2. Opened' = Opened /\ Now' = Now
  BY DEF Opened, Depth, Now
<1>3. \A f \in Opened : open[f].node \in DOMAIN nodes /\ open[f].brace \in Nat
  BY OpenedBounds
<1>4. Braced'
  <2>1. \A i \in DOMAIN nodes' : nodes'[i].name < pos' /\ BlockBehind(nodes'[i], pos')
    <3>1. ASSUME NEW i \in DOMAIN nodes PROVE nodes'[i].name < pos' /\ BlockBehind(nodes'[i], pos')
      BY <1>1, <3>1 DEF Braced, BlockBehind
    <3>2. QED
      BY <1>1, <3>1
  <2>2. \A f \in Opened : /\ nodes'[open[f].node].name < open[f].brace /\ open[f].brace < pos'
                          /\ nodes'[open[f].node].block = <<>>
    BY <1>1, <1>3 DEF Braced
  <2>3. QED
    BY <1>1, <1>2, <2>1, <2>2 DEF Braced
<1>5. \A i \in DOMAIN nodes' : Around'[i] = Around[i] \cap DOMAIN nodes'
  <2> DEFINE Over(i, j) == \/ Shut(nodes[j].block, nodes[i].name)
                           \/ \E f \in Opened : Ajar(open[f], j, nodes[i].name)
  <2>1. \A i, j \in DOMAIN nodes : j \in Around[i] <=> Over(i, j)
    BY DEF Around
  <2>2. \A i, j \in DOMAIN nodes : j \in Around'[i] <=> Over(i, j)
    BY <1>1, <1>2 DEF Around
  <2>3. \A i \in DOMAIN nodes : Around'[i] \subseteq DOMAIN nodes /\ Around[i] \subseteq DOMAIN nodes
    BY <1>1 DEF Around
  <2> HIDE DEF Over
  <2>4. QED
    BY <1>1, <2>1, <2>2, <2>3
<1>6. QED
  BY <1>1, <1>4, <1>5, ParentsKept DEF TypeOK

\* A node that begins is within the blocks of all open nodes, and of no other.
LEMMA BeginKeepsNesting ==
  ASSUME TypeOK, Braced, Nested, BeginNode
  PROVE  Braced' /\ Nested'
<1> DEFINE start == Behind(pos)
           k == Len(nodes) + 1
           n == [ty |-> IF At(start, {"ty"}) THEN start ELSE 0, name |-> NameAt(start),
                 args |-> <<>>, props |-> {}, parent |-> Parent, block |-> <<>>]
           f == [node |-> k, skip |-> Dashed(pos), hide |-> FALSE, brace |-> 0]
<1>1. /\ IsNode(start) /\ nodes' = Append(nodes, n) /\ open' = Append(open, f)
      /\ pos' = NameAt(start) + 1 /\ stage = "nodes" /\ stage' = "node"
  BY DEF BeginNode
<1>2. /\ start \in pos..(Len(text) + 1) /\ start \in 1..(Len(text) + 1)
      /\ pos \in Nat /\ Len(text) \in Nat
  BY BehindBounds, TokensAreFinite DEF TypeOK
<1>3. NameAt(start) \in start..Len(text)
  BY <1>1, <1>2, NameBounds DEF TypeOK
<1>4. n.name \in Nat /\ pos <= n.name /\ pos' = n.name + 1 /\ n.block = <<>> /\ n.parent = Parent
  BY <1>1, <1>2, <1>3
<1>5. f.node = k
  OBVIOUS
<1> HIDE DEF n, f
<1>6. /\ DOMAIN nodes = 1..Len(nodes) /\ Len(nodes) \in Nat
      /\ \A i \in DOMAIN nodes : nodes[i].name \in Nat
  BY NodeNumbers
<1>7. /\ DOMAIN nodes' = 1..k /\ nodes'[k] = n
      /\ \A i \in DOMAIN nodes : nodes'[i] = nodes[i]
  BY <1>1, <1>6 DEF TypeOK
<1>8. /\ Len(open) \in Nat /\ DOMAIN open = 1..Len(open)
      /\ Len(open') = Len(open) + 1 /\ open'[Len(open) + 1] = f
      /\ \A g \in DOMAIN open : open'[g] = open[g]
  BY <1>1 DEF TypeOK
<1>9. Opened = DOMAIN open /\ Opened' = DOMAIN open
  BY <1>1, <1>8 DEF Opened, Depth
<1>10. \A g \in DOMAIN open : open[g].node \in DOMAIN nodes /\ open[g].brace \in Nat
  BY <1>1, <1>9, OpenedBounds DEF Reading
<1>11. Now' = k
  BY <1>5, <1>8 DEF Now, Last
<1>12. Braced'
  <2>1. ASSUME NEW i \in DOMAIN nodes'
        PROVE  nodes'[i].name < pos' /\ BlockBehind(nodes'[i], pos')
    <3>1. CASE i = k
      BY <1>4, <1>7, <3>1 DEF BlockBehind
    <3>2. CASE i \in DOMAIN nodes
      <4>1. nodes'[i] = nodes[i] /\ nodes[i].name < pos /\ BlockBehind(nodes[i], pos)
        BY <1>7, <3>2 DEF Braced
      <4>2. nodes[i].name \in Nat /\ pos' \in Nat /\ pos < pos'
        BY <1>2, <1>4, <1>6, <3>2
      <4>3. BlockBehind(nodes[i], pos')
        BY <1>2, <4>1, <4>2, BlockBehindKept
      <4>4. QED
        BY <1>2, <4>1, <4>2, <4>3
    <3>3. QED
      BY <1>6, <1>7, <3>1, <3>2
  <2>2. ASSUME NEW i \in DOMAIN nodes', NEW j \in DOMAIN nodes', i < j
        PROVE  nodes'[i].name < nodes'[j].name
    <3>1. i \in DOMAIN nodes /\ nodes'[i] = nodes[i]
      BY <1>6, <1>7, <2>2
    <3>2. CASE j = k
      BY <1>2, <1>4, <1>6, <1>7, <3>1, <3>2 DEF Braced
    <3>3. CASE j \in DOMAIN nodes
      BY <1>7, <2>2, <3>1, <3>3 DEF Braced
    <3>4. QED
      BY <1>6, <1>7, <3>2, <3>3
  <2>3. ASSUME NEW g \in DOMAIN open
        PROVE  /\ nodes'[open'[g].node].name < open'[g].brace /\ open'[g].brace < pos'
               /\ nodes'[open'[g].node].block = <<>>
    BY <1>2, <1>4, <1>7, <1>8, <1>9, <1>10, SMTT(20) DEF Braced
  <2>4. nodes'[Now'].block = <<>>
    BY <1>4, <1>7, <1>11
  <2>5. QED
    BY <1>9, <2>1, <2>2, <2>3, <2>4 DEF Braced
<1>13. Nested'
  <2>1. ASSUME NEW i \in DOMAIN nodes PROVE Around'[i] = Around[i]
    <3> DEFINE Over(j) == \/ Shut(nodes[j].block, nodes[i].name)
                          \/ \E g \in DOMAIN open : Ajar(open[g], j, nodes[i].name)
    <3>1. \A j \in DOMAIN nodes : j \in Around[i] <=> Over(j)
      BY <1>9 DEF Around
    <3>2. \A g \in Opened' : open'[g] = open[g]
      BY <1>8, <1>9
    <3>3. i \in DOMAIN nodes' /\ DOMAIN nodes \subseteq DOMAIN nodes' /\ k \in DOMAIN nodes'
      BY <1>6, <1>7
    <3>4. nodes'[i].name = nodes[i].name
      BY <1>7
    <3>5. \A j \in DOMAIN nodes' :
            j \in Around'[i] <=> \/ Shut(nodes'[j].block, nodes[i].name)
                               \/ \E g \in DOMAIN open : Ajar(open[g], j, nodes[i].name)
      BY <1>9, <3>2, <3>3, <3>4 DEF Around
    <3>6. \A j \in DOMAIN nodes : j \in Around'[i] <=> Over(j)
      BY <1>7, <3>3, <3>5
    <3>7. k \notin Around'[i]
      <4>1. ~Shut(nodes'[k].block, nodes[i].name)
        BY <1>4, <1>7 DEF Shut
      <4>2. k \notin DOMAIN nodes
        BY <1>6
      <4>3. \A g \in DOMAIN open : ~Ajar(open[g], k, nodes[i].name)
        BY <1>10, <4>2 DEF Ajar
      <4>4. QED
        BY <3>3, <3>5, <4>1, <4>3
    <3>8. \A j \in DOMAIN nodes' : j \in DOMAIN nodes \/ j = k
      BY <1>6, <1>7
    <3>9. Around'[i] \subseteq DOMAIN nodes' /\ Around[i] \subseteq DOMAIN nodes
      BY <3>3 DEF Around
    <3> HIDE DEF Over
    <3>10. QED
      BY <3>1, <3>6, <3>7, <3>8, <3>9
  <2>2. \A j \in DOMAIN nodes' : j \in Around'[k] <=> \E g \in DOMAIN open : open[g].node = j
    <3>1. k \in DOMAIN nodes' /\ nodes'[k].name = n.name
      BY <1>6, <1>7
    <3>2. ASSUME NEW j \in DOMAIN nodes' PROVE ~Shut(nodes'[j].block, n.name)
      <4>1. CASE j = k
        BY <1>4, <1>7, <4>1 DEF Shut
      <4>2. CASE j \in DOMAIN nodes
        <5>1. nodes'[j] = nodes[j] /\ BlockBehind(nodes[j], pos)
          BY <1>7, <4>2 DEF Braced
        <5>2. pos \in Nat /\ n.name \in Nat /\ pos <= n.name
          BY <1>2, <1>4
        <5>3. QED
          BY <5>1, <5>2, BlockBehindKept
      <4>3. QED
        BY <1>6, <1>7, <4>1, <4>2
    <3>3. \A g \in DOMAIN open : open'[g] = open[g] /\ open[g].brace < n.name
      <4>1. \A g \in DOMAIN open : open[g].brace < pos
        BY <1>1, <1>9 DEF Braced
      <4>2. pos \in Nat /\ n.name \in Nat /\ pos <= n.name
        BY <1>2, <1>4
      <4>3. \A g \in DOMAIN open : open[g].brace < n.name
        BY <1>10, <4>1, <4>2
      <4>4. QED
        BY <1>8, <4>3
    <3>4. \A j \in DOMAIN nodes' :
            j \in Around'[k] <=> \/ Shut(nodes'[j].block, n.name)
                               \/ \E g \in DOMAIN open : Ajar(open'[g], j, n.name)
      BY <1>9, <3>1 DEF Around
    <3>5. QED
      BY <3>2, <3>3, <3>4 DEF Ajar
  <2>3. /\ Parent \in 0..(k - 1)
        /\ Parent # 0 => \E g \in DOMAIN open : open[g].node = Parent
        /\ \A g \in DOMAIN open : open[g].node <= Parent
    <3>1. CASE open = <<>>
      BY <1>6, <1>8, <3>1 DEF Parent
    <3>2. CASE open # <<>>
      BY <1>6, <1>10, <3>2, NowIsOpen, SMTT(20) DEF Parent
    <3>3. QED
      BY <3>1, <3>2
  <2>4. Parent # 0 => Parent \in DOMAIN nodes'
    BY <1>6, <1>7, <2>3
  <2>5. Around'[k] \subseteq DOMAIN nodes'
    BY <1>6, <1>7 DEF Around
  <2>6. /\ nodes'[k].parent = Parent
        /\ Parent # 0 => Parent \in Around'[k]
        /\ \A j \in Around'[k] : j <= Parent
    BY <1>4, <1>7, <2>2, <2>3, <2>4, <2>5
  <2>7. ASSUME NEW i \in DOMAIN nodes'
        PROVE  /\ nodes'[i].parent \in 0..(i - 1)
               /\ nodes'[i].parent # 0 => nodes'[i].parent \in Around'[i]
               /\ \A j \in Around'[i] : j <= nodes'[i].parent
    <3>1. CASE i = k
      BY <2>3, <2>6, <3>1
    <3>2. CASE i \in DOMAIN nodes
      BY <1>7, <2>1, <3>2 DEF Nested
    <3>3. QED
      BY <1>6, <1>7, <3>1, <3>2
  <2>8. QED
    BY <2>7 DEF Nested
<1>14. QED
  BY <1>12, <1>13

LEMMA OpenKeepsNesting ==
  ASSUME TypeOK, Braced, Nested, OpenBlock
  PROVE  Braced' /\ Nested'
<1> DEFINE brace == Behind(Onward)
           f == [Last(open) EXCEPT !.hide = Dashed(Onward), !.brace = brace]
           d == Len(open)
<1>1. stage = "node" /\ open # <<>>
  BY DEF OpenBlock, TypeOK
<1>2. /\ d \in DOMAIN open /\ d \in Nat /\ DOMAIN open = 1..d
      /\ Last(open) = open[d] /\ Last(open) \in Frame
      /\ Now \in DOMAIN nodes /\ Now = open[d].node
      /\ \A g \in DOMAIN open : g # d => open[g].node < Now
  BY <1>1, NowIsOpen DEF TypeOK
<1>3. /\ open' = [open EXCEPT ![d] = f] /\ pos' = brace + 1
      /\ stage' = "nodes" /\ UNCHANGED nodes
  BY <1>2 DEF OpenBlock
<1>4. brace \in Nat /\ pos <= brace /\ pos \in Nat
  BY OnwardBounds
<1> HIDE DEF brace
<1>5. f.node = open[d].node /\ f.brace = brace
  BY <1>2 DEF Frame
<1> HIDE DEF f
<1>6. /\ Len(open') = d /\ open'[d] = f
      /\ \A g \in 1..(d - 1) : open'[g] = open[g]
  <2>1. open \in Seq(Frame)
    BY DEF TypeOK
  <2>2. QED
    BY <1>2, <1>3, <2>1
<1>7. /\ Opened = 1..(d - 1) /\ Opened' = 1..d
      /\ 1..(d - 1) \subseteq 1..d /\ \A g \in 1..d : g \in 1..(d - 1) \/ g = d
  <2>1. stage # "nodes" /\ stage' = "nodes" /\ Len(open') = d
    <3>1. stage # "nodes"
      BY <1>1
    <3>2. QED
      BY <1>3, <1>6, <3>1, Zenon
  <2>2. d \in Nat /\ d > 0
    BY <1>2
  <2>3. /\ 1..(d - 1) \subseteq 1..d
        /\ \A g \in 1..d : g \in 1..(d - 1) \/ g = d
    BY <2>2, OneMore
  <2>4. Depth = d - 1
    BY <2>1, Zenon DEF Depth
  <2>5. Depth' = d
    BY <2>1, Zenon DEF Depth
  <2>6. Opened = 1..(d - 1) /\ Opened' = 1..d
    BY <2>4, <2>5, Zenon DEF Opened
  <2>7. QED
    BY <2>3, <2>6, Zenon
<1>8. /\ DOMAIN nodes = 1..Len(nodes) /\ Len(nodes) \in Nat
      /\ \A i \in DOMAIN nodes : nodes[i].name \in Nat /\ nodes[i].name < pos
  BY NodeNumbers DEF Braced
<1>9. \A g \in Opened : open[g].node \in DOMAIN nodes /\ open[g].brace \in Nat
  BY <1>1, OpenedBounds DEF Reading
<1>10. Braced'
  <2>1. ASSUME NEW i \in DOMAIN nodes' PROVE nodes'[i].name < pos' /\ BlockBehind(nodes'[i], pos')
    BY <1>3, <1>4, <1>8 DEF Braced, BlockBehind
  <2>2. ASSUME NEW g \in Opened'
        PROVE  /\ nodes'[open'[g].node].name < open'[g].brace /\ open'[g].brace < pos'
               /\ nodes'[open'[g].node].block = <<>>
    <3>1. CASE g = d
      <4>1. open'[g].node = Now /\ open'[g].brace = brace
        BY <1>2, <1>5, <1>6, <3>1
      <4>2. nodes[Now].name < brace
        BY <1>2, <1>4, <1>8
      <4>3. nodes[Now].block = <<>>
        BY <1>1 DEF Braced
      <4>4. QED
        BY <1>3, <1>4, <4>1, <4>2, <4>3
    <3>2. CASE g \in 1..(d - 1)
      <4>1. open'[g] = open[g] /\ g \in Opened
        BY <1>6, <1>7, <3>2
      <4>2. /\ nodes[open[g].node].name < open[g].brace /\ open[g].brace < pos
            /\ nodes[open[g].node].block = <<>>
        BY <4>1 DEF Braced
      <4>3. open[g].brace < pos'
        BY <1>3, <1>4, <1>9, <4>1, <4>2
      <4>4. QED
        BY <1>3, <4>1, <4>2, <4>3
    <3>3. QED
      BY <1>7, <3>1, <3>2
  <2>3. QED
    BY <1>3, <2>1, <2>2 DEF Braced
<1>11. \A i \in DOMAIN nodes' : Around'[i] = Around[i] \cap DOMAIN nodes'
  <2>1. SUFFICES ASSUME NEW i \in DOMAIN nodes PROVE Around'[i] = Around[i]
    BY <1>3 DEF Around
  <2>2. \A j \in DOMAIN nodes :
          (\E g \in Opened' : Ajar(open'[g], j, nodes[i].name))
            <=> \E g \in Opened : Ajar(open[g], j, nodes[i].name)
    <3>1. \A j \in DOMAIN nodes : ~Ajar(open'[d], j, nodes[i].name)
      BY <1>4, <1>5, <1>6, <1>8 DEF Ajar
    <3> HIDE DEF d
    <3>2. QED
      BY <1>6, <1>7, <3>1
  <2>3. QED
    BY <1>3, <2>2 DEF Around
<1>12. Len(nodes') <= Len(nodes) /\ nodes' \in Seq(Node)
  BY <1>3, <1>8 DEF TypeOK
<1>13. QED
  BY <1>3, <1>10, <1>11, <1>12, ParentsKept

LEMMA OpenedNodes == TypeOK /\ Reading => \A f \in Opened : open[f].node \in DOMAIN nodes
BY OpenedBounds

\* The last nodes are dropped, and blocks that began behind those that stay.
LEMMA DropKeepsNesting ==
  ASSUME TypeOK, TypeOK', Reading, Braced, Nested, stage' \in {"nodes", "closed"},
         pos <= pos', Len(nodes') <= Len(nodes),
         \A i \in DOMAIN nodes' : nodes'[i] = nodes[i],
         Opened' \subseteq Opened, \A f \in Opened' : open'[f] = open[f],
         \A f \in Opened : f \in Opened' \/ \A i \in DOMAIN nodes' :
                                                ~(open[f].brace < nodes[i].name)
  PROVE  Braced' /\ Nested'
<1>1. /\ DOMAIN nodes' \subseteq DOMAIN nodes /\ pos \in Nat /\ pos' \in Nat
      /\ \A i \in DOMAIN nodes : nodes[i].name \in Nat
  <2>1. /\ DOMAIN nodes' = 1..Len(nodes') /\ Len(nodes') \in Nat /\ pos' \in Nat
    BY NodeNumbers DEF TypeOK
  <2>2. QED
    BY <2>1, NodeNumbers
<1>2. \A f \in Opened : open[f].node \in DOMAIN nodes /\ open[f].brace \in Nat
  BY OpenedBounds
<1>3. \A f \in Opened' : open[f].node \in DOMAIN nodes'
  <2>1. Reading'
    BY DEF Reading
  <2>2. \A f \in Opened' : open'[f].node \in DOMAIN nodes'
    <3>1. (TypeOK /\ Reading => \A f \in Opened : open[f].node \in DOMAIN nodes)'
      BY OpenedNodes, PTL
    <3>2. QED
      BY <2>1, <3>1
  <2>3. QED
    BY <2>2
<1>4. Braced'
  <2>1. ASSUME NEW i \in DOMAIN nodes'
        PROVE  nodes'[i].name < pos' /\ BlockBehind(nodes'[i], pos')
    <3>1. nodes'[i] = nodes[i] /\ nodes[i].name < pos /\ BlockBehind(nodes[i], pos)
      BY <1>1 DEF Braced
    <3>2. BlockBehind(nodes[i], pos')
      BY <1>1, <3>1, BlockBehindKept
    <3>3. QED
      BY <1>1, <3>1, <3>2
  <2>2. ASSUME NEW f \in Opened'
        PROVE  /\ nodes'[open'[f].node].name < open'[f].brace /\ open'[f].brace < pos'
               /\ nodes'[open'[f].node].block = <<>>
    <3>1. /\ open'[f] = open[f] /\ f \in Opened
          /\ nodes'[open[f].node] = nodes[open[f].node]
      BY <1>3
    <3>2. /\ nodes[open[f].node].name < open[f].brace /\ open[f].brace < pos
          /\ nodes[open[f].node].block = <<>>
      BY <3>1 DEF Braced
    <3>3. open[f].brace < pos'
      BY <1>1, <1>2, <3>1, <3>2
    <3>4. QED
      BY <3>1, <3>2, <3>3
  <2>3. \A i, j \in DOMAIN nodes' : i < j => nodes'[i].name < nodes'[j].name
    BY <1>1 DEF Braced
  <2>4. stage' # "node"
    OBVIOUS
  <2>5. QED
    BY <2>1, <2>2, <2>3, <2>4 DEF Braced
<1>5. \A i \in DOMAIN nodes' : /\ nodes'[i].parent = nodes[i].parent
                               /\ Around'[i] = Around[i] \cap DOMAIN nodes'
  <2>1. SUFFICES ASSUME NEW i \in DOMAIN nodes'
                 PROVE  Around'[i] = Around[i] \cap DOMAIN nodes'
    OBVIOUS
  <2>2. i \in DOMAIN nodes /\ nodes'[i] = nodes[i]
    BY <1>1
  <2>3. \A j \in DOMAIN nodes' :
          (\E f \in Opened' : Ajar(open'[f], j, nodes[i].name))
            <=> \E f \in Opened : Ajar(open[f], j, nodes[i].name)
    BY DEF Ajar
  <2>4. \A j \in DOMAIN nodes' : j \in DOMAIN nodes /\ nodes'[j] = nodes[j]
    BY <1>1
  <2>5. \A j \in DOMAIN nodes' :
          j \in Around[i] <=> \/ Shut(nodes[j].block, nodes[i].name)
                            \/ \E f \in Opened : Ajar(open[f], j, nodes[i].name)
    BY <2>2, <2>4 DEF Around
  <2>6. \A j \in DOMAIN nodes' :
          j \in Around'[i] <=> \/ Shut(nodes'[j].block, nodes'[i].name)
                             \/ \E f \in Opened' : Ajar(open'[f], j, nodes'[i].name)
    BY DEF Around
  <2>7. \A j \in DOMAIN nodes' : j \in Around'[i] <=> j \in Around[i]
    BY <2>2, <2>3, <2>4, <2>5, <2>6
  <2>8. Around'[i] \subseteq DOMAIN nodes'
    BY DEF Around
  <2>9. QED
    BY <2>7, <2>8
<1>6. nodes' \in Seq(Node)
  BY DEF TypeOK
<1>7. QED
  BY <1>4, <1>5, <1>6, ParentsKept

LEMMA CloseKeepsNesting ==
  ASSUME TypeOK, Braced, Nested, CloseBlock
  PROVE  Braced' /\ Nested'
<1> DEFINE d == Len(open)
<1>1. /\ open # <<>> /\ stage' = "closed" /\ pos' = pos + 1 /\ stage = "nodes"
      /\ UNCHANGED <<text, open, error>>
      /\ nodes' = IF Last(open).hide THEN SubSeq(nodes, 1, Now)
                  ELSE [nodes EXCEPT ![Now] =
                          [nodes[Now] EXCEPT !.block = <<Last(open).brace, pos>>]]
  <2>1. open # <<>> /\ stage = "nodes" /\ stage' = "closed"
    BY Zenon DEF CloseBlock
  <2>2. pos' = pos + 1 /\ UNCHANGED <<text, open, error>>
    BY Zenon DEF CloseBlock
  <2>3. nodes' = IF Last(open).hide THEN SubSeq(nodes, 1, Now)
                 ELSE [nodes EXCEPT ![Now] =
                         [nodes[Now] EXCEPT !.block = <<Last(open).brace, pos>>]]
    BY Zenon DEF CloseBlock
  <2>4. QED
    BY <2>1, <2>2, <2>3, Zenon
<1>2. /\ d \in DOMAIN open /\ d \in Nat /\ DOMAIN open = 1..d /\ d > 0
      /\ Len(open) = d /\ Len(open') = d
      /\ Last(open) = open[d] /\ Last(open) \in Frame
      /\ Now \in DOMAIN nodes /\ Now = open[d].node /\ nodes[Now] \in Node
      /\ \A g \in DOMAIN open : g # d => open[g].node < Now
  <2>1. open # <<>> /\ open' = open
    BY <1>1
  <2>2. DOMAIN open = 1..d
    BY DEF TypeOK
  <2> HIDE DEF Now
  <2>3. /\ d \in DOMAIN open /\ d \in Nat
        /\ Last(open) = open[d] /\ Last(open) \in Frame
        /\ Now \in DOMAIN nodes /\ Now = open[d].node /\ nodes[Now] \in Node
        /\ \A g \in DOMAIN open : g # d => open[g].node < Now
    BY <2>1, NowIsOpen
  <2>4. d > 0
    BY <2>2, <2>3
  <2>5. QED
    BY <2>1, <2>2, <2>3, <2>4, Zenon
<1> HIDE DEF d
<1>3. /\ Opened = 1..d /\ Opened' = 1..(d - 1)
      /\ 1..(d - 1) \subseteq 1..d /\ \A g \in 1..d : g \in 1..(d - 1) \/ g = d
  <2>1. stage' # "nodes"
    BY <1>1
  <2>2. Depth = d
    BY <1>1, <1>2, Zenon DEF Depth
  <2>3. Depth' = d - 1
    BY <1>2, <2>1, Zenon DEF Depth
  <2>4. Opened = 1..d /\ Opened' = 1..(d - 1)
    BY <2>2, <2>3, Zenon DEF Opened
  <2>5. /\ 1..(d - 1) \subseteq 1..d
        /\ \A g \in 1..d : g \in 1..(d - 1) \/ g = d
    BY <1>2, OneMore
  <2>6. QED
    BY <2>4, <2>5, Zenon
<1>4. /\ DOMAIN nodes = 1..Len(nodes) /\ Len(nodes) \in Nat /\ pos \in Nat /\ pos' = pos + 1
      /\ pos <= pos' /\ pos' \in Nat
      /\ \A i \in DOMAIN nodes : nodes[i].name \in Nat
  BY <1>1, NodeNumbers
<1>5. /\ \A g \in Opened : open[g].node \in DOMAIN nodes /\ open[g].brace \in Nat
      /\ open[d].brace \in Nat
  BY <1>1, <1>2, <1>3, OpenedBounds DEF Reading
<1>6. /\ nodes[Now].block = <<>> /\ nodes[Now].name < open[d].brace
      /\ open[d].brace < pos
  <2>1. d \in Opened
    BY <1>2, <1>3
  <2>2. /\ nodes[open[d].node].name < open[d].brace /\ open[d].brace < pos
        /\ nodes[open[d].node].block = <<>>
    BY <2>1 DEF Braced
  <2>3. QED
    BY <1>2, <2>2
<1>7. CASE Last(open).hide
  <2>1. /\ Len(nodes') = Now /\ DOMAIN nodes' = 1..Now
        /\ \A i \in 1..Now : i \in DOMAIN nodes /\ nodes'[i] = nodes[i]
    <3>1. nodes \in Seq(Node) /\ Now \in 0..Len(nodes)
      BY <1>2, <1>4 DEF TypeOK
    <3>2. nodes' = SubSeq(nodes, 1, Now)
      BY <1>1, <1>7
    <3>3. QED
      BY <3>1, <3>2, Cut
  <2>2. \A i \in DOMAIN nodes' : ~(open[d].brace < nodes[i].name)
    <3>1. ASSUME NEW i \in 1..Now PROVE nodes[i].name <= nodes[Now].name
      <4>1. i \in DOMAIN nodes /\ (i = Now \/ i < Now)
        BY <1>2, <1>4, <2>1
      <4>2. i < Now => nodes[i].name < nodes[Now].name
        BY <1>2, <4>1 DEF Braced
      <4>3. QED
        BY <1>2, <1>4, <4>1, <4>2
    <3>2. \A i \in 1..Now : nodes[i].name \in Nat
      BY <1>4, <2>1
    <3>3. nodes[Now].name \in Nat
      BY <1>2, <1>4
    <3>4. QED
      BY <1>5, <1>6, <2>1, <3>1, <3>2, <3>3
  <2>3. TypeOK' /\ stage' \in {"nodes", "closed"} /\ Reading
    BY <1>1, CloseKeepsTypes DEF Reading
  <2>4. Len(nodes') <= Len(nodes) /\ \A i \in DOMAIN nodes' : nodes'[i] = nodes[i]
    BY <1>2, <1>4, <2>1
  <2>5. /\ Opened' \subseteq Opened /\ \A f \in Opened' : open'[f] = open[f]
        /\ \A f \in Opened : f \in Opened' \/ \A i \in DOMAIN nodes' :
                                                 ~(open[f].brace < nodes[i].name)
    BY <1>1, <1>3, <2>2
  <2>6. QED
    BY <1>4, <2>3, <2>4, <2>5, DropKeepsNesting
<1>8. CASE ~Last(open).hide
  <2> DEFINE n == [nodes[Now] EXCEPT !.block = <<open[d].brace, pos>>]
  <2>1. /\ n \in Node /\ n.name = nodes[Now].name /\ n.parent = nodes[Now].parent
        /\ n.block # <<>> /\ n.block[1] = open[d].brace /\ n.block[2] = pos
    <3>1. <<open[d].brace, pos>> \in Seq(Nat)
      BY <1>4, <1>5
    <3>2. QED
      BY <1>2, <3>1 DEF Node
  <2>2. nodes' = [nodes EXCEPT ![Now] = n] /\ nodes \in Seq(Node)
    BY <1>1, <1>2, <1>8 DEF TypeOK
  <2> HIDE DEF n
  <2>3. /\ nodes' \in Seq(Node) /\ Len(nodes') = Len(nodes) /\ DOMAIN nodes' = DOMAIN nodes
        /\ \A i \in DOMAIN nodes : nodes'[i] = IF i = Now THEN n ELSE nodes[i]
    BY <1>2, <2>1, <2>2, Put
  <2>4. \A i \in DOMAIN nodes : /\ nodes'[i].name = nodes[i].name
                                /\ nodes'[i].parent = nodes[i].parent
    BY <2>1, <2>3
  <2>5. Braced'
    <3>1. ASSUME NEW i \in DOMAIN nodes
          PROVE  nodes'[i].name < pos' /\ BlockBehind(nodes'[i], pos')
      <4>1. nodes[i].name < pos /\ BlockBehind(nodes[i], pos)
        BY DEF Braced
      <4>2. nodes'[i].name < pos'
        BY <1>4, <2>4, <4>1
      <4>3. CASE i = Now
        <5>1. nodes'[i] = n
          BY <1>2, <2>3, <4>3
        <5>2. BlockBehind(n, pos')
          BY <1>4, <1>5, <1>6, <2>1 DEF BlockBehind
        <5>3. QED
          BY <4>2, <5>1, <5>2
      <4>4. CASE i # Now
        <5>1. nodes'[i] = nodes[i]
          BY <2>3, <4>4
        <5>2. BlockBehind(nodes[i], pos')
          BY <1>4, <4>1, BlockBehindKept
        <5>3. QED
          BY <4>2, <5>1, <5>2
      <4>5. QED
        BY <4>3, <4>4
    <3>2. \A i, j \in DOMAIN nodes' : i < j => nodes'[i].name < nodes'[j].name
      BY <2>3, <2>4 DEF Braced
    <3>3. ASSUME NEW g \in Opened'
          PROVE  /\ nodes'[open'[g].node].name < open'[g].brace /\ open'[g].brace < pos'
                 /\ nodes'[open'[g].node].block = <<>>
      <4>1. g \in Opened /\ g \in DOMAIN open /\ g # d /\ open'[g] = open[g]
        BY <1>1, <1>2, <1>3
      <4>2. open[g].node # Now /\ open[g].node \in DOMAIN nodes
        BY <1>2, <1>4, <1>5, <4>1
      <4>3. nodes'[open[g].node] = nodes[open[g].node]
        BY <2>3, <4>2
      <4>4. /\ nodes[open[g].node].name < open[g].brace /\ open[g].brace < pos
            /\ nodes[open[g].node].block = <<>>
        BY <4>1 DEF Braced
      <4>5. open[g].brace < pos'
        BY <1>4, <1>5, <4>1, <4>4
      <4>6. QED
        BY <4>1, <4>3, <4>4, <4>5
    <3>4. stage' # "node"
      BY <1>1
    <3>5. QED
      BY <2>3, <3>1, <3>2, <3>3, <3>4 DEF Braced
  <2>6. ASSUME NEW i \in DOMAIN nodes, NEW j \in DOMAIN nodes
        PROVE  j \in Around'[i] <=> j \in Around[i]
    <3> DEFINE p == nodes[i].name
               Below == \E g \in 1..(d - 1) : Ajar(open[g], j, p)
    <3>1. j \in Around[i] <=> Shut(nodes[j].block, p) \/ Below \/ Ajar(open[d], j, p)
      <4>1. j \in Around[i] <=> \/ Shut(nodes[j].block, p)
                              \/ \E g \in Opened : Ajar(open[g], j, p)
        BY DEF Around
      <4>2. (\E g \in Opened : Ajar(open[g], j, p)) <=> Below \/ Ajar(open[d], j, p)
        BY <1>2, <1>3
      <4>3. QED
        BY <4>1, <4>2
    <3>2. j \in Around'[i] <=> Shut(nodes'[j].block, p) \/ Below
      BY <1>1, <1>3, <2>3, <2>4 DEF Around
    <3>3. p \in Nat /\ p < pos
      BY <1>4 DEF Braced
    <3> HIDE DEF Below, p
    <3>4. CASE j = Now
      <4>1. nodes'[j] = n /\ nodes[j].block = <<>>
        BY <1>2, <1>6, <2>3, <3>4
      <4>2. Shut(n.block, p) <=> open[d].brace < p
        BY <2>1, <3>3 DEF Shut
      <4>3. Ajar(open[d], j, p) <=> open[d].brace < p
        BY <1>2, <3>4 DEF Ajar
      <4>4. ~Shut(nodes[j].block, p)
        BY <4>1 DEF Shut
      <4>5. QED
        BY <3>1, <3>2, <4>1, <4>2, <4>3, <4>4
    <3>5. CASE j # Now
      <4>1. nodes'[j] = nodes[j]
        BY <2>3, <3>5
      <4>2. ~Ajar(open[d], j, p)
        BY <1>2, <3>5 DEF Ajar
      <4>3. QED
        BY <3>1, <3>2, <4>1, <4>2
    <3>6. QED
      BY <3>4, <3>5
  <2>7. \A i \in DOMAIN nodes' : Around'[i] = Around[i] \cap DOMAIN nodes'
    <3>1. \A i \in DOMAIN nodes : /\ Around'[i] \subseteq DOMAIN nodes
                                  /\ Around[i] \subseteq DOMAIN nodes
      BY <2>3 DEF Around
    <3>2. QED
      BY <2>3, <2>6, <3>1
  <2>8. Nested'
    BY <1>4, <2>3, <2>4, <2>7, ParentsKept
  <2>9. QED
    BY <2>5, <2>8
<1>9. QED
  BY <1>7, <1>8

LEMMA EndKeepsNesting ==
  ASSUME TypeOK, Braced, Nested, EndNode
  PROVE  Braced' /\ Nested'
<1> DEFINE d == Len(open)
<1>1. /\ open # <<>> /\ stage \in {"node", "closed"} /\ stage' = "nodes"
      /\ open' = SubSeq(open, 1, d - 1)
      /\ pos' = IF At(Onward, Terminator) THEN Onward + 1 ELSE Onward
      /\ nodes' = IF Last(open).skip THEN SubSeq(nodes, 1, Now - 1) ELSE nodes
  BY DEF EndNode, CanEnd, Front, TypeOK
<1>2. /\ d \in DOMAIN open /\ d \in Nat /\ Now \in DOMAIN nodes /\ DOMAIN open = 1..d
  BY <1>1, NowIsOpen DEF TypeOK
<1>3. /\ DOMAIN nodes = 1..Len(nodes) /\ Len(nodes) \in Nat /\ pos \in Nat
      /\ \A i \in DOMAIN nodes : nodes[i].name \in Nat
  BY NodeNumbers
<1>4. d - 1 \in 0..Len(open) /\ Now - 1 \in 0..Len(nodes)
  BY <1>2, <1>3
<1>5. Len(open') = d - 1 /\ \A f \in 1..(d - 1) : open'[f] = open[f]
  BY <1>1, <1>4, Cut DEF TypeOK
<1> HIDE DEF d
<1>6. Opened = 1..(d - 1) /\ Opened' = 1..(d - 1)
  <2>1. stage # "nodes" /\ Len(open) = d
    BY <1>1 DEF d
  <2>2. Depth = d - 1
    BY <2>1, Zenon DEF Depth
  <2>3. Depth' = d - 1
    BY <1>1, <1>5, Zenon DEF Depth
  <2>4. QED
    BY <2>2, <2>3, Zenon DEF Opened
<1>7. Len(nodes') <= Len(nodes) /\ \A i \in DOMAIN nodes' : nodes'[i] = nodes[i]
  <2>1. CASE Last(open).skip
    <3>1. /\ Len(nodes') = Now - 1 /\ DOMAIN nodes' = 1..(Now - 1)
          /\ \A i \in 1..(Now - 1) : nodes'[i] = nodes[i]
      BY <1>1, <1>4, <2>1, Cut DEF TypeOK
    <3>2. QED
      BY <1>2, <1>3, <3>1
  <2>2. CASE ~Last(open).skip
    BY <1>1, <1>3, <2>2
  <2>3. QED
    BY <2>1, <2>2
<1>8. pos <= pos'
  BY <1>1, <1>3, OnwardBounds
<1>9. TypeOK' /\ Reading /\ stage' \in {"nodes", "closed"}
  BY <1>1, EndKeepsTypes DEF Reading
<1>10. QED
  BY <1>5, <1>6, <1>7, <1>8, <1>9, DropKeepsNesting

\* Behind the last node every block is closed.
LEMMA FinishedIsNested ==
  ASSUME TypeOK, Braced, Nested, Finish
  PROVE  ParentsAreTheBracesAround'
<1>1. UNCHANGED nodes /\ stage = "nodes" /\ open = <<>>
  BY DEF Finish
<1>2. Opened = {}
  <2>1. Depth = 0
    BY <1>1 DEF Depth
  <2>2. QED
    BY <2>1 DEF Opened
<1>3. SUFFICES ASSUME NEW i \in DOMAIN nodes
               PROVE  nodes[i].parent = Max({0} \cup {j \in DOMAIN nodes :
                        /\ nodes[j].block # <<>>
                        /\ nodes[j].block[1] < nodes[i].name
                        /\ nodes[i].name < nodes[j].block[2]})
  BY <1>1 DEF ParentsAreTheBracesAround
<1> DEFINE S == {0} \cup {j \in DOMAIN nodes :
                   /\ nodes[j].block # <<>>
                   /\ nodes[j].block[1] < nodes[i].name
                   /\ nodes[i].name < nodes[j].block[2]}
<1>4. S = {0} \cup Around[i]
  BY <1>2 DEF Around, Shut
<1>5. /\ nodes[i].parent \in 0..(i - 1)
      /\ nodes[i].parent # 0 => nodes[i].parent \in Around[i]
      /\ \A j \in Around[i] : j <= nodes[i].parent
  BY DEF Nested
<1>6. i \in Nat /\ \A j \in Around[i] : j \in Nat
  BY NodeNumbers DEF Around
<1>7. /\ nodes[i].parent \in S /\ nodes[i].parent \in Nat
      /\ \A j \in S : j \in Nat /\ j <= nodes[i].parent
  BY <1>4, <1>5, <1>6
<1> HIDE DEF S
<1>8. \A m \in S : (\A j \in S : m >= j) <=> m = nodes[i].parent
  BY <1>7
<1>9. Max(S) = nodes[i].parent
  BY <1>7, <1>8 DEF Max
<1>10. QED
  BY <1>9 DEF S

\* An argument or a property is read into a node that keeps its name, its parent
\* and its block.
LEMMA EntryKeepsNesting ==
  ASSUME TypeOK, Braced, Nested, Argument \/ SetProperty
  PROVE  Braced' /\ Nested'
<1>1. PICK n : Reads(n) /\ pos' \in (pos + 1)..(Len(text) + 1)
  BY ArgumentReads, SetPropertyReads
<1>2. stage = "node" /\ open # <<>> /\ UNCHANGED <<stage, open>>
  BY DEF Argument, SetProperty, Entry, TypeOK
<1>3. Now \in DOMAIN nodes /\ nodes[Now] \in Node
  BY <1>2, NowIsOpen
<1>4. nodes'[Now].parent = nodes[Now].parent /\ nodes'[Now].block = nodes[Now].block
  <2>1. CASE Argument
    <3>1. nodes' = [nodes EXCEPT ![Now] =
                      [nodes[Now] EXCEPT !.args = Append(nodes[Now].args, ValueFrom(Onward))]]
      BY <2>1 DEF Argument
    <3> DEFINE new == Append(nodes[Now].args, ValueFrom(Onward))
    <3> HIDE DEF new
    <3>2. nodes'[Now] = [nodes[Now] EXCEPT !.args = new]
      BY <1>3, <3>1 DEF new
    <3>3. QED
      BY <1>3, <3>2 DEF Node
  <2>2. CASE SetProperty
    <3> DEFINE new == Insert(nodes[Now].props, Onward, ValueFrom(ValueAt(Onward)))
    <3>1. nodes' = [nodes EXCEPT ![Now] = [nodes[Now] EXCEPT !.props = new]]
      BY <2>2 DEF SetProperty
    <3> HIDE DEF new
    <3>2. nodes'[Now] = [nodes[Now] EXCEPT !.props = new]
      BY <1>3, <3>1
    <3>3. QED
      BY <1>3, <3>2 DEF Node
  <2>3. QED
    BY <2>1, <2>2
<1>5. /\ n \in Node /\ n.name = nodes[Now].name /\ nodes \in Seq(Node)
      /\ nodes' = [nodes EXCEPT ![Now] = n]
  BY <1>1 DEF Reads, TypeOK
<1>6. /\ Len(nodes') = Len(nodes) /\ DOMAIN nodes' = DOMAIN nodes
      /\ \A i \in DOMAIN nodes : nodes'[i] = IF i = Now THEN n ELSE nodes[i]
  BY <1>3, <1>5, Put
<1>7. \A i \in DOMAIN nodes : /\ nodes'[i].name = nodes[i].name
                              /\ nodes'[i].parent = nodes[i].parent
                              /\ nodes'[i].block = nodes[i].block
  BY <1>4, <1>5, <1>6
<1>8. pos <= pos'
  BY <1>1, NodeNumbers
<1>9. TypeOK' /\ Reading
  BY <1>2, NextKeepsTypes DEF Next, Reading
<1>10. QED
  BY <1>2, <1>3, <1>6, <1>7, <1>8, <1>9, QuietKeepsNesting

LEMMA NextKeepsNesting == TypeOK /\ NInv /\ [Next]_vars => NInv'
<1> SUFFICES ASSUME TypeOK, NInv, [Next]_vars PROVE NInv'
  OBVIOUS
<1>1. TypeOK'
  BY NextKeepsTypes
<1>2. ASSUME Reading => Braced' /\ Nested', Reading, stage' # "done" PROVE NInv'
  BY <1>2 DEF NInv, ParentsAreTheBracesAround
<1>3. ASSUME UNCHANGED <<stage, open, nodes>>, Reading, pos <= pos'
      PROVE  NInv'
  <2>1. stage = "node" => Now \in DOMAIN nodes
    BY NowIsOpen DEF TypeOK
  <2>2. Braced' /\ Nested'
    BY <1>1, <1>3, <2>1, QuietKeepsNesting DEF NInv
  <2>3. QED
    BY <1>2, <1>3, <2>2 DEF Reading
<1>4. CASE SkipLineSpace
  BY <1>3, <1>4, NodeNumbers DEF SkipLineSpace, Reading
<1>5. CASE BeginNode
  <2>1. Reading /\ stage' # "done"
    BY <1>5 DEF BeginNode, Reading
  <2>2. QED
    BY <1>2, <1>5, <2>1, BeginKeepsNesting DEF NInv
<1>6. CASE Argument \/ SetProperty
  <2>1. Reading /\ stage' # "done"
    BY <1>6 DEF Argument, SetProperty, Entry, Reading
  <2>2. QED
    BY <1>2, <1>6, <2>1, EntryKeepsNesting DEF NInv
<1>7. CASE IgnoreEntry
  <2>1. /\ IsEntry(Behind(Onward)) /\ pos' = EntryEnd(Behind(Onward))
        /\ UNCHANGED <<stage, open, nodes>> /\ Reading
    BY <1>7 DEF IgnoreEntry, EntryAhead, Reading
  <2>2. pos' \in (Behind(Onward) + 1)..(Len(text) + 1)
    BY <2>1, OnwardBounds, EntryBounds DEF TypeOK
  <2>3. QED
    BY <1>3, <2>1, <2>2, OnwardBounds
<1>8. CASE OpenBlock
  <2>1. Reading /\ stage' # "done"
    BY <1>8 DEF OpenBlock, Reading
  <2>2. QED
    BY <1>2, <1>8, <2>1, OpenKeepsNesting DEF NInv
<1>9. CASE CloseBlock
  <2>1. stage = "nodes" /\ stage' = "closed"
    BY <1>9, Zenon DEF CloseBlock
  <2>2. Reading /\ stage' # "done"
    BY <2>1 DEF Reading
  <2>3. QED
    BY <1>2, <1>9, <2>2, CloseKeepsNesting DEF NInv
<1>10. CASE EndNode
  <2>1. Reading /\ stage' # "done"
    BY <1>10 DEF EndNode, CanEnd, Reading
  <2>2. QED
    BY <1>2, <1>10, <2>1, EndKeepsNesting DEF NInv
<1>11. CASE Finish
  <2>1. Reading /\ ~Reading'
    BY <1>11 DEF Finish, Reading
  <2>2. QED
    BY <1>11, <2>1, FinishedIsNested DEF NInv
<1>12. CASE Unclosed \/ Fail
  <2>1. stage' = "failed"
    BY <1>12, Zenon DEF Unclosed, Fail
  <2>2. QED
    BY <2>1 DEF NInv, Reading, ParentsAreTheBracesAround
<1>13. CASE UNCHANGED vars
  <2>1. UNCHANGED <<pos, stage, nodes, open>>
    BY <1>13 DEF vars
  <2>2. CASE Reading
    BY <1>3, <2>1, <2>2, NodeNumbers
  <2>3. CASE ~Reading
    BY <2>1, <2>3 DEF NInv, Reading, ParentsAreTheBracesAround
  <2>4. QED
    BY <2>2, <2>3
<1>14. QED
  BY <1>4, <1>5, <1>6, <1>7, <1>8, <1>9, <1>10, <1>11, <1>12, <1>13 DEF Next, Done

\* The parent that a node is read with is the node whose braces are the innermost
\* around it in the text, when the blocks and the nodes that a slashdash takes
\* away are left out with all that is in them (grammar.rs, node and nodes), for
\* every list of tokens.
THEOREM ParentsAreBraces == Spec => []ParentsAreTheBracesAround
<1>1. NInv => ParentsAreTheBracesAround
  BY DEF NInv
<1>2. QED
  BY InitTypes, NInit, NextKeepsTypes, NextKeepsNesting, <1>1, PTL DEF Spec

----------------------------------------------------------------------------
(***************************************************************************)
(* If the text ends within braces, the last that nothing closes.           *)
(***************************************************************************)

\* The braces of the text, and how many more of the left than of the right are
\* from a position on.
Lefts  == {p \in DOMAIN text : At(p, {"{"})}
Rights == {p \in DOMAIN text : At(p, {"}"})}
From(S, p) == S \cap (p..Len(text))
Surplus == [p \in 1..(Len(text) + 1) |->
              Cardinality(From(Lefts, p)) - Cardinality(From(Rights, p))]

\* A block that is open has one brace to be closed by, those within it have
\* theirs; a left brace that is not of such a block has met its right one.
Balanced ==
  /\ \A f \in Opened :
       /\ open[f].brace \in Lefts /\ open[f].brace < pos
       /\ \A r \in (open[f].brace + 1)..pos : Surplus[r] < Surplus[open[f].brace]
       /\ Surplus[open[f].brace] - Surplus[pos] = Depth - f + 1
  /\ \A f, g \in Opened : f < g => open[f].brace < open[g].brace
  /\ \A p \in Lefts : p < pos => \/ \E f \in Opened : open[f].brace = p
                                 \/ \E r \in (p + 1)..pos : Surplus[p] <= Surplus[r]

BInv == /\ Reading => Balanced
        /\ stage # "failed" => error = 0
        /\ UnclosedNamesTheInnermost

\* The tokens that are no braces.
Quiet == Token \ {"{", "}"}

LEMMA QuietTokens ==
  /\ Blank \subseteq Quiet /\ LineSpace \subseteq Quiet /\ NodeSpace \subseteq Quiet
  /\ Literal \subseteq Quiet /\ Terminator \subseteq Quiet
  /\ {"ty"} \subseteq Quiet /\ {"="} \subseteq Quiet /\ {"/-"} \subseteq Quiet
  /\ {"bom"} \subseteq Quiet
<1>1. \A t : t \in {"a", "b", "v", "sp", "ml", "lc", "nl", "esc", ";", "ty", "=", "/-", "bom"}
              => t \in Quiet
  BY Zenon DEF Quiet, Token, Literal, Word, LineSpace, NodeSpace, Blank, Terminator
<1>2. QED
  BY <1>1, Zenon DEF Literal, Word, LineSpace, NodeSpace, Blank, Terminator

LEMMA BracesAreNotQuiet ==
  /\ \A p : At(p, Quiet) => p \notin Lefts /\ p \notin Rights
  /\ \A p : ~(p \in Lefts /\ p \in Rights)
  /\ Lefts \subseteq DOMAIN text /\ Rights \subseteq DOMAIN text
BY Zenon DEF At, Quiet, Lefts, Rights

LEMMA SurplusIsInt ==
  ASSUME text \in Seq(Token)
  PROVE  /\ \A p \in 1..(Len(text) + 1) : Surplus[p] \in Int
         /\ \A p \in 1..(Len(text) + 1) : \A S : /\ IsFiniteSet(From(S, p))
                                                /\ Cardinality(From(S, p)) \in Nat
<1>1. \A p \in 1..(Len(text) + 1) : \A S : /\ IsFiniteSet(From(S, p))
                                           /\ Cardinality(From(S, p)) \in Nat
  <2>1. SUFFICES ASSUME NEW p \in 1..(Len(text) + 1), NEW S
                 PROVE  IsFiniteSet(From(S, p)) /\ Cardinality(From(S, p)) \in Nat
    OBVIOUS
  <2>2. IsFiniteSet(p..Len(text))
    BY FS_Interval, TokensAreFinite
  <2>3. From(S, p) \subseteq p..Len(text)
    BY DEF From
  <2>4. QED
    BY <2>2, <2>3, FS_Subset, FS_CardinalityType
<1>2. QED
  BY <1>1 DEF Surplus

\* One brace more, or none.
LEMMA SurplusAtBrace ==
  ASSUME text \in Seq(Token), NEW p \in 1..Len(text)
  PROVE  /\ p \in Lefts => Surplus[p] = Surplus[p + 1] + 1
         /\ p \in Rights => Surplus[p] = Surplus[p + 1] - 1
<1>1. /\ p \in 1..(Len(text) + 1) /\ p + 1 \in 1..(Len(text) + 1) /\ Len(text) \in Nat
  BY TokensAreFinite
<1>2. \A S : p \in S => Cardinality(From(S, p)) = Cardinality(From(S, p + 1)) + 1
  <2>1. SUFFICES ASSUME NEW S, p \in S
                 PROVE  Cardinality(From(S, p)) = Cardinality(From(S, p + 1)) + 1
    OBVIOUS
  <2>2. From(S, p) = From(S, p + 1) \cup {p} /\ p \notin From(S, p + 1)
    BY <1>1, <2>1 DEF From
  <2>3. IsFiniteSet(From(S, p + 1))
    BY <1>1, SurplusIsInt
  <2>4. QED
    BY <2>2, <2>3, FS_AddElement
<1>3. \A S : p \notin S => From(S, p) = From(S, p + 1)
  BY <1>1 DEF From
<1>4. \A S : Cardinality(From(S, p)) \in Nat /\ Cardinality(From(S, p + 1)) \in Nat
  BY <1>1, SurplusIsInt
<1>5. /\ Surplus[p] = Cardinality(From(Lefts, p)) - Cardinality(From(Rights, p))
      /\ Surplus[p + 1] = Cardinality(From(Lefts, p + 1)) - Cardinality(From(Rights, p + 1))
  BY <1>1 DEF Surplus
<1>6. CASE p \in Lefts
  <2>1. p \notin Rights
    BY <1>6, BracesAreNotQuiet
  <2>2. /\ From(Rights, p) = From(Rights, p + 1)
        /\ Cardinality(From(Lefts, p)) = Cardinality(From(Lefts, p + 1)) + 1
    BY <1>2, <1>3, <1>6, <2>1
  <2>3. QED
    BY <1>4, <1>5, <2>1, <2>2
<1>7. CASE p \in Rights
  <2>1. p \notin Lefts
    BY <1>7, BracesAreNotQuiet
  <2>2. /\ From(Lefts, p) = From(Lefts, p + 1)
        /\ Cardinality(From(Rights, p)) = Cardinality(From(Rights, p + 1)) + 1
    BY <1>2, <1>3, <1>7, <2>1
  <2>3. QED
    BY <1>4, <1>5, <2>1, <2>2
<1>8. QED
  BY <1>6, <1>7

\* From p on to q there is no brace.
Plain(p, q) == \A r \in p..(q - 1) : At(r, Quiet)

LEMMA SurplusAcrossPlain ==
  ASSUME text \in Seq(Token), NEW p \in 1..(Len(text) + 1), NEW q \in p..(Len(text) + 1),
         Plain(p, q)
  PROVE  \A r \in p..q : Surplus[r] = Surplus[p]
<1>1. SUFFICES ASSUME NEW r \in p..q PROVE Surplus[r] = Surplus[p]
  OBVIOUS
<1>2. Len(text) \in Nat /\ r \in 1..(Len(text) + 1)
  BY TokensAreFinite
<1>3. \A s \in p..(r - 1) : s \notin Lefts /\ s \notin Rights
  BY <1>2, BracesAreNotQuiet DEF Plain
<1>4. \A S : (\A s \in p..(r - 1) : s \notin S) => From(S, r) = From(S, p)
  BY <1>2 DEF From
<1>5. From(Lefts, r) = From(Lefts, p) /\ From(Rights, r) = From(Rights, p)
  BY <1>3, <1>4
<1>6. QED
  BY <1>2, <1>5 DEF Surplus

LEMMA PlainThenPlain ==
  ASSUME NEW p \in Int, NEW q \in Int, NEW r \in Int, Plain(p, q), Plain(q, r)
  PROVE  Plain(p, r)
<1>1. \A s \in p..(r - 1) : s \in p..(q - 1) \/ s \in q..(r - 1)
  OBVIOUS
<1>2. QED
  BY <1>1 DEF Plain

LEMMA PlainToken ==
  ASSUME text \in Seq(Token), NEW tokens, tokens \subseteq Quiet, NEW p, At(p, tokens)
  PROVE  Plain(p, p + 1)
<1>1. p \in Int /\ At(p, Quiet)
  BY TokensAreFinite DEF At
<1>2. \A r \in p..(p + 1 - 1) : r = p
  BY <1>1
<1>3. QED
  BY <1>1, <1>2 DEF Plain

LEMMA PlainRun ==
  ASSUME text \in Seq(Token), NEW p \in 1..(Len(text) + 1), NEW tokens,
         tokens \subseteq Quiet
  PROVE  Plain(p, RunEnd(p, tokens))
<1>1. \A r \in p..(RunEnd(p, tokens) - 1) : At(r, tokens)
  BY RunIsOfItsKind
<1>2. QED
  BY <1>1 DEF Plain, At

LEMMA PlainNothing ==
  ASSUME NEW p \in Int
  PROVE  Plain(p, p)
<1>1. p..(p - 1) = {}
  OBVIOUS
<1>2. QED
  BY <1>1 DEF Plain

\* A token and the run behind it.
LEMMA PlainTokenAndRun ==
  ASSUME text \in Seq(Token), NEW p, NEW tokens, At(p, tokens), tokens \subseteq Quiet,
         NEW others, others \subseteq Quiet
  PROVE  Plain(p, RunEnd(p + 1, others))
<1>1. p + 1 \in 1..(Len(text) + 1) /\ p \in Int /\ Len(text) \in Nat
  BY AtBounds, TokensAreFinite
<1>2. Plain(p, p + 1)
  BY PlainToken
<1>3. Plain(p + 1, RunEnd(p + 1, others))
  BY <1>1, PlainRun
<1>4. RunEnd(p + 1, others) \in Int /\ p + 1 \in Int
  BY <1>1, RunEndBounds
<1>5. QED
  BY <1>1, <1>2, <1>3, <1>4, PlainThenPlain

LEMMA PlainBehind ==
  ASSUME text \in Seq(Token), NEW p \in 1..(Len(text) + 1)
  PROVE  Plain(p, Behind(p))
<1>1. CASE Dashed(p)
  <2>1. Plain(p, RunEnd(p + 1, LineSpace))
    BY <1>1, PlainTokenAndRun, QuietTokens DEF Dashed
  <2>2. QED
    BY <1>1, <2>1 DEF Behind
<1>2. CASE ~Dashed(p)
  <2>1. Plain(p, p)
    BY PlainNothing
  <2>2. QED
    BY <1>2, <2>1 DEF Behind
<1>3. QED
  BY <1>1, <1>2

LEMMA PlainLiteral ==
  ASSUME text \in Seq(Token), NEW p \in 1..(Len(text) + 1)
  PROVE  /\ Plain(p, LiteralAt(p)) /\ Plain(p, NameAt(p))
         /\ IsValue(p) => Plain(p, LiteralAt(p) + 1)
         /\ IsNode(p) => Plain(p, NameAt(p) + 1)
<1>1. NameAt(p) = LiteralAt(p) /\ LiteralAt(p) \in Int /\ p \in Int
  BY LiteralBounds DEF NameAt, LiteralAt
<1>2. Plain(p, LiteralAt(p))
  <2>1. CASE At(p, {"ty"})
    <3>1. Plain(p, RunEnd(p + 1, Blank))
      BY <2>1, PlainTokenAndRun, QuietTokens
    <3>2. QED
      BY <2>1, <3>1 DEF LiteralAt
  <2>2. CASE ~At(p, {"ty"})
    <3>1. Plain(p, p)
      BY PlainNothing
    <3>2. QED
      BY <2>2, <3>1 DEF LiteralAt
  <2>3. QED
    BY <2>1, <2>2
<1>3. ASSUME At(LiteralAt(p), Literal) PROVE Plain(p, LiteralAt(p) + 1)
  <2>1. Plain(LiteralAt(p), LiteralAt(p) + 1)
    BY <1>3, PlainToken, QuietTokens
  <2>2. LiteralAt(p) + 1 \in Int
    BY <1>1
  <2>3. QED
    BY <1>1, <1>2, <2>1, <2>2, PlainThenPlain
<1>4. IsValue(p) => At(LiteralAt(p), Literal)
  BY DEF IsValue
<1>5. IsNode(p) => At(LiteralAt(p), Literal)
  BY <1>1 DEF IsNode, At, Literal
<1>6. QED
  BY <1>1, <1>2, <1>3, <1>4, <1>5

LEMMA PlainEntry ==
  ASSUME text \in Seq(Token), NEW p \in 1..(Len(text) + 1), IsEntry(p)
  PROVE  Plain(p, EntryEnd(p))
<1>1. CASE IsProperty(p)
  <2>1. IsKeyed(p) /\ At(p, Literal) /\ At(EqualsAt(p), {"="}) /\ IsValue(ValueAt(p))
    BY <1>1 DEF IsProperty, IsKeyed
  <2>2. Plain(p, EqualsAt(p))
    BY <2>1, PlainTokenAndRun, QuietTokens DEF EqualsAt
  <2>3. Plain(EqualsAt(p), ValueAt(p))
    BY <2>1, PlainTokenAndRun, QuietTokens DEF ValueAt
  <2>4. /\ ValueAt(p) \in 1..(Len(text) + 1) /\ LiteralAt(ValueAt(p)) \in Int
        /\ EntryEnd(p) = LiteralAt(ValueAt(p)) + 1
    BY <1>1, EntryBounds
  <2>5. Plain(ValueAt(p), EntryEnd(p))
    BY <2>1, <2>4, PlainLiteral
  <2>6. EqualsAt(p) \in Int /\ p \in Int /\ ValueAt(p) \in Int /\ EntryEnd(p) \in Int
    BY <2>1, <2>4, AtBounds
  <2>7. Plain(p, ValueAt(p))
    BY <2>2, <2>3, <2>6, PlainThenPlain
  <2>8. QED
    BY <2>5, <2>6, <2>7, PlainThenPlain
<1>2. CASE IsArgument(p)
  <2>1. IsValue(p) /\ EntryEnd(p) = LiteralAt(p) + 1
    BY <1>2, EntryBounds DEF IsArgument
  <2>2. QED
    BY <2>1, PlainLiteral
<1>3. QED
  BY <1>1, <1>2 DEF IsEntry

\* What every action but those of the braces goes past.
LEMMA PlainOnward ==
  ASSUME TypeOK
  PROVE  /\ Plain(pos, Onward) /\ Plain(pos, Behind(Onward))
         /\ IsEntry(Onward) => Plain(pos, EntryEnd(Onward))
         /\ IsEntry(Behind(Onward)) => Plain(pos, EntryEnd(Behind(Onward)))
         /\ At(Onward, Terminator) => Plain(pos, Onward + 1)
<1>1. /\ text \in Seq(Token) /\ pos \in 1..(Len(text) + 1) /\ Len(text) \in Nat
      /\ Onward \in 1..(Len(text) + 1) /\ Behind(Onward) \in 1..(Len(text) + 1)
      /\ pos \in Int /\ Onward \in Int /\ Behind(Onward) \in Int /\ Onward + 1 \in Int
  BY OnwardBounds DEF TypeOK
<1>2. Plain(pos, Onward)
  BY <1>1, PlainRun, QuietTokens DEF Onward
<1>3. Plain(pos, Behind(Onward))
  BY <1>1, <1>2, PlainBehind, PlainThenPlain
<1>4. ASSUME NEW p \in 1..(Len(text) + 1), Plain(pos, p), IsEntry(p)
      PROVE  Plain(pos, EntryEnd(p))
  <2>1. EntryEnd(p) \in Int /\ p \in Int
    BY <1>1, <1>4, EntryBounds
  <2>2. Plain(p, EntryEnd(p))
    BY <1>1, <1>4, PlainEntry
  <2>3. QED
    BY <1>1, <1>4, <2>1, <2>2, PlainThenPlain
<1>5. At(Onward, Terminator) => Plain(Onward, Onward + 1)
  BY <1>1, PlainToken, QuietTokens
<1>6. At(Onward, Terminator) => Plain(pos, Onward + 1)
  BY <1>1, <1>2, <1>5, PlainThenPlain
<1>7. QED
  BY <1>1, <1>2, <1>3, <1>4, <1>6

LEMMA NotWithin ==
  ASSUME NEW p \in Int, NEW a \in Int, NEW b \in Int, p < b, p \notin a..(b - 1)
  PROVE  p < a
OBVIOUS

\* A step past no brace, that opens and closes no block.
LEMMA PlainKeepsBalance ==
  ASSUME TypeOK, Reading, Balanced, UNCHANGED text,
         pos' \in pos..(Len(text) + 1), Plain(pos, pos'), Depth' = Depth,
         \A f \in Opened : open'[f].brace = open[f].brace
  PROVE  Balanced'
<1>1. /\ text \in Seq(Token) /\ Len(text) \in Nat /\ DOMAIN text = 1..Len(text)
      /\ pos \in 1..(Len(text) + 1)
  BY TokensAreFinite DEF TypeOK
<1>2. Lefts' = Lefts /\ Surplus' = Surplus /\ Opened' = Opened
  BY DEF Lefts, Rights, Surplus, From, At, Opened
<1>3. \A r \in pos..pos' : Surplus[r] = Surplus[pos]
  BY <1>1, SurplusAcrossPlain
<1>4. \A r \in pos..(pos' - 1) : r \notin Lefts
  BY BracesAreNotQuiet DEF Plain
<1>5. ASSUME NEW f \in Opened'
      PROVE  /\ open'[f].brace \in Lefts /\ open'[f].brace < pos'
             /\ \A r \in (open'[f].brace + 1)..pos' : Surplus[r] < Surplus[open'[f].brace]
             /\ Surplus[open'[f].brace] - Surplus[pos'] = Depth' - f + 1
  <2>1. f \in Opened /\ open'[f].brace = open[f].brace
    BY <1>2
  <2> DEFINE b == open[f].brace
  <2>2. /\ b \in Lefts /\ b < pos /\ Surplus[b] - Surplus[pos] = Depth - f + 1
        /\ \A r \in (b + 1)..pos : Surplus[r] < Surplus[b]
    BY <2>1 DEF Balanced
  <2>3. b \in Nat
    BY <2>1, OpenedBounds
  <2> HIDE DEF b
  <2>4. b < pos'
    BY <1>1, <2>2, <2>3
  <2>5. pos' \in pos..pos' /\ pos \in (b + 1)..pos
    BY <1>1, <2>2, <2>3
  <2>6. \A r \in (b + 1)..pos' : r \in (b + 1)..pos \/ r \in pos..pos'
    BY <1>1, <2>3
  <2>7. \A r \in (b + 1)..pos' : Surplus[r] < Surplus[b]
    BY <1>3, <2>2, <2>5, <2>6
  <2>8. Surplus[pos'] = Surplus[pos]
    BY <1>3, <2>5
  <2>9. Surplus[b] - Surplus[pos'] = Depth' - f + 1
    BY <2>2, <2>8
  <2>10. QED
    BY <2>1, <2>2, <2>4, <2>7, <2>9 DEF b
<1>6. \A f, g \in Opened' : f < g => open'[f].brace < open'[g].brace
  BY <1>2 DEF Balanced
<1>7. ASSUME NEW p \in Lefts, p < pos'
      PROVE  \/ \E f \in Opened' : open'[f].brace = p
             \/ \E r \in (p + 1)..pos' : Surplus[p] <= Surplus[r]
  <2>1. p \in 1..Len(text)
    BY <1>1, BracesAreNotQuiet
  <2>2. p < pos
    <3>1. p \notin pos..(pos' - 1)
      BY <1>4
    <3>2. p \in Int /\ pos \in Int /\ pos' \in Int
      BY <1>1, <2>1
    <3>3. QED
      BY <1>7, <3>1, <3>2, NotWithin
  <2>3. \/ \E f \in Opened : open[f].brace = p
        \/ \E r \in (p + 1)..pos : Surplus[p] <= Surplus[r]
    BY <2>2 DEF Balanced
  <2>4. \A r \in (p + 1)..pos : r \in (p + 1)..pos'
    BY <1>1, <2>1
  <2>5. QED
    BY <1>2, <2>3, <2>4
<1>8. QED
  BY <1>2, <1>5, <1>6, <1>7 DEF Balanced

LEMMA BInit == Init => BInv
<1> SUFFICES ASSUME Init PROVE BInv
  OBVIOUS
<1>1. /\ open = <<>> /\ stage = "nodes" /\ error = 0
      /\ pos = IF At(1, {"bom"}) THEN 2 ELSE 1
      /\ text \in Seq(Token)
  BY TextsAssumption DEF Init, Begin
<1>2. Opened = {}
  BY <1>1 DEF Opened, Depth
<1>3. \A p \in Lefts : ~(p < pos)
  <2>1. Lefts \subseteq 1..Len(text) /\ Len(text) \in Nat
    BY <1>1, TokensAreFinite, BracesAreNotQuiet
  <2>2. 1 \in Lefts => ~At(1, {"bom"})
    <3>1. At(1, {"bom"}) => At(1, Quiet)
      BY QuietTokens DEF At
    <3>2. QED
      BY <3>1, BracesAreNotQuiet
  <2>3. QED
    BY <1>1, <2>1, <2>2
<1>4. UnclosedNamesTheInnermost
  BY <1>1, Zenon DEF UnclosedNamesTheInnermost
<1>5. Balanced
  BY <1>2, <1>3 DEF Balanced
<1>6. QED
  BY <1>1, <1>4, <1>5 DEF BInv

\* The brace of children is one that nothing has closed yet.
LEMMA OpenKeepsBalance ==
  ASSUME TypeOK, Balanced, OpenBlock
  PROVE  Balanced'
<1> DEFINE b == Behind(Onward)
           d == Len(open)
<1>1. /\ stage = "node" /\ stage' = "nodes" /\ open # <<>> /\ UNCHANGED text
      /\ open' = [open EXCEPT ![d] = [open[d] EXCEPT !.hide = Dashed(Onward), !.brace = b]]
      /\ pos' = b + 1
  <2>1. /\ stage = "node" /\ stage' = "nodes" /\ UNCHANGED text /\ pos' = b + 1
    BY Zenon DEF OpenBlock
  <2>2. open' = [open EXCEPT ![d] = [open[d] EXCEPT !.hide = Dashed(Onward), !.brace = b]]
    BY Zenon DEF OpenBlock
  <2>3. open # <<>>
    BY <2>1 DEF TypeOK
  <2>4. QED
    BY <2>1, <2>2, <2>3, Zenon
<1>2. At(b, {"{"})
  BY Zenon DEF OpenBlock, BlockAhead
<1>3. /\ b \in Lefts /\ b \in 1..Len(text) /\ b + 1 \in 1..(Len(text) + 1)
      /\ text \in Seq(Token) /\ Len(text) \in Nat
  <2>1. text \in Seq(Token)
    BY DEF TypeOK
  <2>2. b \in DOMAIN text
    BY <1>2, Zenon DEF At
  <2>3. b \in Lefts
    BY <1>2, <2>2, Zenon DEF Lefts
  <2>4. QED
    BY <2>1, <2>2, <2>3, TokensAreFinite
<1>4. /\ pos \in 1..(Len(text) + 1) /\ b \in pos..(Len(text) + 1) /\ Plain(pos, b)
  BY OnwardBounds, PlainOnward
<1>5. /\ d \in Nat /\ d > 0 /\ Len(open') = d /\ open'[d].brace = b
      /\ \A f \in 1..(d - 1) : open'[f] = open[f]
  <2>1. open \in Seq(Frame) /\ d \in DOMAIN open /\ d \in Nat /\ DOMAIN open = 1..d
    BY <1>1, NowIsOpen DEF TypeOK
  <2> DEFINE f == [open[d] EXCEPT !.hide = Dashed(Onward), !.brace = b]
  <2>2. open[d] \in Frame
    BY <2>1
  <2>3. f.brace = b
    BY <2>2 DEF Frame
  <2> HIDE DEF f
  <2>4. open' = [open EXCEPT ![d] = f]
    BY <1>1 DEF f
  <2>5. d > 0
    BY <2>1
  <2>6. Len(open') = d /\ open'[d] = f
    BY <2>1, <2>4
  <2>7. ASSUME NEW g \in 1..(d - 1) PROVE open'[g] = open[g]
    <3> HIDE DEF d
    <3>1. g \in DOMAIN open /\ g # d
      BY <2>1, <2>5, OneMore
    <3>2. QED
      BY <2>4, <3>1
  <2>8. QED
    BY <2>1, <2>3, <2>5, <2>6, <2>7, Zenon
<1> HIDE DEF b
<1>6. /\ Depth = d - 1 /\ Depth' = d /\ Opened = 1..(d - 1) /\ Opened' = 1..d
      /\ 1..(d - 1) \subseteq 1..d /\ \A g \in 1..d : g \in 1..(d - 1) \/ g = d
  <2>1. stage # "nodes"
    BY <1>1
  <2>2. Depth = d - 1
    BY <2>1, Zenon DEF Depth
  <2>3. Depth' = d
    BY <1>1, <1>5, Zenon DEF Depth
  <2>4. Opened = 1..(d - 1) /\ Opened' = 1..d
    BY <2>2, <2>3, Zenon DEF Opened
  <2>5. /\ 1..(d - 1) \subseteq 1..d
        /\ \A g \in 1..d : g \in 1..(d - 1) \/ g = d
    BY <1>5, OneMore
  <2>6. QED
    BY <2>2, <2>3, <2>4, <2>5, Zenon
<1>7. Lefts' = Lefts /\ Surplus' = Surplus
  BY <1>1, Zenon DEF Lefts, Rights, Surplus, From, At
<1>8. /\ \A r \in pos..b : Surplus[r] = Surplus[pos]
      /\ Surplus[b] = Surplus[b + 1] + 1 /\ Surplus[b] = Surplus[pos]
      /\ Surplus[pos] \in Int /\ Surplus[b + 1] \in Int
  <2>1. \A r \in pos..b : Surplus[r] = Surplus[pos]
    BY <1>3, <1>4, SurplusAcrossPlain
  <2>2. b \in pos..b
    BY <1>3, <1>4
  <2>3. Surplus[b] = Surplus[b + 1] + 1
    BY <1>3, SurplusAtBrace
  <2>4. Surplus[pos] \in Int /\ Surplus[b + 1] \in Int
    BY <1>3, <1>4, SurplusIsInt
  <2>5. QED
    BY <2>1, <2>2, <2>3, <2>4
<1> HIDE DEF d
<1>9. ASSUME NEW f \in Opened'
      PROVE  /\ open'[f].brace \in Lefts /\ open'[f].brace < pos'
             /\ \A r \in (open'[f].brace + 1)..pos' : Surplus[r] < Surplus[open'[f].brace]
             /\ Surplus[open'[f].brace] - Surplus[pos'] = Depth' - f + 1
  <2>1. CASE f = d
    <3>1. open'[f].brace = b
      BY <1>5, <2>1
    <3>2. \A r \in (b + 1)..(b + 1) : r = b + 1
      BY <1>3
    <3>3. \A r \in (b + 1)..(b + 1) : Surplus[r] < Surplus[b]
      BY <1>8, <3>2
    <3>4. Surplus[b] - Surplus[b + 1] = d - d + 1
      BY <1>5, <1>8
    <3>5. b < b + 1
      BY <1>3
    <3>6. QED
      BY <1>1, <1>3, <1>6, <2>1, <3>1, <3>3, <3>4, <3>5
  <2>2. CASE f \in 1..(d - 1)
    <3> DEFINE a == open[f].brace
    <3>1. open'[f].brace = a /\ f \in Opened /\ f \in Int
      BY <1>5, <1>6, <2>2
    <3>2. /\ a \in Lefts /\ a < pos /\ Surplus[a] - Surplus[pos] = Depth - f + 1
          /\ \A r \in (a + 1)..pos : Surplus[r] < Surplus[a]
      BY <3>1 DEF Balanced
    <3>3. a \in Nat /\ a \in 1..(Len(text) + 1)
      <4>1. a \in DOMAIN text
        BY <3>2, BracesAreNotQuiet
      <4>2. QED
        BY <1>3, <4>1, TokensAreFinite
    <3>4. Surplus[a] \in Int
      BY <1>3, <3>3, SurplusIsInt
    <3> HIDE DEF a
    <3>5. a < b + 1
      BY <1>3, <1>4, <3>2, <3>3
    <3>6. \A r \in (a + 1)..(b + 1) : r \in (a + 1)..pos \/ r \in pos..b \/ r = b + 1
      BY <1>3, <1>4, <3>3
    <3>7. pos \in (a + 1)..pos
      BY <1>4, <3>2, <3>3
    <3>8. Surplus[pos] < Surplus[a]
      BY <3>2, <3>7
    <3>9. Surplus[b + 1] < Surplus[a]
      BY <1>8, <3>4, <3>8
    <3>10. \A r \in (a + 1)..(b + 1) : Surplus[r] < Surplus[a]
      BY <1>8, <3>2, <3>6, <3>8, <3>9
    <3>11. Surplus[a] - Surplus[b + 1] = d - f + 1
      <4>1. Surplus[a] - Surplus[pos] = d - 1 - f + 1
        BY <1>6, <3>2
      <4>2. QED
        BY <1>5, <1>8, <3>1, <3>4, <4>1
    <3>12. QED
      BY <1>1, <1>6, <3>1, <3>2, <3>5, <3>10, <3>11
  <2>3. QED
    BY <1>6, <2>1, <2>2
<1>10. ASSUME NEW f \in Opened', NEW g \in Opened', f < g
       PROVE  open'[f].brace < open'[g].brace
  <2>1. f \in 1..(d - 1)
    BY <1>5, <1>6, <1>10
  <2>2. CASE g = d
    <3>1. open'[f] = open[f] /\ open'[g].brace = b /\ open[f].brace < pos
      BY <1>5, <1>6, <2>1, <2>2 DEF Balanced
    <3>2. open[f].brace \in Int
      BY <1>1, <1>6, <2>1, OpenedBounds DEF Reading
    <3>3. QED
      BY <1>3, <1>4, <3>1, <3>2
  <2>3. CASE g \in 1..(d - 1)
    BY <1>5, <1>6, <1>10, <2>1, <2>3 DEF Balanced
  <2>4. QED
    BY <1>6, <2>2, <2>3
<1>11. ASSUME NEW p \in Lefts, p < pos'
       PROVE  \/ \E f \in Opened' : open'[f].brace = p
              \/ \E r \in (p + 1)..pos' : Surplus[p] <= Surplus[r]
  <2>1. p \in Int /\ p \in 1..Len(text)
    BY <1>3, TokensAreFinite, BracesAreNotQuiet
  <2>2. p < pos \/ p = b
    <3>1. \A r \in pos..(b - 1) : r \notin Lefts
      BY <1>4, BracesAreNotQuiet DEF Plain
    <3>2. p \notin pos..(b - 1)
      BY <3>1
    <3>3. b \in Int /\ pos \in Int /\ (p < b \/ p = b)
      BY <1>1, <1>3, <1>4, <1>11, <2>1
    <3>4. QED
      BY <2>1, <3>2, <3>3, NotWithin
  <2>3. CASE p = b
    <3>1. d \in Opened'
      BY <1>5, <1>6
    <3>2. QED
      BY <1>5, <2>3, <3>1
  <2>4. CASE p < pos
    <3>1. \/ \E f \in Opened : open[f].brace = p
          \/ \E r \in (p + 1)..pos : Surplus[p] <= Surplus[r]
      BY <2>4 DEF Balanced
    <3>2. \A r \in (p + 1)..pos : r \in (p + 1)..pos'
      BY <1>1, <1>3, <1>4, <2>1
    <3>3. \A f \in Opened : f \in Opened' /\ open'[f] = open[f]
      BY <1>5, <1>6
    <3>4. QED
      BY <3>1, <3>2, <3>3
  <2>5. QED
    BY <2>2, <2>3, <2>4
<1>12. QED
  BY <1>7, <1>9, <1>10, <1>11 DEF Balanced

\* The brace that closes children is that of the innermost ones.
LEMMA CloseKeepsBalance ==
  ASSUME TypeOK, Balanced, CloseBlock
  PROVE  Balanced'
<1> DEFINE d == Len(open)
<1>1. /\ stage = "nodes" /\ stage' = "closed" /\ open # <<>> /\ pos' = pos + 1
      /\ UNCHANGED <<text, open, error>>
  BY Zenon DEF CloseBlock
<1>2. /\ d \in Nat /\ d > 0 /\ Len(open) = d /\ Len(open') = d
  <2>1. d \in DOMAIN open /\ d \in Nat /\ DOMAIN open = 1..d
    BY <1>1, NowIsOpen DEF TypeOK
  <2>2. d > 0
    BY <2>1
  <2>3. open' = open
    BY <1>1
  <2>4. QED
    BY <2>1, <2>2, <2>3, Zenon
<1> HIDE DEF d
<1>3. /\ Depth = d /\ Depth' = d - 1 /\ Opened = 1..d /\ Opened' = 1..(d - 1)
      /\ 1..(d - 1) \subseteq 1..d /\ \A g \in 1..d : g \in 1..(d - 1) \/ g = d
  <2>1. stage' # "nodes"
    BY <1>1
  <2>2. Depth = d
    BY <1>1, <1>2, Zenon DEF Depth
  <2>3. Depth' = d - 1
    BY <1>2, <2>1, Zenon DEF Depth
  <2>4. Opened = 1..d /\ Opened' = 1..(d - 1)
    BY <2>2, <2>3, Zenon DEF Opened
  <2>5. /\ 1..(d - 1) \subseteq 1..d
        /\ \A g \in 1..d : g \in 1..(d - 1) \/ g = d
    BY <1>2, OneMore
  <2>6. QED
    BY <2>2, <2>3, <2>4, <2>5, Zenon
<1>4. /\ pos \in Rights /\ pos \in 1..Len(text) /\ pos + 1 \in 1..(Len(text) + 1)
      /\ text \in Seq(Token) /\ Len(text) \in Nat
  <2>1. text \in Seq(Token)
    BY DEF TypeOK
  <2>2. At(pos, {"}"})
    BY Zenon DEF CloseBlock
  <2>3. pos \in Rights
    BY <2>2, Zenon DEF Rights, At
  <2>4. pos \in DOMAIN text
    BY <2>3, BracesAreNotQuiet
  <2>5. QED
    BY <2>1, <2>3, <2>4, TokensAreFinite
<1>5. Lefts' = Lefts /\ Surplus' = Surplus
  BY <1>1, Zenon DEF Lefts, Rights, Surplus, From, At
<1>6. /\ Surplus[pos] = Surplus[pos + 1] - 1
      /\ Surplus[pos] \in Int /\ Surplus[pos + 1] \in Int
  <2>1. pos \in 1..(Len(text) + 1)
    BY <1>4
  <2>2. QED
    BY <1>4, <2>1, SurplusAtBrace, SurplusIsInt
<1>7. ASSUME NEW f \in Opened
      PROVE  /\ open[f].brace \in Lefts /\ open[f].brace < pos
             /\ open[f].brace \in Nat /\ Surplus[open[f].brace] \in Int
             /\ \A r \in (open[f].brace + 1)..pos : Surplus[r] < Surplus[open[f].brace]
             /\ Surplus[open[f].brace] - Surplus[pos + 1] = d - f
  <2> DEFINE a == open[f].brace
  <2>1. /\ a \in Lefts /\ a < pos /\ Surplus[a] - Surplus[pos] = Depth - f + 1
        /\ \A r \in (a + 1)..pos : Surplus[r] < Surplus[a]
    BY DEF Balanced
  <2>2. a \in DOMAIN text
    BY <2>1, BracesAreNotQuiet
  <2> HIDE DEF a
  <2>3. a \in Nat /\ a \in 1..(Len(text) + 1)
    BY <1>4, <2>2, TokensAreFinite
  <2>4. Surplus[a] \in Int
    BY <1>4, <2>3, SurplusIsInt
  <2>5. Surplus[a] - Surplus[pos + 1] = d - f
    <3>1. Surplus[a] - Surplus[pos] = d - f + 1
      BY <1>3, <2>1
    <3>2. f \in Int
      BY <1>3
    <3>3. \A x, y, z, m, k \in Int : x - y = m - k + 1 /\ y = z - 1 => x - z = m - k
      OBVIOUS
    <3>4. d \in Int
      BY <1>2
    <3>5. QED
      BY <1>6, <2>4, <3>1, <3>2, <3>3, <3>4
  <2>6. QED
    BY <2>1, <2>3, <2>4, <2>5 DEF a
<1>8. ASSUME NEW f \in Opened'
      PROVE  /\ open'[f].brace \in Lefts /\ open'[f].brace < pos'
             /\ \A r \in (open'[f].brace + 1)..pos' : Surplus[r] < Surplus[open'[f].brace]
             /\ Surplus[open'[f].brace] - Surplus[pos'] = Depth' - f + 1
  <2> DEFINE a == open[f].brace
  <2>1. f \in Opened /\ f \in 1..(d - 1) /\ open'[f].brace = a /\ f \in Int
    BY <1>1, <1>3
  <2>2. /\ a \in Lefts /\ a < pos /\ a \in Nat /\ Surplus[a] \in Int
        /\ \A r \in (a + 1)..pos : Surplus[r] < Surplus[a]
        /\ Surplus[a] - Surplus[pos + 1] = d - f
    BY <1>7, <2>1
  <2> HIDE DEF a
  <2>3. a < pos + 1
    BY <1>4, <2>2
  <2>4. Surplus[pos + 1] < Surplus[a]
    <3>1. d - f > 0
      BY <1>2, <2>1
    <3>2. \A x, y, m \in Int : x - y = m /\ m > 0 => y < x
      OBVIOUS
    <3>3. d - f \in Int
      BY <1>2, <2>1
    <3>4. QED
      BY <1>6, <2>2, <3>1, <3>2, <3>3
  <2>5. \A r \in (a + 1)..(pos + 1) : r \in (a + 1)..pos \/ r = pos + 1
    BY <1>4, <2>2
  <2>6. \A r \in (a + 1)..(pos + 1) : Surplus[r] < Surplus[a]
    BY <2>2, <2>4, <2>5
  <2>7. Surplus[a] - Surplus[pos + 1] = d - 1 - f + 1
    BY <1>2, <2>1, <2>2
  <2>8. QED
    BY <1>1, <1>3, <2>1, <2>2, <2>3, <2>6, <2>7
<1>9. \A f, g \in Opened' : f < g => open'[f].brace < open'[g].brace
  BY <1>1, <1>3 DEF Balanced
<1>10. ASSUME NEW p \in Lefts, p < pos'
       PROVE  \/ \E f \in Opened' : open'[f].brace = p
              \/ \E r \in (p + 1)..pos' : Surplus[p] <= Surplus[r]
  <2>1. p \in Int /\ p \in 1..Len(text)
    BY <1>4, TokensAreFinite, BracesAreNotQuiet
  <2>2. p < pos
    <3>1. p # pos
      BY <1>4, BracesAreNotQuiet
    <3>2. QED
      BY <1>1, <1>4, <1>10, <2>1, <3>1
  <2>3. \/ \E f \in Opened : open[f].brace = p
        \/ \E r \in (p + 1)..pos : Surplus[p] <= Surplus[r]
    BY <2>2 DEF Balanced
  <2>4. CASE \E r \in (p + 1)..pos : Surplus[p] <= Surplus[r]
    <3>1. \A r \in (p + 1)..pos : r \in (p + 1)..pos'
      BY <1>1, <1>4, <2>1
    <3>2. QED
      BY <2>4, <3>1
  <2>5. CASE \E f \in 1..(d - 1) : open[f].brace = p
    BY <1>1, <1>3, <2>5
  <2>6. CASE open[d].brace = p
    <3>1. d \in Opened
      BY <1>2, <1>3
    <3>2. Surplus[p] - Surplus[pos + 1] = d - d /\ Surplus[p] \in Int
      BY <1>7, <2>6, <3>1
    <3>3. Surplus[p] <= Surplus[pos + 1]
      BY <1>2, <1>6, <3>2
    <3>4. pos + 1 \in (p + 1)..pos'
      BY <1>1, <1>4, <2>1, <2>2
    <3>5. QED
      BY <3>3, <3>4
  <2>7. QED
    BY <1>3, <2>3, <2>4, <2>5, <2>6
<1>11. QED
  BY <1>5, <1>8, <1>9, <1>10 DEF Balanced

\* The left braces behind which nothing closes them.
Unmet == {p \in Lefts : \A q \in p..Len(text) : Surplus[p] > Surplus[q + 1]}

LEMMA UnpairedIsUnmet ==
  TypeOK => (UnclosedNamesTheInnermost <=> (error # 0 => error = Max(Unmet)))
<1> SUFFICES ASSUME TypeOK
             PROVE  UnclosedNamesTheInnermost <=> (error # 0 => error = Max(Unmet))
  OBVIOUS
<1> DEFINE Count(kind, p) == Cardinality({q \in p..Len(text) : At(q, {kind})})
           Unpaired(p) == At(p, {"{"})
                            /\ \A q \in p..Len(text) :
                                 Count("{", p) - Count("{", q + 1)
                                   > Count("}", p) - Count("}", q + 1)
<1>1. UnclosedNamesTheInnermost
        <=> (error # 0 => error = Max({p \in DOMAIN text : Unpaired(p)}))
  BY Zenon DEF UnclosedNamesTheInnermost
<1>2. /\ \A p : Count("{", p) = Cardinality(From(Lefts, p))
      /\ \A p : Count("}", p) = Cardinality(From(Rights, p))
  <2>1. /\ \A p : {q \in p..Len(text) : At(q, {"{"})} = From(Lefts, p)
        /\ \A p : {q \in p..Len(text) : At(q, {"}"})} = From(Rights, p)
    BY Zenon DEF From, Lefts, Rights, At
  <2>2. QED
    BY <2>1, Zenon
<1> HIDE DEF Count
<1>3. text \in Seq(Token) /\ Len(text) \in Nat
  BY TokensAreFinite DEF TypeOK
<1>4. ASSUME NEW p \in DOMAIN text PROVE Unpaired(p) <=> p \in Unmet
  <2>1. Unpaired(p) <=>
          p \in Lefts /\ \A q \in p..Len(text) :
             Cardinality(From(Lefts, p)) - Cardinality(From(Lefts, q + 1))
               > Cardinality(From(Rights, p)) - Cardinality(From(Rights, q + 1))
    BY <1>2, Zenon DEF Lefts
  <2>2. ASSUME NEW q \in p..Len(text)
        PROVE  (Cardinality(From(Lefts, p)) - Cardinality(From(Lefts, q + 1))
                  > Cardinality(From(Rights, p)) - Cardinality(From(Rights, q + 1)))
                 <=> Surplus[p] > Surplus[q + 1]
    <3>1. p \in 1..(Len(text) + 1) /\ q + 1 \in 1..(Len(text) + 1)
      BY <1>3, TokensAreFinite
    <3>2. \A S : Cardinality(From(S, p)) \in Nat /\ Cardinality(From(S, q + 1)) \in Nat
      BY <1>3, <3>1, SurplusIsInt
    <3>3. /\ Surplus[p] = Cardinality(From(Lefts, p)) - Cardinality(From(Rights, p))
          /\ Surplus[q + 1] = Cardinality(From(Lefts, q + 1)) - Cardinality(From(Rights, q + 1))
      BY <3>1 DEF Surplus
    <3>4. \A a, b, c, e \in Nat : a - b > c - e <=> a - c > b - e
      OBVIOUS
    <3>5. QED
      BY <3>2, <3>3, <3>4
  <2>3. QED
    BY <2>1, <2>2, Zenon DEF Unmet
<1>5. {p \in DOMAIN text : Unpaired(p)} = Unmet
  <2> HIDE DEF Unpaired
  <2>1. Unmet \subseteq DOMAIN text
    BY BracesAreNotQuiet DEF Unmet
  <2>2. QED
    BY <1>4, <2>1
<1>6. QED
  BY <1>1, <1>5, Zenon

\* The children that are read last are the innermost.
LEMMA UnclosedIsInnermost ==
  ASSUME TypeOK, Balanced, Unclosed
  PROVE  UnclosedNamesTheInnermost'
<1> DEFINE d == Len(open)
<1>1. /\ stage = "nodes" /\ open # <<>> /\ pos = Len(text) + 1
      /\ error' = Last(open).brace /\ UNCHANGED text
  BY DEF Unclosed
<1>2. /\ d \in Nat /\ DOMAIN open = 1..d /\ d \in 1..d /\ Last(open) = open[d]
      /\ text \in Seq(Token) /\ Len(text) \in Nat
  BY <1>1, NowIsOpen, TokensAreFinite DEF TypeOK
<1>3. Opened = 1..d
  BY <1>1 DEF Opened, Depth
<1> HIDE DEF d
<1>4. \A p \in Unmet : \E f \in Opened : open[f].brace = p
  <2>1. SUFFICES ASSUME NEW p \in Unmet PROVE \E f \in Opened : open[f].brace = p
    OBVIOUS
  <2>2. p \in Lefts /\ p \in 1..Len(text) /\ \A q \in p..Len(text) : Surplus[p] > Surplus[q + 1]
    BY <1>2, BracesAreNotQuiet, TokensAreFinite DEF Unmet
  <2>3. p < pos
    BY <1>1, <1>2, <2>2
  <2>4. ASSUME NEW r \in (p + 1)..pos PROVE ~(Surplus[p] <= Surplus[r])
    <3>1. r - 1 \in p..Len(text) /\ r - 1 + 1 = r
      BY <1>1, <1>2, <2>2
    <3>2. Surplus[p] > Surplus[r]
      BY <2>2, <3>1
    <3>3. p \in 1..(Len(text) + 1) /\ r \in 1..(Len(text) + 1)
      BY <1>1, <1>2, <2>2
    <3>4. Surplus[p] \in Int /\ Surplus[r] \in Int
      BY <1>2, <3>3, SurplusIsInt
    <3>5. QED
      BY <3>2, <3>4
  <2>5. QED
    BY <2>2, <2>3, <2>4 DEF Balanced
<1>5. open[d].brace \in Unmet
  <2> DEFINE a == open[d].brace
  <2>1. /\ a \in Lefts /\ \A r \in (a + 1)..pos : Surplus[r] < Surplus[a]
    BY <1>2, <1>3 DEF Balanced
  <2>2. a \in 1..Len(text)
    BY <1>2, <2>1, BracesAreNotQuiet, TokensAreFinite
  <2> HIDE DEF a
  <2>3. ASSUME NEW q \in a..Len(text) PROVE Surplus[a] > Surplus[q + 1]
    <3>1. q + 1 \in (a + 1)..pos /\ q + 1 \in 1..(Len(text) + 1) /\ a \in 1..(Len(text) + 1)
      BY <1>1, <1>2, <2>2
    <3>2. Surplus[q + 1] < Surplus[a]
      BY <2>1, <3>1
    <3>3. Surplus[q + 1] \in Int /\ Surplus[a] \in Int
      BY <1>2, <3>1, SurplusIsInt
    <3>4. QED
      BY <3>2, <3>3
  <2>4. QED
    BY <2>1, <2>3 DEF Unmet, a
<1>6. ASSUME NEW p \in Unmet PROVE open[d].brace >= p
  <2>1. PICK f \in Opened : open[f].brace = p
    BY <1>4
  <2>2. open[f].brace \in Nat /\ open[d].brace \in Nat
    BY <1>1, <1>2, <1>3, OpenedBounds DEF Reading
  <2>3. f = d \/ f < d
    BY <1>2, <1>3
  <2>4. f < d => open[f].brace < open[d].brace
    BY <1>2, <1>3 DEF Balanced
  <2>5. QED
    BY <2>1, <2>2, <2>3, <2>4
<1>7. \A m \in Unmet : (\A p \in Unmet : m >= p) => m = open[d].brace
  <2>1. \A m \in Unmet : m \in Nat
    BY <1>4, <1>1, OpenedBounds DEF Reading
  <2>2. QED
    BY <1>5, <1>6, <2>1
<1>8. Max(Unmet) = open[d].brace
  BY <1>5, <1>6, <1>7, Zenon DEF Max
<1>9. Unmet' = Unmet
  <2>1. Lefts' = Lefts /\ Surplus' = Surplus
    BY <1>1, Zenon DEF Lefts, Rights, Surplus, From, At
  <2>2. QED
    BY <1>1, <2>1 DEF Unmet
<1>10. TypeOK'
  BY NextKeepsTypes DEF Next
<1>11. (TypeOK => (UnclosedNamesTheInnermost <=> (error # 0 => error = Max(Unmet))))'
  BY UnpairedIsUnmet, PTL
<1>12. error' = Max(Unmet')
  BY <1>1, <1>2, <1>8, <1>9
<1>13. QED
  BY <1>10, <1>11, <1>12 DEF Max

LEMMA NextKeepsBalance == TypeOK /\ BInv /\ [Next]_vars => BInv'
<1> SUFFICES ASSUME TypeOK, BInv, [Next]_vars PROVE BInv'
  OBVIOUS
<1>1. /\ text \in Seq(Token) /\ pos \in 1..(Len(text) + 1) /\ pos \in Int
      /\ Len(text) \in Nat
  BY TokensAreFinite DEF TypeOK
<1>2. Reading => stage # "failed" /\ error = 0 /\ Balanced
  BY DEF BInv, Reading
<1>3. error' = 0 => UnclosedNamesTheInnermost'
  BY Zenon DEF UnclosedNamesTheInnermost
<1>4. ASSUME Reading, error' = error, Reading' => Balanced' PROVE BInv'
  BY <1>2, <1>3, <1>4 DEF BInv
<1>5. ASSUME Reading, error' = error, UNCHANGED text, Depth' = Depth,
             \A f \in Opened : open'[f].brace = open[f].brace,
             pos' \in pos..(Len(text) + 1), Plain(pos, pos')
      PROVE  BInv'
  BY <1>2, <1>4, <1>5, PlainKeepsBalance
<1>6. CASE SkipLineSpace
  <2>1. /\ stage = "nodes" /\ pos' = pos + 1 /\ At(pos, LineSpace)
        /\ UNCHANGED <<text, stage, open, error>>
    BY <1>6 DEF SkipLineSpace
  <2>2. Plain(pos, pos') /\ pos' \in pos..(Len(text) + 1)
    BY <1>1, <2>1, PlainToken, QuietTokens, AtBounds
  <2>3. QED
    BY <1>5, <2>1, <2>2 DEF Reading, Depth
<1>7. CASE BeginNode
  <2> DEFINE start == Behind(pos)
             f == [node |-> Len(nodes) + 1, skip |-> Dashed(pos), hide |-> FALSE, brace |-> 0]
  <2>1. /\ IsNode(start) /\ open' = Append(open, f) /\ pos' = NameAt(start) + 1
        /\ stage = "nodes" /\ stage' = "node" /\ UNCHANGED <<text, error>>
    BY <1>7 DEF BeginNode
  <2> HIDE DEF f
  <2>2. start \in pos..(Len(text) + 1) /\ start \in 1..(Len(text) + 1) /\ Plain(pos, start)
    BY <1>1, BehindBounds, PlainBehind
  <2>3. NameAt(start) \in start..Len(text) /\ Plain(start, NameAt(start) + 1)
    BY <1>1, <2>1, <2>2, NameBounds, PlainLiteral
  <2>4. pos' \in pos..(Len(text) + 1) /\ pos' \in Int /\ start \in Int
    BY <1>1, <2>1, <2>2, <2>3
  <2>5. Plain(pos, pos')
    BY <1>1, <2>1, <2>2, <2>3, <2>4, PlainThenPlain
  <2>6. /\ Len(open) \in Nat /\ Len(open') = Len(open) + 1
        /\ \A g \in 1..Len(open) : open'[g] = open[g]
    BY <2>1 DEF TypeOK
  <2>7. Depth = Len(open) /\ Depth' = Len(open)
    <3>1. Depth = Len(open) /\ stage' # "nodes"
      BY <2>1 DEF Depth
    <3>2. Depth' = Len(open') - 1
      BY <3>1, Zenon DEF Depth
    <3>3. QED
      BY <2>6, <3>1, <3>2
  <2>8. \A g \in Opened : open'[g].brace = open[g].brace
    BY <2>6, <2>7 DEF Opened
  <2>9. QED
    BY <1>5, <2>1, <2>4, <2>5, <2>7, <2>8 DEF Reading
<1>8. CASE Argument \/ SetProperty \/ IgnoreEntry
  <2>1. stage = "node" /\ UNCHANGED <<text, stage, open, error>>
    BY <1>8 DEF Argument, SetProperty, IgnoreEntry, Entry
  <2>2. \/ IsEntry(Onward) /\ pos' = EntryEnd(Onward)
        \/ IsEntry(Behind(Onward)) /\ pos' = EntryEnd(Behind(Onward))
    BY <1>8 DEF Argument, SetProperty, IgnoreEntry, Entry, EntryAhead, IsEntry
  <2>3. Plain(pos, pos')
    BY <2>2, PlainOnward
  <2>4. pos' \in pos..(Len(text) + 1)
    <3>1. /\ Onward \in pos..(Len(text) + 1) /\ Onward \in 1..(Len(text) + 1)
          /\ Behind(Onward) \in Onward..(Len(text) + 1)
          /\ Behind(Onward) \in 1..(Len(text) + 1)
      BY OnwardBounds
    <3>2. \/ pos' \in (Onward + 1)..(Len(text) + 1)
          \/ pos' \in (Behind(Onward) + 1)..(Len(text) + 1)
      BY <1>1, <2>2, <3>1, EntryBounds
    <3>3. QED
      BY <1>1, <3>1, <3>2
  <2>5. QED
    BY <1>5, <2>1, <2>3, <2>4 DEF Reading, Depth
<1>9. CASE OpenBlock
  <2>1. Reading /\ error' = error
    BY <1>9, Zenon DEF OpenBlock, Reading
  <2>2. QED
    BY <1>2, <1>4, <1>9, <2>1, OpenKeepsBalance
<1>10. CASE CloseBlock
  <2>1. Reading /\ error' = error
    BY <1>10, Zenon DEF CloseBlock, Reading
  <2>2. QED
    BY <1>2, <1>4, <1>10, <2>1, CloseKeepsBalance
<1>11. CASE EndNode
  <2> DEFINE d == Len(open)
  <2>1. /\ stage \in {"node", "closed"} /\ stage' = "nodes" /\ open' = SubSeq(open, 1, d - 1)
        /\ pos' = IF At(Onward, Terminator) THEN Onward + 1 ELSE Onward
        /\ UNCHANGED <<text, error>> /\ open # <<>>
    BY <1>11 DEF EndNode, CanEnd, Front, TypeOK
  <2>2. d \in DOMAIN open /\ d \in Nat /\ DOMAIN open = 1..d /\ open \in Seq(Frame)
    BY <2>1, NowIsOpen DEF TypeOK
  <2>3. d - 1 \in 0..Len(open)
    BY <2>2
  <2>4. Len(open') = d - 1 /\ \A g \in 1..(d - 1) : open'[g] = open[g]
    BY <2>1, <2>2, <2>3, Cut
  <2>5. Depth = d - 1 /\ Depth' = d - 1
    <3>1. stage # "nodes"
      BY <2>1
    <3>2. QED
      BY <2>1, <2>4, <3>1, Zenon DEF Depth
  <2>6. \A g \in Opened : open'[g].brace = open[g].brace
    BY <2>4, <2>5 DEF Opened
  <2>7. Plain(pos, pos')
    BY <2>1, PlainOnward
  <2>8. pos' \in pos..(Len(text) + 1)
    <3>1. At(Onward, Terminator) => Onward + 1 \in 1..(Len(text) + 1)
      BY <1>1, AtBounds
    <3>2. QED
      BY <1>1, <2>1, <3>1, OnwardBounds
  <2>9. Reading
    BY <2>1 DEF Reading
  <2>10. QED
    BY <1>5, <2>1, <2>5, <2>6, <2>7, <2>8, <2>9
<1>12. CASE Finish
  <2>1. Reading /\ ~Reading' /\ error' = error
    BY <1>12 DEF Finish, Reading
  <2>2. QED
    BY <1>4, <2>1
<1>13. CASE Fail
  <2>1. stage = "nodes" /\ stage' = "failed" /\ error' = error
    BY <1>13, Zenon DEF Fail
  <2>2. Reading /\ ~Reading'
    BY <2>1 DEF Reading
  <2>3. QED
    BY <1>4, <2>1, <2>2
<1>14. CASE Unclosed
  <2>1. stage = "nodes" /\ stage' = "failed"
    BY <1>14 DEF Unclosed
  <2>2. Reading /\ ~Reading'
    BY <2>1 DEF Reading
  <2>3. UnclosedNamesTheInnermost'
    BY <1>2, <1>14, <2>2, UnclosedIsInnermost
  <2>4. QED
    BY <2>1, <2>2, <2>3 DEF BInv
<1>15. CASE UNCHANGED vars
  <2>1. UNCHANGED <<text, pos, stage, open, error>>
    BY <1>15 DEF vars
  <2>2. Lefts' = Lefts /\ Surplus' = Surplus /\ Opened' = Opened /\ Depth' = Depth
    BY <2>1, Zenon DEF Lefts, Rights, Surplus, From, At, Opened, Depth
  <2>3. (Reading' <=> Reading) /\ (Balanced' <=> Balanced)
    BY <2>1, <2>2 DEF Reading, Balanced
  <2>4. UnclosedNamesTheInnermost' <=> UnclosedNamesTheInnermost
    <3>1. Unmet' = Unmet
      BY <2>1, <2>2 DEF Unmet
    <3>2. TypeOK'
      BY NextKeepsTypes
    <3>3. (TypeOK => (UnclosedNamesTheInnermost <=> (error # 0 => error = Max(Unmet))))'
      BY UnpairedIsUnmet, PTL
    <3>4. (error # 0 => error = Max(Unmet))' <=> (error # 0 => error = Max(Unmet))
      BY <2>1, <3>1 DEF Max
    <3>5. QED
      BY <3>2, <3>3, <3>4, UnpairedIsUnmet
  <2>5. QED
    BY <2>1, <2>3, <2>4 DEF BInv
<1>16. QED
  BY <1>6, <1>7, <1>8, <1>9, <1>10, <1>11, <1>12, <1>13, <1>14, <1>15 DEF Next, Done

\* When a text ends within children the error names the last of the left braces
\* that nothing closes (errors.rs, ParseError::merge, which keeps what an inner
\* rule reports), for every list of tokens: not one that has met its right
\* brace, nor one further out.
THEOREM NamesTheInnermost == Spec => []UnclosedNamesTheInnermost
<1>1. BInv => UnclosedNamesTheInnermost
  BY DEF BInv
<1>2. QED
  BY InitTypes, BInit, NextKeepsTypes, NextKeepsBalance, <1>1, PTL DEF Spec

----------------------------------------------------------------------------
(***************************************************************************)
(* What is laid out is read back.                                          *)
(***************************************************************************)

Lay    == written.places
Placed == DOMAIN Lay

\* At stages "node" and "closed" the node at hand is the last that is open.
IsNow(k) == stage \in {"node", "closed"} /\ Lay[k].name = nodes[Now].name
\* What reading has come to: a node's name, the inside of its braces, one of the
\* nodes around it behind a slashdash and its end, or such children and theirs.
Met(k)     == Lay[k].name < pos
Entered(k) == Lay[k].brace # 0 /\ Lay[k].brace < pos /\ pos <= Lay[k].close
InHand(k)  == Entered(k) \/ IsNow(k)
Over(j, k) == Within(Lay[j], Lay[k].name)
Left(j)    == Lay[j].dash # 0 /\ Met(j) /\ ~InHand(j)
Hid(j)     == Lay[j].hide # 0 /\ Lay[j].close < pos
Gone(k)    == \E j \in Placed : \/ Left(j) /\ (j = k \/ Over(j, k))
                                \/ Hid(j) /\ Over(j, k)

\* A node of the list is as its place says, as far as that has been read.
ReadBy(place, p) == {o \in ItemsOf(place) : o.at < p}
ReadTo(t, n, place, p) ==
  /\ n.ty = place.ty /\ n.name = place.name
  /\ {n.args[i] : i \in DOMAIN n.args} = ArgsOf(ReadBy(place, p))
  /\ n.props = PropsOf(t, ReadBy(place, p))
  /\ n.block = IF place.brace # 0 /\ place.hide = 0 /\ place.close < p
               THEN <<place.brace, place.close>> ELSE <<>>
ReadAs(n, k) == ReadTo(text, n, Lay[k], pos)
Listed ==
  /\ \A k \in Placed : Met(k) /\ ~Gone(k) <=> \E i \in DOMAIN nodes : nodes[i].name = Lay[k].name
  /\ \A i \in DOMAIN nodes : \E k \in Placed : ReadAs(nodes[i], k)

\* The open nodes are those in hand, and what was before them is remembered.
FrameOf(f, k) ==
  /\ nodes[f.node].name = Lay[k].name
  /\ f.skip <=> Lay[k].dash # 0
  /\ Lay[k].brace # 0 /\ Lay[k].brace < pos =>
       f.brace = Lay[k].brace /\ (f.hide <=> Lay[k].hide # 0)
Stacked ==
  /\ \A f \in DOMAIN open : \E k \in Placed : InHand(k) /\ FrameOf(open[f], k)
  /\ \A k \in Placed : InHand(k) => \E f \in DOMAIN open : FrameOf(open[f], k)

\* Reading is within the head of the node at hand and of no other.
Outside(place, p) == p <= NodeBegin(place) \/ HeadEnd(place) <= p
Clear(k) == Outside(Lay[k], pos)
InStep ==
  /\ stage = "nodes" => OnlyLines(text, Lay, pos)
  /\ \A k \in Placed :
       /\ Clear(k) \/ (stage = "node" /\ IsNow(k))
       /\ stage = "node" /\ IsNow(k) =>
            \E j \in 1..(Len(Lay[k].items) + 1) : pos = Since(Lay[k], j)
       /\ stage = "closed" /\ IsNow(k) => Lay[k].brace # 0 /\ pos = Lay[k].close + 1

\* The text is the document it is said to be.
Well == text \in Seq(Token) /\ Lay \in Seq(Place) /\ LaidOut(text, Lay)

\* Of a document: while it is read, the list has what has been read and nothing of
\* what a slashdash has taken away.
RInv ==
  written.known =>
    /\ Well
    /\ Reading => InStep /\ Listed /\ Stacked
    /\ ReadsBackWhatWasWritten

----------------------------------------------------------------------------
\* Tokens and runs

LEMMA IsAt == \A p, tokens : Is(text, p, tokens) <=> At(p, tokens)
BY DEF Is, At

\* What an entry or a node can begin with.
Starts == Literal \cup {"ty", "/-"}

LEMMA StartsAreNoSpace ==
  ASSUME NEW p, At(p, Starts)
  PROVE  /\ ~At(p, NodeSpace) /\ ~At(p, LineSpace) /\ ~At(p, Terminator) /\ ~At(p, {"="})
         /\ p \notin Lefts /\ p \notin Rights
<1>1. /\ ~At(p, NodeSpace) /\ ~At(p, LineSpace) /\ ~At(p, Terminator) /\ ~At(p, {"="})
  BY DEF At, Starts, Literal, Word, NodeSpace, LineSpace, Terminator, Blank
<1>2. At(p, Quiet)
  <2>1. Starts \subseteq Quiet
    BY QuietTokens DEF Starts
  <2>2. QED
    BY <2>1 DEF At
<1>3. QED
  BY <1>1, <1>2, BracesAreNotQuiet

LEMMA StartsApart ==
  ASSUME NEW p
  PROVE  /\ At(p, {"ty"}) => ~At(p, Literal) /\ ~At(p, Word) /\ ~Dashed(p) /\ At(p, Starts)
         /\ At(p, Literal) => ~At(p, {"ty"}) /\ ~Dashed(p) /\ At(p, Starts)
         /\ At(p, Word) => At(p, Literal)
         /\ Dashed(p) => At(p, Starts)
BY DEF At, Starts, Literal, Word, Dashed

LEMMA SpaceIsNoEquals ==
  ASSUME NEW p
  PROVE  /\ At(p, NodeSpace) => ~At(p, {"="})
         /\ At(p, Blank) => At(p, NodeSpace)
         /\ At(p, Terminator) => ~At(p, NodeSpace) /\ ~At(p, {"="}) /\ ~At(p, Starts)
         /\ At(p, {"="}) => ~At(p, Blank)
BY DEF At, NodeSpace, Blank, Terminator, Starts, Literal, Word

LEMMA BracesAreNoSpace ==
  ASSUME NEW p, p \in Lefts \/ p \in Rights
  PROVE  /\ ~At(p, NodeSpace) /\ ~At(p, LineSpace) /\ ~At(p, Starts) /\ ~At(p, {"="})
         /\ ~At(p, Terminator) /\ ~(p \in Lefts /\ p \in Rights)
<1>1. ~At(p, Quiet)
  BY BracesAreNotQuiet
<1>2. Starts \subseteq Quiet
  BY QuietTokens DEF Starts
<1>3. QED
  BY <1>1, <1>2, QuietTokens, BracesAreNotQuiet DEF At

LEMMA BraceIs ==
  /\ \A p : p \in Lefts <=> At(p, {"{"})
  /\ \A p : p \in Rights <=> At(p, {"}"})
BY Zenon DEF Lefts, Rights, At

\* A run of a kind ends at the first token that is not of the kind.
LEMMA RunEndIs ==
  ASSUME text \in Seq(Token), NEW p \in 1..(Len(text) + 1), NEW q \in p..(Len(text) + 1),
         NEW tokens, Only(text, p, q, tokens), ~At(q, tokens)
  PROVE  RunEnd(p, tokens) = q
<1> DEFINE run == {x \in p..Len(text) : \A r \in p..x : text[r] \in tokens}
<1>1. Len(text) \in Nat /\ DOMAIN text = 1..Len(text) /\ p \in Int /\ q \in Int
  BY TokensAreFinite
<1>2. run = p..(q - 1)
  <2>1. \A x \in p..(q - 1) : x \in run
    BY <1>1 DEF Only, Is
  <2>2. ASSUME NEW x \in run, x >= q PROVE FALSE
    BY <1>1, <2>2 DEF At
  <2>3. QED
    BY <1>1, <2>1, <2>2
<1>3. Cardinality(p..(q - 1)) = q - p
  <2>1. Cardinality(p..(q - 1)) = IF p > q - 1 THEN 0 ELSE q - 1 - p + 1
    BY <1>1, FS_Interval
  <2>2. QED
    BY <1>1, <2>1
<1> HIDE DEF run
<1>4. RunEnd(p, tokens) = p + Cardinality(run)
  BY DEF RunEnd, run
<1>5. QED
  BY <1>1, <1>2, <1>3, <1>4

\* Behind an entry's literal blanks are followed by no equals sign.
LEMMA NoEqualsAhead ==
  ASSUME text \in Seq(Token), NEW p \in 1..(Len(text) + 1), NEW q \in p..(Len(text) + 1),
         Only(text, p, q, NodeSpace), ~At(q, NodeSpace), ~At(q, {"="})
  PROVE  ~At(RunEnd(p, Blank), {"="})
<1> DEFINE e == RunEnd(p, Blank)
<1>1. e \in p..(Len(text) + 1) /\ \A r \in p..(e - 1) : At(r, Blank)
  BY RunEndBounds, RunIsOfItsKind
<1>2. \A r \in p..(q - 1) : At(r, NodeSpace)
  BY IsAt DEF Only
<1>3. Len(text) \in Nat /\ p \in Int /\ q \in Int
  BY TokensAreFinite
<1> HIDE DEF e
<1>4. CASE e < q
  <2>1. At(e, NodeSpace)
    BY <1>1, <1>2, <1>3, <1>4
  <2>2. QED
    BY <2>1, SpaceIsNoEquals DEF e
<1>5. CASE e > q
  <2>1. At(q, Blank)
    BY <1>1, <1>3, <1>5
  <2>2. QED
    BY <2>1, SpaceIsNoEquals
<1>6. CASE e = q
  BY <1>6 DEF e
<1>7. QED
  BY <1>1, <1>3, <1>4, <1>5, <1>6

----------------------------------------------------------------------------
\* An entry by itself

LEMMA IsBounds ==
  ASSUME text \in Seq(Token), NEW p, NEW tokens, Is(text, p, tokens)
  PROVE  p \in 1..Len(text) /\ p \in Nat /\ p # 0 /\ Len(text) \in Nat /\ At(p, tokens)
  BY TokensAreFinite DEF At, Is

\* An annotation and what it is of.
LEMMA TypedIs ==
  ASSUME text \in Seq(Token), NEW ty \in Nat, NEW at, NEW tokens, tokens \subseteq Literal,
         TypeIsAt(text, ty, at), Is(text, at, tokens)
  PROVE  LET s == StartOf(ty, at)
         IN  /\ s \in 1..at /\ at \in 1..Len(text) /\ Len(text) \in Nat
             /\ LiteralAt(s) = at /\ NameAt(s) = at /\ At(s, Starts) /\ ~Dashed(s)
             /\ ValueFrom(s) = [ty |-> ty, at |-> at]
             /\ ty = 0 => s = at /\ At(s, tokens)
             /\ ty # 0 => s = ty /\ s < at /\ At(s, {"ty"})
<1>1. at \in 1..Len(text) /\ Len(text) \in Nat /\ at \in Nat /\ At(at, tokens) /\ At(at, Literal)
  BY IsBounds DEF At
<1>2. CASE ty = 0
  <2>1. ~At(at, {"ty"}) /\ At(at, Starts) /\ ~Dashed(at)
    BY <1>1, StartsApart
  <2>2. LiteralAt(at) = at /\ NameAt(at) = at /\ ValueFrom(at) = [ty |-> 0, at |-> at]
    BY <2>1 DEF LiteralAt, NameAt, ValueFrom
  <2>3. QED
    BY <1>1, <1>2, <2>1, <2>2 DEF StartOf
<1>3. CASE ty # 0
  <2>1. Is(text, ty, {"ty"}) /\ Only(text, ty + 1, at, Blank)
    BY <1>3 DEF TypeIsAt
  <2>2. ty \in 1..Len(text) /\ At(ty, {"ty"})
    BY <2>1, IsBounds
  <2>3. ty + 1 \in 1..(Len(text) + 1) /\ at \in (ty + 1)..(Len(text) + 1)
    BY <1>1, <2>1, <2>2 DEF Only
  <2>4. ~At(at, Blank)
    BY <1>1, StartsApart, StartsAreNoSpace, SpaceIsNoEquals
  <2>5. RunEnd(ty + 1, Blank) = at
    BY <2>1, <2>3, <2>4, RunEndIs
  <2>6. LiteralAt(ty) = at /\ NameAt(ty) = at
    BY <2>2, <2>5 DEF LiteralAt, NameAt
  <2>7. ValueFrom(ty) = [ty |-> ty, at |-> at]
    BY <2>2, <2>6 DEF ValueFrom
  <2>8. At(ty, Starts) /\ ~Dashed(ty)
    BY <2>2, StartsApart
  <2>9. QED
    BY <1>1, <1>3, <2>2, <2>3, <2>6, <2>7, <2>8 DEF StartOf
<1>4. QED
  BY <1>2, <1>3

\* A slashdash and what it is before.
LEMMA DashedIs ==
  ASSUME text \in Seq(Token), NEW dash \in Nat, NEW start \in 1..Len(text),
         DashIsAt(text, dash, start), ~At(start, LineSpace), ~Dashed(start)
  PROVE  LET b == Outset(dash, start)
         IN  /\ b \in 1..start /\ Behind(b) = start /\ (Dashed(b) <=> dash # 0)
             /\ dash # 0 => b < start
             /\ dash = 0 => b = start
<1>1. Len(text) \in Nat
  BY TokensAreFinite
<1>2. CASE dash = 0
  BY <1>1, <1>2 DEF Outset, Behind
<1>3. CASE dash # 0
  <2>1. Is(text, dash, {"/-"}) /\ Only(text, dash + 1, start, LineSpace)
    BY <1>3 DEF DashIsAt
  <2>2. dash \in 1..Len(text) /\ Dashed(dash)
    BY <2>1, IsBounds DEF Dashed
  <2>3. dash + 1 \in 1..(Len(text) + 1) /\ start \in (dash + 1)..(Len(text) + 1)
    BY <1>1, <2>1, <2>2 DEF Only
  <2>4. RunEnd(dash + 1, LineSpace) = start
    BY <2>1, <2>3, RunEndIs
  <2>5. Behind(dash) = start
    BY <2>2, <2>4 DEF Behind
  <2>6. QED
    BY <1>1, <1>3, <2>2, <2>3, <2>5 DEF Outset
<1>4. QED
  BY <1>2, <1>3

LEMMA ItemParts ==
  ASSUME NEW i \in Item
  PROVE  i.dash \in Nat /\ i.key \in Nat /\ i.equals \in Nat /\ i.ty \in Nat /\ i.at \in Nat
  BY DEF Item

\* An entry is recognised where it starts, and read as what it is.
LEMMA ItemIs ==
  ASSUME text \in Seq(Token), NEW i \in Item, ItemIsAt(text, i)
  PROVE  LET b == ItemBegin(i)
             s == ItemStart(i)
         IN  /\ b \in 1..s /\ s \in 1..i.at /\ i.at \in 1..Len(text) /\ Len(text) \in Nat
             /\ i.key # 0 => s = i.key /\ s < i.at
             /\ Behind(b) = s /\ (Dashed(b) <=> i.dash # 0)
             /\ At(b, Starts)
             /\ ~At(RunEnd(i.at + 1, Blank), {"="}) =>
                  /\ IF i.key = 0 THEN IsArgument(s) /\ ~IsProperty(s) /\ ValueFrom(s) = [ty |-> i.ty, at |-> i.at]
                     ELSE IsProperty(s) /\ ~IsArgument(s) /\ ValueFrom(ValueAt(s)) = [ty |-> i.ty, at |-> i.at]
                  /\ IsEntry(s) /\ EntryEnd(s) = i.at + 1
<1> DEFINE b == ItemBegin(i)
           s == ItemStart(i)
           v == ValueStart(i)
<1>1. /\ DashIsAt(text, i.dash, s) /\ KeyIsAt(text, i)
      /\ TypeIsAt(text, i.ty, i.at) /\ Is(text, i.at, Literal)
  BY DEF ItemIsAt
<1>2. /\ v \in 1..i.at /\ i.at \in 1..Len(text) /\ Len(text) \in Nat
      /\ LiteralAt(v) = i.at /\ At(v, Starts) /\ ~Dashed(v)
      /\ ValueFrom(v) = [ty |-> i.ty, at |-> i.at]
      /\ i.ty = 0 => v = i.at /\ At(v, Literal)
      /\ i.ty # 0 => v = i.ty /\ v < i.at /\ At(v, {"ty"})
  BY <1>1, ItemParts, TypedIs DEF ValueStart
<1> HIDE DEF v
<1>3. IsValue(v)
  BY <1>1, <1>2, IsAt DEF IsValue
<1>4. CASE i.key # 0
  <2> DEFINE k == i.key
             e == i.equals
  <2>1. s = k
    BY <1>4 DEF ItemStart
  <2>2. /\ Is(text, k, Word) /\ Only(text, k + 1, e, Blank)
        /\ Is(text, e, {"="}) /\ Only(text, e + 1, v, Blank)
    BY <1>1, <1>4 DEF KeyIsAt, v
  <2>3. /\ k \in 1..Len(text) /\ e \in 1..Len(text) /\ At(k, Word) /\ At(e, {"="}) /\ ~At(e, Blank)
        /\ ~At(v, Blank)
    BY <1>2, <2>2, IsBounds, SpaceIsNoEquals, StartsAreNoSpace
  <2>4. k < e /\ e < v /\ v <= i.at /\ k \in Nat /\ e \in Nat /\ v \in Nat
    BY <1>2, <2>2, <2>3 DEF Only
  <2> HIDE DEF k, e
  <2>5. EqualsAt(k) = e
    <3>1. k + 1 \in 1..(Len(text) + 1) /\ e \in (k + 1)..(Len(text) + 1)
      BY <1>2, <2>3, <2>4
    <3>2. QED
      BY <2>2, <2>3, <3>1, RunEndIs DEF EqualsAt
  <2>6. ValueAt(k) = v
    <3>1. e + 1 \in 1..(Len(text) + 1) /\ v \in (e + 1)..(Len(text) + 1)
      BY <1>2, <2>3, <2>4
    <3>2. QED
      BY <2>2, <2>3, <2>5, <3>1, RunEndIs DEF ValueAt
  <2>7. IsProperty(k) /\ IsKeyed(k)
    BY <1>3, <2>3, <2>5, <2>6, StartsApart DEF IsProperty, IsKeyed
  <2>8. /\ ~IsArgument(k) /\ IsEntry(k)
    BY <2>7 DEF IsArgument, IsEntry
  <2>9. EntryEnd(k) = i.at + 1
    BY <1>2, <2>6, <2>7, <2>4 DEF EntryEnd
  <2>10. At(k, Starts) /\ ~Dashed(k) /\ ~At(k, LineSpace)
    BY <2>3, StartsApart, StartsAreNoSpace
  <2>11. k \in 1..i.at /\ k < i.at
    BY <1>2, <2>3, <2>4
  <2>12. /\ b \in 1..k /\ Behind(b) = k /\ (Dashed(b) <=> i.dash # 0)
         /\ i.dash # 0 => b < k
         /\ i.dash = 0 => b = k
    <3>1. i.dash \in Nat /\ DashIsAt(text, i.dash, k) /\ b = Outset(i.dash, k)
      BY <1>1, <2>1, ItemParts DEF ItemBegin
    <3>2. QED
      BY <2>3, <2>10, <3>1, DashedIs
  <2>13. At(b, Starts)
    BY <2>10, <2>12, StartsApart
  <2>14. s = i.key
    BY <2>1 DEF k
  <2>15. QED
    BY <1>2, <1>4, <2>1, <2>6, <2>7, <2>8, <2>9, <2>11, <2>12, <2>13, <2>14
<1>5. CASE i.key = 0
  <2>1. s = v
    BY <1>5 DEF ItemStart, v
  <2>2. /\ b \in 1..v /\ Behind(b) = v /\ (Dashed(b) <=> i.dash # 0)
        /\ i.dash # 0 => b < v
        /\ i.dash = 0 => b = v
    <3>1. i.dash \in Nat /\ DashIsAt(text, i.dash, v) /\ b = Outset(i.dash, v)
      BY <1>1, <2>1, ItemParts DEF ItemBegin
    <3>2. v \in 1..Len(text) /\ ~At(v, LineSpace)
      BY <1>2, StartsAreNoSpace
    <3>3. QED
      BY <1>2, <3>1, <3>2, DashedIs
  <2>3. At(b, Starts)
    BY <1>2, <2>2, StartsApart
  <2>4. ASSUME ~At(RunEnd(i.at + 1, Blank), {"="})
        PROVE  /\ IsArgument(v) /\ ~IsProperty(v) /\ IsEntry(v) /\ EntryEnd(v) = i.at + 1
    <3>1. ~IsKeyed(v)
      <4>1. CASE i.ty = 0
        BY <1>2, <2>4, <4>1 DEF IsKeyed, EqualsAt
      <4>2. CASE i.ty # 0
        BY <1>2, <4>2, StartsApart DEF IsKeyed
      <4>3. QED
        BY <4>1, <4>2
    <3>2. IsArgument(v) /\ ~IsProperty(v) /\ IsEntry(v)
      BY <1>3, <3>1 DEF IsArgument, IsProperty, IsEntry
    <3>3. EntryEnd(v) = i.at + 1
      BY <1>2, <3>2 DEF EntryEnd
    <3>4. QED
      BY <3>2, <3>3
  <2>5. QED
    BY <1>2, <1>5, <2>1, <2>2, <2>3, <2>4
<1>6. QED
  BY <1>4, <1>5

----------------------------------------------------------------------------
\* A node by itself

LEMMA LeastOf ==
  ASSUME NEW B \in SUBSET Nat, B # {}
  PROVE  \E x \in B : \A y \in B : ~(y < x)
<1> DEFINE R == OpToRel(<, Nat)
<1>1. PICK x \in B : \A y \in B : ~(<<y, x>> \in R)
  <2>1. B \subseteq Nat /\ B # {}
    OBVIOUS
  <2> HIDE DEF R
  <2>2. QED
    BY <2>1, WFMin, NatLessThanWellFounded DEF R
<1>2. QED
  BY <1>1 DEF OpToRel

\* What rises from each number to the next rises.  (Of the numbers above i at
\* which f is not above f[i], the least would not be i + 1, and f would be above
\* at the one before.)
LEMMA Rising ==
  ASSUME NEW m \in Nat, NEW f, \A j \in 1..(m + 1) : f[j] \in Nat,
         \A j \in 1..m : f[j] < f[j + 1]
  PROVE  \A i, j \in 1..(m + 1) : i < j => f[i] < f[j]
<1> SUFFICES ASSUME NEW i \in 1..(m + 1) PROVE \A j \in 1..(m + 1) : i < j => f[i] < f[j]
  OBVIOUS
<1> DEFINE B == {j \in 1..(m + 1) : i < j /\ ~(f[i] < f[j])}
<1>1. SUFFICES ASSUME B # {} PROVE FALSE
  OBVIOUS
<1>2. PICK k \in B : \A y \in B : ~(y < k)
  <2>1. B \subseteq Nat
    OBVIOUS
  <2> HIDE DEF B
  <2>2. QED
    BY <1>1, <2>1, LeastOf
<1>3. k - 1 \in 1..m /\ i <= k - 1 /\ k - 1 < k /\ k - 1 \in 1..(m + 1)
  BY <1>2
<1>4. f[k - 1] < f[k]
  BY <1>3
<1>5. CASE i = k - 1
  BY <1>2, <1>4, <1>5
<1>6. CASE i < k - 1
  <2>1. f[i] < f[k - 1]
    BY <1>2, <1>3, <1>6
  <2>2. QED
    BY <1>2, <1>3, <1>4, <2>1
<1>7. QED
  BY <1>3, <1>5, <1>6

LEMMA PlaceParts ==
  ASSUME NEW n \in Place
  PROVE  /\ n.dash \in Nat /\ n.ty \in Nat /\ n.name \in Nat /\ n.hide \in Nat
         /\ n.brace \in Nat /\ n.close \in Nat
         /\ n.items \in Seq(Item) /\ Len(n.items) \in Nat /\ DOMAIN n.items = 1..Len(n.items)
         /\ \A j \in 1..Len(n.items) : n.items[j] \in Item
<1>1. n.items \in Seq(Item)
  BY DEF Place
<1>2. QED
  BY <1>1 DEF Place

\* A node is recognised where it begins.
LEMMA NodeIs ==
  ASSUME text \in Seq(Token), NEW n \in Place, NodeIsAt(text, n)
  PROVE  LET b == NodeBegin(n)
             s == NodeStart(n)
         IN  /\ b \in 1..s /\ s \in 1..n.name /\ n.name \in 1..Len(text) /\ Len(text) \in Nat
             /\ Behind(b) = s /\ (Dashed(b) <=> n.dash # 0) /\ At(b, Starts)
             /\ IsNode(s) /\ NameAt(s) = n.name /\ n.ty = IF At(s, {"ty"}) THEN s ELSE 0
             /\ At(n.name, Word)
             /\ ~IsNode(b) => n.dash # 0
<1> DEFINE b == NodeBegin(n)
           s == NodeStart(n)
<1>1. /\ DashIsAt(text, n.dash, s) /\ TypeIsAt(text, n.ty, n.name) /\ Is(text, n.name, Word)
  BY DEF NodeIsAt
<1>2. Word \subseteq Literal
  BY DEF Literal
<1>3. /\ s \in 1..n.name /\ n.name \in 1..Len(text) /\ Len(text) \in Nat
      /\ NameAt(s) = n.name /\ At(s, Starts) /\ ~Dashed(s)
      /\ n.ty = 0 => s = n.name /\ At(s, Word)
      /\ n.ty # 0 => s = n.ty /\ s < n.name /\ At(s, {"ty"})
  BY <1>1, <1>2, PlaceParts, TypedIs DEF NodeStart
<1>4. At(n.name, Word)
  BY <1>1, IsAt
<1>5. IsNode(s)
  BY <1>3, <1>4 DEF IsNode
<1>6. n.ty = IF At(s, {"ty"}) THEN s ELSE 0
  BY <1>3, StartsApart
<1> HIDE DEF s
<1>7. s \in 1..Len(text) /\ ~At(s, LineSpace)
  BY <1>3, StartsAreNoSpace
<1>8. b = Outset(n.dash, s) /\ n.dash \in Nat
  BY PlaceParts DEF NodeBegin, s
<1> HIDE DEF b
<1>9. /\ b \in 1..s /\ Behind(b) = s /\ (Dashed(b) <=> n.dash # 0)
      /\ n.dash # 0 => b < s
      /\ n.dash = 0 => b = s
  BY <1>1, <1>3, <1>7, <1>8, DashedIs
<1>10. At(b, Starts)
  BY <1>3, <1>9, StartsApart
<1>11. QED
  BY <1>3, <1>4, <1>5, <1>6, <1>9, <1>10 DEF b, s

\* Its entries come one behind the other.
LEMMA EntriesRise ==
  ASSUME text \in Seq(Token), NEW n \in Place, NodeIsAt(text, n)
  PROVE  /\ n.name \in 1..Len(text) /\ Len(text) \in Nat /\ Len(n.items) \in Nat
         /\ Since(n, 1) = n.name + 1 /\ EntriesEnd(n) \in (n.name + 1)..(Len(text) + 1)
         /\ EntriesEnd(n) = Since(n, Len(n.items) + 1)
         /\ \A j \in 1..(Len(n.items) + 1) : Since(n, j) \in (n.name + 1)..EntriesEnd(n)
         /\ \A i, j \in 1..(Len(n.items) + 1) : i < j => Since(n, i) < Since(n, j)
         /\ \A j \in 1..Len(n.items) :
              /\ n.items[j] \in Item /\ ItemIsAt(text, n.items[j]) /\ j \in DOMAIN n.items
              /\ Since(n, j + 1) = n.items[j].at + 1
              /\ Since(n, j) < ItemBegin(n.items[j])
              /\ ItemBegin(n.items[j]) \in 1..Len(text)
              /\ n.items[j].at \in 1..Len(text)
              /\ Only(text, Since(n, j), ItemBegin(n.items[j]), NodeSpace)
<1> DEFINE m == Len(n.items)
<1>1. /\ n.items \in Seq(Item) /\ m \in Nat /\ DOMAIN n.items = 1..m
      /\ \A j \in 1..m : n.items[j] \in Item
  BY PlaceParts
<1>2. n.name \in 1..Len(text) /\ Len(text) \in Nat
  BY NodeIs
<1> HIDE DEF m
<1>3. Since(n, 1) = n.name + 1
  BY DEF Since
<1>4. ASSUME NEW j \in 1..m
      PROVE  /\ n.items[j] \in Item /\ ItemIsAt(text, n.items[j]) /\ j \in DOMAIN n.items
             /\ Since(n, j + 1) = n.items[j].at + 1
             /\ Only(text, Since(n, j), ItemBegin(n.items[j]), NodeSpace)
             /\ Since(n, j) # ItemBegin(n.items[j])
             /\ ItemBegin(n.items[j]) \in 1..n.items[j].at
             /\ n.items[j].at \in 1..Len(text)
  <2>1. /\ ItemIsAt(text, n.items[j]) /\ Since(n, j) # ItemBegin(n.items[j])
        /\ Only(text, Since(n, j), ItemBegin(n.items[j]), NodeSpace)
    BY <1>1 DEF NodeIsAt, EntriesAreAt
  <2>2. j + 1 # 1 /\ j + 1 - 1 = j
    BY <1>1
  <2>3. Since(n, j + 1) = n.items[j].at + 1
    BY <2>2 DEF Since
  <2>4. n.items[j] \in Item
    BY <1>1
  <2>5. /\ ItemBegin(n.items[j]) \in 1..ItemStart(n.items[j])
        /\ ItemStart(n.items[j]) \in 1..n.items[j].at /\ n.items[j].at \in 1..Len(text)
    BY <2>1, <2>4, ItemIs
  <2>6. ItemBegin(n.items[j]) \in 1..n.items[j].at
    BY <2>5
  <2>7. QED
    BY <1>1, <2>1, <2>3, <2>4, <2>5, <2>6
<1>5. \A j \in 1..(m + 1) : Since(n, j) \in 1..(Len(text) + 1)
  <2>1. ASSUME NEW j \in 1..(m + 1) PROVE Since(n, j) \in 1..(Len(text) + 1)
    <3>1. CASE j = 1
      BY <1>2, <1>3, <3>1
    <3>2. CASE j # 1
      <4>1. j - 1 \in 1..m /\ Since(n, j) = n.items[j - 1].at + 1
        BY <1>1, <3>2 DEF Since
      <4>2. n.items[j - 1].at \in 1..Len(text)
        BY <1>4, <4>1
      <4>3. QED
        BY <1>2, <4>1, <4>2
    <3>3. QED
      BY <3>1, <3>2
  <2>2. QED
    BY <2>1
<1>6. ASSUME NEW j \in 1..m PROVE Since(n, j) < ItemBegin(n.items[j]) /\ Since(n, j) < Since(n, j + 1)
  <2>1. j \in 1..(m + 1)
    BY <1>1
  <2>2. Since(n, j) \in Nat
    BY <1>5, <2>1
  <2>3. Since(n, j) <= ItemBegin(n.items[j])
    BY <1>4 DEF Only
  <2>4. QED
    BY <1>2, <1>4, <2>2, <2>3
<1>7. \A i, j \in 1..(m + 1) : i < j => Since(n, i) < Since(n, j)
  <2> DEFINE f == [j \in 1..(m + 1) |-> Since(n, j)]
  <2>1. \A j \in 1..(m + 1) : f[j] = Since(n, j) /\ f[j] \in Nat
    BY <1>5
  <2>2. \A j \in 1..m : f[j] < f[j + 1]
    <3>1. \A j \in 1..m : j \in 1..(m + 1) /\ j + 1 \in 1..(m + 1)
      BY <1>1
    <3>2. QED
      BY <1>6, <2>1, <3>1
  <2> HIDE DEF f
  <2>3. \A i, j \in 1..(m + 1) : i < j => f[i] < f[j]
    BY <1>1, <2>1, <2>2, Rising
  <2>4. QED
    BY <2>1, <2>3
<1>8. EntriesEnd(n) = Since(n, m + 1) /\ m + 1 \in 1..(m + 1) /\ 1 \in 1..(m + 1)
  BY <1>1 DEF EntriesEnd, m
<1>9. ASSUME NEW j \in 1..(m + 1) PROVE Since(n, j) \in (n.name + 1)..EntriesEnd(n)
  <2>1. Since(n, j) \in 1..(Len(text) + 1) /\ Since(n, m + 1) \in 1..(Len(text) + 1)
    BY <1>5, <1>8
  <2>2. n.name + 1 <= Since(n, j)
    BY <1>2, <1>3, <1>7, <1>8, <2>1
  <2>3. Since(n, j) <= Since(n, m + 1)
    <3>1. j = m + 1 \/ j < m + 1
      BY <1>1
    <3>2. QED
      BY <1>7, <1>8, <2>1, <3>1
  <2>4. QED
    BY <1>2, <1>8, <2>1, <2>2, <2>3
<1>10. EntriesEnd(n) \in (n.name + 1)..(Len(text) + 1)
  BY <1>2, <1>5, <1>8, <1>9
<1>11. \A j \in 1..m : ItemBegin(n.items[j]) \in 1..Len(text)
  BY <1>2, <1>4
<1>12. QED
  BY <1>1, <1>2, <1>3, <1>4, <1>6, <1>7, <1>8, <1>9, <1>10, <1>11 DEF m

\* Its block comes behind them.
LEMMA BlockIs ==
  ASSUME text \in Seq(Token), NEW n \in Place, NodeIsAt(text, n), n.brace # 0
  PROVE  /\ n.brace \in 1..Len(text) /\ n.close \in 1..Len(text) /\ n.brace < n.close
         /\ n.brace \in Lefts /\ n.close \in Rights
         /\ BlockBegin(n) \in EntriesEnd(n)..n.brace /\ EntriesEnd(n) \in 1..n.brace
         /\ BlockBegin(n) \in 1..Len(text)
         /\ Only(text, EntriesEnd(n), BlockBegin(n), NodeSpace)
         /\ Behind(BlockBegin(n)) = n.brace /\ (Dashed(BlockBegin(n)) <=> n.hide # 0)
<1>1. /\ Only(text, EntriesEnd(n), BlockBegin(n), NodeSpace)
      /\ DashIsAt(text, n.hide, n.brace) /\ n.brace < n.close
      /\ n.brace \in Lefts /\ n.close \in Rights
  BY BraceIs, IsAt, Zenon DEF NodeIsAt, BlockIsAt
<1>2. n.brace \in 1..Len(text) /\ n.close \in 1..Len(text) /\ Len(text) \in Nat
  BY <1>1, TokensAreFinite DEF Lefts, Rights
<1>3. ~At(n.brace, LineSpace) /\ ~Dashed(n.brace)
  <2>1. ~At(n.brace, Starts) /\ ~At(n.brace, LineSpace)
    BY <1>1, BracesAreNoSpace
  <2>2. QED
    BY <2>1, StartsApart
<1>4. BlockBegin(n) = Outset(n.hide, n.brace) /\ n.hide \in Nat
  BY PlaceParts DEF BlockBegin
<1>5. /\ BlockBegin(n) \in 1..n.brace /\ Behind(BlockBegin(n)) = n.brace
      /\ Dashed(BlockBegin(n)) <=> n.hide # 0
  BY <1>1, <1>2, <1>3, <1>4, DashedIs
<1>6. EntriesEnd(n) \in Nat /\ EntriesEnd(n) >= 1 /\ EntriesEnd(n) <= BlockBegin(n)
  <2>1. EntriesEnd(n) <= BlockBegin(n)
    BY <1>1 DEF Only
  <2>2. EntriesEnd(n) \in (n.name + 1)..(Len(text) + 1) /\ n.name \in 1..Len(text)
    BY EntriesRise
  <2>3. QED
    BY <1>2, <2>1, <2>2
<1>7. QED
  BY <1>1, <1>2, <1>5, <1>6

\* The parts of a node in their order.
LEMMA PlaceIs ==
  ASSUME text \in Seq(Token), NEW n \in Place, NodeIsAt(text, n)
  PROVE  /\ NodeBegin(n) \in 1..n.name /\ n.name \in 1..Len(text) /\ Len(text) \in Nat
         /\ EntriesEnd(n) \in (n.name + 1)..HeadEnd(n)
         /\ HeadEnd(n) \in (n.name + 1)..NodeEnd(n) /\ NodeEnd(n) \in 1..(Len(text) + 1)
         /\ n.brace \in Nat /\ n.close \in Nat
         /\ n.brace # 0 => /\ n.name < n.brace /\ n.brace < n.close /\ n.close \in 1..Len(text)
                           /\ HeadEnd(n) = n.brace + 1 /\ NodeEnd(n) = n.close + 1
                           /\ n.brace \in 1..Len(text)
         /\ n.brace = 0 => HeadEnd(n) = EntriesEnd(n) /\ NodeEnd(n) = EntriesEnd(n)
<1>1. /\ NodeBegin(n) \in 1..NodeStart(n) /\ NodeStart(n) \in 1..n.name
      /\ n.name \in 1..Len(text) /\ Len(text) \in Nat
  BY NodeIs
<1>2. EntriesEnd(n) \in (n.name + 1)..(Len(text) + 1)
  BY EntriesRise
<1>3. n.brace \in Nat /\ n.close \in Nat
  BY PlaceParts
<1>4. CASE n.brace = 0
  BY <1>1, <1>2, <1>3, <1>4 DEF HeadEnd, NodeEnd
<1>5. CASE n.brace # 0
  <2>1. /\ n.brace \in 1..Len(text) /\ n.close \in 1..Len(text) /\ n.brace < n.close
        /\ EntriesEnd(n) \in 1..n.brace
    BY <1>5, BlockIs
  <2>2. HeadEnd(n) = n.brace + 1 /\ NodeEnd(n) = n.close + 1
    BY <1>5 DEF HeadEnd, NodeEnd
  <2>3. /\ n.name < n.brace /\ EntriesEnd(n) \in (n.name + 1)..(n.brace + 1)
        /\ n.brace + 1 \in (n.name + 1)..(n.close + 1) /\ n.close + 1 \in 1..(Len(text) + 1)
    <3>1. n.name + 1 <= EntriesEnd(n) /\ EntriesEnd(n) <= n.brace /\ EntriesEnd(n) \in Nat
      BY <1>1, <1>2, <2>1
    <3>2. n.name \in Nat /\ n.brace < n.close /\ n.close <= Len(text) /\ Len(text) \in Nat
      BY <1>1, <2>1
    <3>3. n.name < n.brace
      BY <1>3, <3>1, <3>2
    <3>4. EntriesEnd(n) \in (n.name + 1)..(n.brace + 1)
      BY <1>3, <3>1, <3>2
    <3>5. n.brace + 1 \in (n.name + 1)..(n.close + 1) /\ n.close + 1 \in 1..(Len(text) + 1)
      BY <1>3, <3>2, <3>3
    <3>6. QED
      BY <3>3, <3>4, <3>5
  <2>4. NodeBegin(n) \in 1..n.name
    BY <1>1
  <2>5. QED
    BY <1>1, <1>3, <1>5, <2>1, <2>2, <2>3, <2>4
<1>6. QED
  BY <1>4, <1>5

----------------------------------------------------------------------------
\* Nodes among each other

LEMMA LayIs ==
  ASSUME Well, NEW k \in Placed
  PROVE  /\ Lay[k] \in Place /\ NodeIsAt(text, Lay[k]) /\ EndsWell(text, Lay, Lay[k])
         /\ Lay[k].brace # 0 => OnlyLines(text, Lay, Lay[k].brace + 1)
         /\ k \in Nat /\ text \in Seq(Token)
         /\ \A l \in Placed : k < l => InTurn(Lay[k], Lay[l])
BY DEF Well, Placed, LaidOut

LEMMA PartsOf ==
  ASSUME Well, NEW k \in Placed
  PROVE  /\ NodeBegin(Lay[k]) \in 1..Lay[k].name /\ Lay[k].name \in 1..Len(text) /\ Len(text) \in Nat
         /\ EntriesEnd(Lay[k]) \in (Lay[k].name + 1)..HeadEnd(Lay[k])
         /\ HeadEnd(Lay[k]) \in (Lay[k].name + 1)..NodeEnd(Lay[k])
         /\ NodeEnd(Lay[k]) \in 1..(Len(text) + 1)
         /\ Lay[k].brace \in Nat /\ Lay[k].close \in Nat
         /\ Lay[k].brace # 0 =>
              /\ Lay[k].name < Lay[k].brace /\ Lay[k].brace < Lay[k].close
              /\ Lay[k].close \in 1..Len(text) /\ Lay[k].brace \in 1..Len(text)
              /\ HeadEnd(Lay[k]) = Lay[k].brace + 1 /\ NodeEnd(Lay[k]) = Lay[k].close + 1
         /\ Lay[k].brace = 0 => /\ HeadEnd(Lay[k]) = EntriesEnd(Lay[k])
                                /\ NodeEnd(Lay[k]) = EntriesEnd(Lay[k])
BY LayIs, PlaceIs

\* A node that comes later is behind the head of this one, and behind it or
\* within its braces.
LEMMA Later ==
  ASSUME Well, NEW k \in Placed, NEW l \in Placed, k < l
  PROVE  /\ HeadEnd(Lay[k]) <= NodeBegin(Lay[l]) /\ Lay[k].name < Lay[l].name
         /\ Lay[k].brace # 0 => \/ Lay[k].close < NodeBegin(Lay[l])
                                \/ NodeEnd(Lay[l]) <= Lay[k].close
<1>1. InTurn(Lay[k], Lay[l])
  BY LayIs
<1>2. /\ HeadEnd(Lay[k]) <= NodeBegin(Lay[l])
      /\ Lay[k].brace # 0 => Lay[k].close < NodeBegin(Lay[l]) \/ NodeEnd(Lay[l]) <= Lay[k].close
  BY <1>1 DEF InTurn
<1>3. NodeBegin(Lay[l]) \in Nat /\ NodeBegin(Lay[l]) <= Lay[l].name /\ Lay[l].name \in Nat
  BY PartsOf
<1>4. HeadEnd(Lay[k]) \in Nat /\ Lay[k].name < HeadEnd(Lay[k]) /\ Lay[k].name \in Nat
  BY PartsOf, SMTT(20)
<1>5. QED
  BY <1>2, <1>3, <1>4

LEMMA SameName ==
  ASSUME Well, NEW k \in Placed, NEW l \in Placed, Lay[k].name = Lay[l].name
  PROVE  k = l
<1>1. k \in Nat /\ l \in Nat /\ Lay[k].name \in Nat
  BY LayIs, PartsOf, SMTT(20)
<1>2. ~(k < l) /\ ~(l < k)
  BY <1>1, Later
<1>3. QED
  BY <1>1, <1>2

LEMMA NameOrder ==
  ASSUME Well, NEW k \in Placed, NEW l \in Placed
  PROVE  /\ Lay[k].name < Lay[l].name <=> k < l
         /\ k \in Nat /\ l \in Nat
<1>1. k \in Nat /\ l \in Nat /\ Lay[k].name \in Nat /\ Lay[l].name \in Nat
  BY LayIs, PartsOf, SMTT(20)
<1>2. k < l => Lay[k].name < Lay[l].name
  BY Later
<1>3. l < k => Lay[l].name < Lay[k].name
  BY Later
<1>4. QED
  BY <1>1, <1>2, <1>3

\* A node around another comes before it, and all of the other is within it.
LEMMA OverIs ==
  ASSUME Well, NEW j \in Placed, NEW k \in Placed, Over(j, k)
  PROVE  /\ j < k /\ Lay[j].brace # 0 /\ Lay[j].brace + 1 <= NodeBegin(Lay[k])
         /\ NodeEnd(Lay[k]) <= Lay[j].close /\ Lay[j].name < Lay[k].name
<1>1. Lay[j].brace # 0 /\ Lay[j].brace < Lay[k].name /\ Lay[k].name < Lay[j].close
  BY DEF Over, Within
<1>2. Lay[j].name < Lay[j].brace /\ HeadEnd(Lay[j]) = Lay[j].brace + 1
  BY <1>1, PartsOf
<1>3. Lay[j].name \in Nat /\ Lay[j].brace \in Nat /\ Lay[k].name \in Nat /\ Lay[j].close \in Nat
  BY PartsOf, SMTT(20)
<1>4. Lay[j].name < Lay[k].name
  BY <1>1, <1>2, <1>3
<1>5. j < k
  BY <1>4, NameOrder
<1>6. /\ HeadEnd(Lay[j]) <= NodeBegin(Lay[k])
      /\ Lay[j].close < NodeBegin(Lay[k]) \/ NodeEnd(Lay[k]) <= Lay[j].close
  BY <1>1, <1>5, Later
<1>7. NodeBegin(Lay[k]) \in Nat /\ NodeBegin(Lay[k]) <= Lay[k].name
  BY PartsOf
<1>8. ~(Lay[j].close < NodeBegin(Lay[k]))
  BY <1>1, <1>3, <1>7
<1>9. QED
  BY <1>1, <1>2, <1>4, <1>5, <1>6, <1>8

LEMMA PointIs ==
  ASSUME Well, NEW q \in Points(text, Lay)
  PROVE  /\ q \in 1..(Len(text) + 1) /\ Len(text) \in Nat
         /\ ~At(q, NodeSpace) /\ ~At(q, LineSpace) /\ ~At(q, Terminator) /\ ~At(q, {"="})
         /\ q \notin Lefts
         /\ \/ q = Len(text) + 1 /\ ~At(q, Starts) /\ q \notin Rights /\ q \notin Begins(Lay)
            \/ At(q, Starts) /\ q \notin Rights /\ \E k \in Placed : q = NodeBegin(Lay[k])
            \/ /\ q \in Rights /\ ~At(q, Starts) /\ q \notin Begins(Lay)
               /\ \E k \in Placed : Lay[k].brace # 0 /\ q = Lay[k].close
<1>1. Len(text) \in Nat /\ DOMAIN text = 1..Len(text)
  BY TokensAreFinite DEF Well
<1>2. \A p \in Begins(Lay) : p \in 1..Len(text) /\ At(p, Starts) /\ \E k \in Placed : p = NodeBegin(Lay[k])
  <2>1. ASSUME NEW k \in Placed PROVE NodeBegin(Lay[k]) \in 1..Len(text) /\ At(NodeBegin(Lay[k]), Starts)
    <3>1. At(NodeBegin(Lay[k]), Starts)
      BY LayIs, NodeIs
    <3>2. QED
      BY <3>1, <1>1 DEF At
  <2>2. QED
    BY <2>1 DEF Begins, Placed
<1>3. CASE q = Len(text) + 1
  <2>1. q \notin DOMAIN text /\ q \notin Begins(Lay)
    BY <1>1, <1>2, <1>3
  <2>2. /\ \A tokens : ~At(q, tokens)
        /\ q \notin Lefts /\ q \notin Rights
    BY <2>1, Zenon DEF At, Lefts, Rights
  <2>3. QED
    BY <1>1, <1>3, <2>1, <2>2
<1>4. CASE q \in Begins(Lay)
  <2>1. q \in 1..Len(text) /\ At(q, Starts) /\ \E k \in Placed : q = NodeBegin(Lay[k])
    BY <1>2, <1>4
  <2>2. QED
    BY <1>1, <2>1, StartsAreNoSpace
<1>5. CASE \E k \in Placed : Lay[k].brace # 0 /\ q = Lay[k].close
  <2>1. PICK k \in Placed : Lay[k].brace # 0 /\ q = Lay[k].close
    BY <1>5
  <2>2. q \in Rights /\ q \in 1..Len(text)
    BY <2>1, LayIs, BlockIs
  <2>3. /\ ~At(q, NodeSpace) /\ ~At(q, LineSpace) /\ ~At(q, Starts) /\ ~At(q, {"="})
        /\ ~At(q, Terminator) /\ q \notin Lefts
    BY <2>2, BracesAreNoSpace
  <2>4. q \notin Begins(Lay)
    BY <1>2, <2>3
  <2>5. QED
    BY <1>1, <2>1, <2>2, <2>3, <2>4
<1>6. QED
  BY <1>3, <1>4, <1>5 DEF Points, Placed

\* Where nothing is met between p and q.
Alike(place, p, q) == /\ place.name < p <=> place.name < q
                      /\ place.brace < p <=> place.brace < q
                      /\ place.brace # 0 => (place.close < p <=> place.close < q)

\* Up to the next point nothing is.
LEMMA NothingBefore ==
  ASSUME Well, NEW p \in Nat, p # 0, NEW q, NextPoint(text, Lay, p, q), NEW r \in p..q,
         NEW k \in Placed, Outside(Lay[k], p)
  PROVE  Alike(Lay[k], p, r) /\ Outside(Lay[k], r)
<1>1. q \in Points(text, Lay) /\ p <= q /\ \A x \in Points(text, Lay) : x < p \/ q <= x
  BY DEF NextPoint
<1>2. q \in Nat /\ r \in Nat /\ p <= r /\ r <= q
  <2>1. q \in 1..(Len(text) + 1) /\ Len(text) \in Nat
    BY <1>1, PointIs
  <2>2. QED
    BY <2>1
<1>3. NodeBegin(Lay[k]) \in Points(text, Lay)
  BY DEF Points, Begins, Placed
<1>4. Lay[k].brace # 0 => Lay[k].close \in Points(text, Lay)
  BY DEF Points, Placed
<1> DEFINE b == NodeBegin(Lay[k])
           n == Lay[k].name
           h == HeadEnd(Lay[k])
           l == Lay[k].brace
           c == Lay[k].close
<1>5. /\ b \in Nat /\ n \in Nat /\ h \in Nat /\ l \in Nat /\ c \in Nat /\ b <= n /\ n < h
      /\ l # 0 => n < l /\ l < c /\ h = l + 1
  <2>1. /\ NodeBegin(Lay[k]) \in 1..Lay[k].name /\ Lay[k].name \in 1..Len(text) /\ Len(text) \in Nat
        /\ HeadEnd(Lay[k]) \in (Lay[k].name + 1)..NodeEnd(Lay[k]) /\ Lay[k].brace \in Nat
        /\ Lay[k].close \in Nat
        /\ Lay[k].brace # 0 => Lay[k].name < Lay[k].brace /\ Lay[k].brace < Lay[k].close
                               /\ HeadEnd(Lay[k]) = Lay[k].brace + 1
    BY PartsOf
  <2>2. QED
    BY <2>1
<1>6. (b < p \/ q <= b) /\ (l # 0 => c < p \/ q <= c) /\ (p <= b \/ h <= p)
  BY <1>1, <1>3, <1>4 DEF Outside
<1> HIDE DEF b, n, h, l, c
<1>7. CASE p <= b
  <2>1. q <= b
    BY <1>2, <1>5, <1>6, <1>7
  <2>2. /\ n < p <=> n < r
        /\ l # 0 => (l < p <=> l < r) /\ (c < p <=> c < r)
        /\ r <= b
    BY <1>2, <1>5, <1>6, <1>7, <2>1
  <2>3. l = 0 => (l < p <=> l < r)
    BY <1>2
  <2>4. QED
    BY <2>2, <2>3 DEF Alike, Outside, b, n, h, l, c
<1>8. CASE h <= p
  <2>1. /\ n < p <=> n < r
        /\ l # 0 => (l < p <=> l < r) /\ (c < p <=> c < r)
        /\ h <= r
    BY <1>2, <1>5, <1>6, <1>8
  <2>2. l = 0 => (l < p <=> l < r)
    BY <1>2
  <2>3. QED
    BY <2>1, <2>2 DEF Alike, Outside, b, n, h, l, c
<1>9. QED
  BY <1>6, <1>7, <1>8

\* Nor between the name of a node and the end of its entries.
LEMMA NothingWithin ==
  ASSUME Well, NEW m \in Placed, NEW p \in (Lay[m].name + 1)..EntriesEnd(Lay[m]),
         NEW r \in p..EntriesEnd(Lay[m]), NEW k \in Placed
  PROVE  Alike(Lay[k], p, r) /\ (k # m => Outside(Lay[k], p))
<1>1. /\ Lay[m].name \in Nat /\ EntriesEnd(Lay[m]) \in Nat /\ p \in Nat /\ r \in Nat /\ p <= r
      /\ Lay[m].name < p /\ r <= EntriesEnd(Lay[m]) /\ EntriesEnd(Lay[m]) <= HeadEnd(Lay[m])
      /\ HeadEnd(Lay[m]) <= NodeEnd(Lay[m]) /\ HeadEnd(Lay[m]) \in Nat /\ NodeEnd(Lay[m]) \in Nat
      /\ NodeBegin(Lay[m]) \in Nat /\ NodeBegin(Lay[m]) <= Lay[m].name
  <2>1. /\ NodeBegin(Lay[m]) \in 1..Lay[m].name /\ Lay[m].name \in 1..Len(text) /\ Len(text) \in Nat
        /\ EntriesEnd(Lay[m]) \in (Lay[m].name + 1)..HeadEnd(Lay[m])
        /\ HeadEnd(Lay[m]) \in (Lay[m].name + 1)..NodeEnd(Lay[m])
        /\ NodeEnd(Lay[m]) \in 1..(Len(text) + 1)
    BY PartsOf
  <2>2. QED
    BY <2>1
<1> DEFINE b == NodeBegin(Lay[k])
           n == Lay[k].name
           h == HeadEnd(Lay[k])
           l == Lay[k].brace
           c == Lay[k].close
<1>2. /\ b \in Nat /\ n \in Nat /\ h \in Nat /\ l \in Nat /\ c \in Nat /\ b <= n /\ n < h
      /\ l # 0 => n < l /\ l < c /\ h = l + 1
  <2>1. /\ NodeBegin(Lay[k]) \in 1..Lay[k].name /\ Lay[k].name \in 1..Len(text) /\ Len(text) \in Nat
        /\ HeadEnd(Lay[k]) \in (Lay[k].name + 1)..NodeEnd(Lay[k]) /\ Lay[k].brace \in Nat
        /\ Lay[k].close \in Nat
        /\ Lay[k].brace # 0 => Lay[k].name < Lay[k].brace /\ Lay[k].brace < Lay[k].close
                               /\ HeadEnd(Lay[k]) = Lay[k].brace + 1
    BY PartsOf
  <2>2. QED
    BY <2>1
<1>3. k < m \/ k = m \/ m < k
  <2>1. k \in Nat /\ m \in Nat
    BY LayIs
  <2>2. QED
    BY <2>1
<1>4. k < m => h <= NodeBegin(Lay[m]) /\ (l # 0 => c < NodeBegin(Lay[m]) \/ NodeEnd(Lay[m]) <= c)
  BY Later
<1>5. m < k => HeadEnd(Lay[m]) <= b
  BY Later
<1>6. k = m => n < p /\ (l # 0 => EntriesEnd(Lay[m]) <= l)
  <2>1. ASSUME k = m, l # 0 PROVE EntriesEnd(Lay[m]) <= l
    <3>1. EntriesEnd(Lay[m]) \in 1..Lay[m].brace
      BY <2>1, LayIs, BlockIs
    <3>2. QED
      BY <2>1, <3>1, <1>2
  <2>2. QED
    BY <1>1, <2>1
<1> HIDE DEF b, n, h, l, c
<1>7. l = 0 => (l < p <=> l < r)
  BY <1>1
<1>8. CASE k < m
  <2>1. /\ n < p /\ n < r /\ h <= p
        /\ l # 0 => l < p /\ l < r /\ (c < p <=> c < r)
    BY <1>1, <1>2, <1>4, <1>8
  <2>2. QED
    BY <1>7, <2>1 DEF Alike, Outside, b, n, h, l, c
<1>9. CASE k = m
  <2>1. /\ n < p /\ n < r
        /\ l # 0 => ~(l < p) /\ ~(l < r) /\ (c < p <=> c < r)
    BY <1>1, <1>2, <1>6, <1>9
  <2>2. QED
    BY <1>7, <1>9, <2>1 DEF Alike, n, l, c
<1>10. CASE m < k
  <2>1. /\ ~(n < p) /\ ~(n < r) /\ p <= b
        /\ l # 0 => ~(l < p) /\ ~(l < r) /\ ~(c < p) /\ ~(c < r)
    BY <1>1, <1>2, <1>5, <1>10
  <2>2. QED
    BY <1>7, <2>1 DEF Alike, Outside, b, n, h, l, c
<1>11. QED
  BY <1>3, <1>8, <1>9, <1>10

----------------------------------------------------------------------------
\* What lies ahead

LEMMA RecognisedStarts ==
  ASSUME NEW p
  PROVE  IsEntry(p) \/ IsNode(p) => At(p, Starts)
<1>1. IsValue(p) => At(p, Starts)
  BY StartsApart DEF IsValue, LiteralAt
<1>2. IsNode(p) => At(p, Starts)
  BY StartsApart DEF IsNode, NameAt
<1>3. IsProperty(p) => At(p, Starts)
  BY StartsApart DEF IsProperty
<1>4. QED
  BY <1>1, <1>2, <1>3 DEF IsEntry, IsArgument

\* How a node ends.
LEMMA TrailIs ==
  ASSUME Well, NEW k \in Placed
  PROVE  \E q \in Points(text, Lay) : \E m \in 1..(Len(text) + 1) :
           /\ NextPoint(text, Lay, NodeEnd(Lay[k]), q) /\ q \in 1..(Len(text) + 1)
           /\ NodeEnd(Lay[k]) <= m /\ m <= q
           /\ Only(text, NodeEnd(Lay[k]), m, NodeSpace)
           /\ RunEnd(NodeEnd(Lay[k]), NodeSpace) = m
           /\ ~At(m, NodeSpace) /\ ~At(m, {"="}) /\ m \notin Lefts
           /\ \/ /\ At(m, Terminator) /\ m + 1 <= q /\ Only(text, m + 1, q, LineSpace)
                 /\ ~At(m, Starts)
              \/ /\ m = q /\ ~At(m, Terminator)
                 /\ Lay[k].brace # 0 \/ m = NodeEnd(Lay[k]) \/ m \notin Begins(Lay)
<1> DEFINE e == NodeEnd(Lay[k])
<1>1. PICK q \in Points(text, Lay) : \E m \in e..q :
        /\ NextPoint(text, Lay, e, q) /\ Only(text, e, m, NodeSpace)
        /\ \/ Is(text, m, Terminator) /\ Only(text, m + 1, q, LineSpace)
           \/ m = q /\ (Lay[k].brace # 0 \/ m = e \/ m \notin Begins(Lay))
  BY LayIs DEF EndsWell
<1>2. PICK m \in e..q :
        /\ NextPoint(text, Lay, e, q) /\ Only(text, e, m, NodeSpace)
        /\ \/ Is(text, m, Terminator) /\ Only(text, m + 1, q, LineSpace)
           \/ m = q /\ (Lay[k].brace # 0 \/ m = e \/ m \notin Begins(Lay))
  BY <1>1
<1>3. e \in 1..(Len(text) + 1) /\ Len(text) \in Nat
  BY PartsOf
<1>4. /\ q \in 1..(Len(text) + 1) /\ ~At(q, NodeSpace) /\ ~At(q, Terminator) /\ ~At(q, {"="})
      /\ q \notin Lefts
  BY <1>1, PointIs
<1> HIDE DEF e
<1>5. m \in e..(Len(text) + 1) /\ m \in 1..(Len(text) + 1) /\ e <= m /\ m <= q
  BY <1>2, <1>3, <1>4
<1>6. CASE Is(text, m, Terminator) /\ Only(text, m + 1, q, LineSpace)
  <2>1. At(m, Terminator) /\ m + 1 <= q
    BY <1>6, IsAt DEF Only
  <2>2. ~At(m, NodeSpace) /\ ~At(m, {"="}) /\ ~At(m, Starts)
    BY <2>1, SpaceIsNoEquals
  <2>3. m \notin Lefts
    BY <2>1, BracesAreNoSpace
  <2>4. RunEnd(e, NodeSpace) = m
    BY <1>2, <1>3, <1>5, <2>2, RunEndIs DEF Well
  <2>5. QED
    BY <1>2, <1>4, <1>5, <1>6, <2>1, <2>2, <2>3, <2>4 DEF e
<1>7. CASE m = q /\ (Lay[k].brace # 0 \/ m = e \/ m \notin Begins(Lay))
  <2>1. RunEnd(e, NodeSpace) = m
    BY <1>2, <1>3, <1>4, <1>5, <1>7, RunEndIs DEF Well
  <2>2. QED
    BY <1>2, <1>4, <1>5, <1>7, <2>1 DEF e
<1>8. QED
  BY <1>2, <1>6, <1>7

\* What a block begins with.
LEMMA BlockStarts ==
  ASSUME Well, NEW k \in Placed, Lay[k].brace # 0
  PROVE  LET b == BlockBegin(Lay[k])
         IN  ~At(b, NodeSpace) /\ ~At(b, {"="})
<1> DEFINE b == BlockBegin(Lay[k])
<1>1. Behind(b) = Lay[k].brace /\ Lay[k].brace \in Lefts
  BY LayIs, BlockIs
<1>2. CASE Dashed(b)
  BY <1>2, StartsApart, StartsAreNoSpace
<1>3. CASE ~Dashed(b)
  <2>1. b = Lay[k].brace
    BY <1>1, <1>3 DEF Behind
  <2>2. QED
    BY <1>1, <2>1, BracesAreNoSpace
<1>4. QED
  BY <1>2, <1>3

\* Space follows each entry, and no equals sign.
LEMMA Follows ==
  ASSUME Well, NEW k \in Placed, NEW j \in 1..(Len(Lay[k].items) + 1)
  PROVE  ~At(RunEnd(Since(Lay[k], j), Blank), {"="})
<1> DEFINE n == Lay[k]
           p == Since(n, j)
<1>1. n \in Place /\ NodeIsAt(text, n) /\ text \in Seq(Token)
  BY LayIs
<1>2. /\ n.name \in 1..Len(text) /\ Len(text) \in Nat /\ Len(n.items) \in Nat
      /\ EntriesEnd(n) \in (n.name + 1)..(Len(text) + 1)
      /\ p \in (n.name + 1)..EntriesEnd(n)
      /\ EntriesEnd(n) = Since(n, Len(n.items) + 1)
  BY <1>1, EntriesRise
<1>3. p \in 1..(Len(text) + 1)
  BY <1>2
<1>4. \E q \in p..(Len(text) + 1) : Only(text, p, q, NodeSpace) /\ ~At(q, NodeSpace) /\ ~At(q, {"="})
  <2>1. CASE j \in 1..Len(n.items)
    <3> DEFINE q == ItemBegin(n.items[j])
    <3>1. /\ p < q /\ q \in 1..Len(text) /\ Only(text, p, q, NodeSpace)
          /\ n.items[j] \in Item /\ ItemIsAt(text, n.items[j])
      BY <1>1, <2>1, EntriesRise
    <3>2. At(q, Starts)
      BY <1>1, <3>1, ItemIs
    <3> HIDE DEF q
    <3>3. ~At(q, NodeSpace) /\ ~At(q, {"="})
      BY <3>2, StartsAreNoSpace
    <3>4. q \in p..(Len(text) + 1)
      BY <1>2, <1>3, <3>1
    <3>5. QED
      BY <3>1, <3>3, <3>4
  <2>2. CASE j = Len(n.items) + 1 /\ n.brace # 0
    <3> DEFINE q == BlockBegin(n)
    <3>1. /\ Only(text, EntriesEnd(n), q, NodeSpace) /\ q \in EntriesEnd(n)..n.brace
          /\ q \in 1..Len(text)
      BY <1>1, <2>2, BlockIs
    <3>2. ~At(q, NodeSpace) /\ ~At(q, {"="})
      BY <2>2, BlockStarts
    <3>3. p = EntriesEnd(n)
      BY <1>2, <2>2
    <3> HIDE DEF q
    <3>4. q \in p..(Len(text) + 1)
      BY <1>2, <1>3, <3>1, <3>3
    <3>5. QED
      BY <3>1, <3>2, <3>3, <3>4
  <2>3. CASE j = Len(n.items) + 1 /\ n.brace = 0
    <3>1. p = NodeEnd(n)
      BY <1>2, <2>3, PartsOf
    <3>2. PICK q \in Points(text, Lay) : \E m \in 1..(Len(text) + 1) :
            NodeEnd(n) <= m /\ Only(text, NodeEnd(n), m, NodeSpace)
            /\ ~At(m, NodeSpace) /\ ~At(m, {"="})
      BY TrailIs
    <3>3. PICK m \in 1..(Len(text) + 1) :
            p <= m /\ Only(text, p, m, NodeSpace) /\ ~At(m, NodeSpace) /\ ~At(m, {"="})
      BY <3>1, <3>2
    <3>4. m \in p..(Len(text) + 1)
      BY <1>2, <1>3, <3>3
    <3>5. QED
      BY <3>3, <3>4
  <2>4. QED
    BY <1>2, <2>1, <2>2, <2>3
<1> HIDE DEF p
<1>5. QED
  BY <1>1, <1>3, <1>4, NoEqualsAhead DEF p

\* The entry that is ahead.
Ahead(i) ==
  /\ Onward = ItemBegin(i) /\ Onward # pos /\ Behind(Onward) = ItemStart(i)
  /\ Dashed(Onward) <=> i.dash # 0
  /\ i.key = 0 => /\ IsArgument(ItemStart(i)) /\ ~IsProperty(ItemStart(i))
                  /\ ValueFrom(ItemStart(i)) = [ty |-> i.ty, at |-> i.at]
  /\ i.key # 0 => /\ IsProperty(ItemStart(i)) /\ ~IsArgument(ItemStart(i)) /\ ItemStart(i) = i.key
                  /\ ValueFrom(ValueAt(ItemStart(i))) = [ty |-> i.ty, at |-> i.at]
  /\ IsEntry(ItemStart(i)) /\ EntryEnd(ItemStart(i)) = i.at + 1
  /\ i.dash = 0 => Onward = ItemStart(i)
  /\ i.dash # 0 => ~IsArgument(Onward) /\ ~IsProperty(Onward)

LEMMA EntryIsAhead ==
  ASSUME Well, NEW k \in Placed, NEW j \in 1..Len(Lay[k].items), pos = Since(Lay[k], j)
  PROVE  Ahead(Lay[k].items[j])
<1> DEFINE n == Lay[k]
           i == Lay[k].items[j]
           b == ItemBegin(i)
           s == ItemStart(i)
<1>1. n \in Place /\ NodeIsAt(text, n) /\ text \in Seq(Token)
  BY LayIs
<1>2. /\ Len(text) \in Nat /\ Len(n.items) \in Nat /\ n.name \in 1..Len(text)
      /\ EntriesEnd(n) \in (n.name + 1)..(Len(text) + 1)
      /\ i \in Item /\ ItemIsAt(text, i)
      /\ Since(n, j + 1) = i.at + 1
      /\ Since(n, j) < b /\ b \in 1..Len(text) /\ Only(text, Since(n, j), b, NodeSpace)
  BY <1>1, EntriesRise
<1>3. Since(n, j) \in (n.name + 1)..EntriesEnd(n)
  <2>1. j \in 1..(Len(n.items) + 1)
    BY <1>2
  <2>2. QED
    BY <1>1, <2>1, EntriesRise
<1>4. ~At(RunEnd(i.at + 1, Blank), {"="})
  <2>1. j + 1 \in 1..(Len(n.items) + 1)
    BY <1>2
  <2>2. ~At(RunEnd(Since(n, j + 1), Blank), {"="})
    BY <2>1, Follows
  <2>3. QED
    BY <1>2, <2>2
<1>5. /\ b \in 1..s /\ Behind(b) = s /\ (Dashed(b) <=> i.dash # 0) /\ At(b, Starts)
      /\ i.key # 0 => s = i.key
      /\ i.key = 0 => IsArgument(s) /\ ~IsProperty(s) /\ ValueFrom(s) = [ty |-> i.ty, at |-> i.at]
      /\ i.key # 0 => IsProperty(s) /\ ~IsArgument(s) /\ ValueFrom(ValueAt(s)) = [ty |-> i.ty, at |-> i.at]
      /\ IsEntry(s) /\ EntryEnd(s) = i.at + 1
  BY <1>1, <1>2, <1>4, ItemIs
<1>6. Onward = b
  <2>1. pos \in 1..(Len(text) + 1) /\ b \in pos..(Len(text) + 1)
    BY <1>2, <1>3
  <2>2. ~At(b, NodeSpace)
    BY <1>5, StartsAreNoSpace
  <2> HIDE DEF b
  <2>3. RunEnd(pos, NodeSpace) = b
    BY <1>1, <1>2, <2>1, <2>2, RunEndIs
  <2>4. QED
    BY <2>3 DEF Onward
<1>7. Onward # pos
  BY <1>2, <1>3, <1>6
<1>8. i.dash = 0 => b = s
  BY <1>5 DEF Behind
<1>9. Dashed(b) => ~IsArgument(b) /\ ~IsProperty(b)
  <2>1. SUFFICES ASSUME Dashed(b) PROVE ~IsValue(b) /\ ~At(b, Word)
    BY DEF IsArgument, IsProperty
  <2>2. ~At(b, {"ty"}) /\ ~At(b, Literal) /\ ~At(b, Word)
    BY <2>1, StartsApart
  <2>3. QED
    BY <2>2 DEF IsValue, LiteralAt
<1> HIDE DEF b, s, i
<1>10. QED
  BY <1>5, <1>6, <1>7, <1>8, <1>9 DEF Ahead, b, s, i

LEMMA BlockIsAhead ==
  ASSUME Well, NEW k \in Placed, Lay[k].brace # 0, pos = EntriesEnd(Lay[k])
  PROVE  /\ ~EntryAhead /\ BlockAhead
         /\ Behind(Onward) = Lay[k].brace /\ (Dashed(Onward) <=> Lay[k].hide # 0)
<1> DEFINE n == Lay[k]
           b == BlockBegin(n)
<1>1. n \in Place /\ NodeIsAt(text, n) /\ text \in Seq(Token) /\ Len(text) \in Nat
  BY LayIs, PartsOf
<1>2. /\ n.brace \in Lefts /\ b \in EntriesEnd(n)..n.brace /\ EntriesEnd(n) \in 1..n.brace
      /\ b \in 1..Len(text) /\ Only(text, EntriesEnd(n), b, NodeSpace)
      /\ Behind(b) = n.brace /\ (Dashed(b) <=> n.hide # 0) /\ n.brace \in 1..Len(text)
  BY <1>1, BlockIs
<1>3. ~At(b, NodeSpace)
  BY BlockStarts
<1>4. Onward = b
  <2>1. pos \in 1..(Len(text) + 1) /\ b \in pos..(Len(text) + 1)
    BY <1>1, <1>2
  <2> HIDE DEF b
  <2>2. RunEnd(pos, NodeSpace) = b
    BY <1>1, <1>2, <1>3, <2>1, RunEndIs
  <2>3. QED
    BY <2>2 DEF Onward
<1>5. ~IsEntry(n.brace)
  BY <1>2, BracesAreNoSpace, RecognisedStarts
<1>6. BlockAhead
  BY <1>2, <1>4, BraceIs, Zenon DEF BlockAhead
<1>7. QED
  BY <1>2, <1>4, <1>5, <1>6 DEF EntryAhead

LEMMA NothingIsAhead ==
  ASSUME Well, NEW k \in Placed, Lay[k].brace = 0, pos = EntriesEnd(Lay[k])
  PROVE  ~EntryAhead /\ ~BlockAhead
<1>1. pos = NodeEnd(Lay[k])
  BY PartsOf
<1>2. PICK q \in Points(text, Lay) : \E m \in 1..(Len(text) + 1) :
        /\ RunEnd(NodeEnd(Lay[k]), NodeSpace) = m /\ m \notin Lefts
        /\ \/ At(m, Terminator) /\ ~At(m, Starts)
           \/ m = q /\ (m = NodeEnd(Lay[k]) \/ m \notin Begins(Lay))
  BY TrailIs
<1>3. PICK m \in 1..(Len(text) + 1) :
        /\ RunEnd(NodeEnd(Lay[k]), NodeSpace) = m /\ m \notin Lefts
        /\ \/ At(m, Terminator) /\ ~At(m, Starts)
           \/ m = q /\ (m = NodeEnd(Lay[k]) \/ m \notin Begins(Lay))
  BY <1>2
<1>4. Onward = m
  BY <1>1, <1>3 DEF Onward
<1>5. CASE ~At(m, Starts)
  <2>1. Behind(m) = m
    BY <1>5, StartsApart DEF Behind
  <2>2. ~IsEntry(m)
    BY <1>5, RecognisedStarts
  <2>3. ~BlockAhead
    BY <1>3, <1>4, <2>1, BraceIs, Zenon DEF BlockAhead
  <2>4. QED
    BY <1>4, <2>1, <2>2, <2>3 DEF EntryAhead
<1>6. CASE At(m, Starts)
  <2>1. m = q
    BY <1>3, <1>6
  <2>2. PICK l \in Placed : m = NodeBegin(Lay[l])
    BY <1>6, <2>1, PointIs
  <2>3. m \in Begins(Lay)
    BY <2>2 DEF Begins, Placed
  <2>4. m = pos
    BY <1>1, <1>3, <1>6, <2>3
  <2>5. Behind(m) = NodeStart(Lay[l]) /\ IsNode(NodeStart(Lay[l]))
    BY <2>2, LayIs, NodeIs
  <2>6. Behind(m) \notin Lefts
    BY <2>5, RecognisedStarts, StartsAreNoSpace
  <2>7. ~BlockAhead
    BY <1>4, <2>6, BraceIs, Zenon DEF BlockAhead
  <2>8. QED
    BY <1>4, <2>4, <2>7 DEF EntryAhead
<1>7. QED
  BY <1>5, <1>6

----------------------------------------------------------------------------
\* What has been read of a node

LEMMA HasMax ==
  ASSUME NEW n \in Nat, NEW S \in SUBSET (0..n), S # {}
  PROVE  \E m \in S : \A y \in S : y <= m
<1> DEFINE B == {b \in Nat : \A y \in S : y <= b}
<1>1. n \in B
  OBVIOUS
<1>2. PICK b \in B : \A y \in B : ~(y < b)
  <2>1. B \in SUBSET Nat /\ B # {}
    BY <1>1
  <2> HIDE DEF B
  <2>2. QED
    BY <2>1, LeastOf
<1>3. b \in S
  <2>1. SUFFICES ASSUME b \notin S PROVE FALSE
    OBVIOUS
  <2>2. \A y \in S : y < b
    BY <1>2, <2>1
  <2>3. PICK y \in S : TRUE
    OBVIOUS
  <2>4. b - 1 \in B /\ b - 1 < b
    BY <1>2, <2>2, <2>3
  <2>5. QED
    BY <1>2, <2>4
<1>4. QED
  BY <1>2, <1>3

Keyed(items) == {o \in items : o.dash = 0 /\ o.key # 0}

\* A property replaces the value of those of its name; the first key is kept.
LEMMA PropsGrow ==
  ASSUME NEW S \in SUBSET Item, NEW x \in Item, x.dash = 0, x.key # 0,
         \A o \in Keyed(S) : o.key < x.key
  PROVE  Insert(PropsOf(text, S), x.key, [ty |-> x.ty, at |-> x.at]) = PropsOf(text, S \cup {x})
<1> DEFINE P == Keyed(S)
           Q == P \cup {x}
           Named(o) == text[o.key] = text[x.key]
           prop(e) == [key |-> e[1].key, ty |-> e[2].ty, at |-> e[2].at]
           First(R, o) == \A y \in R : text[y.key] = text[o.key] => o.key <= y.key
           Latest(R, o) == \A y \in R : text[y.key] = text[o.key] => y.key <= o.key
           props == PropsOf(text, S)
           same == {q.key : q \in {r \in props : text[r.key] = text[x.key]}}
           v == [ty |-> x.ty, at |-> x.at]
<1>1. Keyed(S \cup {x}) = Q
  BY DEF Keyed
<1>2. \A o \in P : o.key \in Nat /\ o.key < x.key
  BY ItemParts DEF Keyed
<1>3. x.key \in Nat
  BY ItemParts
<1>4. props = {prop(e) : e \in Ends(text, P)}
  BY DEF PropsOf, Keyed
<1>5. PropsOf(text, S \cup {x}) = {prop(e) : e \in Ends(text, Q)}
  BY <1>1 DEF PropsOf, Keyed
<1> HIDE DEF P
<1>6. \A R, a, b : <<a, b>> \in Ends(text, R) <=>
        a \in R /\ b \in R /\ text[a.key] = text[b.key] /\ First(R, a) /\ Latest(R, b)
  BY DEF Ends
<1>7. \A R : \A e \in Ends(text, R) : e = <<e[1], e[2]>>
  BY DEF Ends
<1> HIDE DEF Q
<1>8. Q = P \cup {x}
  BY DEF Q
<1>9. \A a, b : <<a, b>> \in Ends(text, Q) <=>
        \/ <<a, b>> \in Ends(text, P) /\ ~Named(a)
        \/ b = x /\ Named(a) /\ a \in Q /\ First(Q, a)
  <2> SUFFICES ASSUME NEW a, NEW b
               PROVE  <<a, b>> \in Ends(text, Q) <=>
                        \/ <<a, b>> \in Ends(text, P) /\ ~Named(a)
                        \/ b = x /\ Named(a) /\ a \in Q /\ First(Q, a)
    OBVIOUS
  <2>1. CASE ~Named(a)
    <3>1. a # x
      BY <2>1
    <3>2. text[a.key] = text[b.key] => b # x
      BY <2>1
    <3>3. First(Q, a) <=> First(P, a)
      BY <1>8, <2>1
    <3>4. text[a.key] = text[b.key] => (Latest(Q, b) <=> Latest(P, b))
      BY <1>8, <2>1
    <3>5. QED
      BY <1>6, <1>8, <2>1, <3>1, <3>2, <3>3, <3>4
  <2>2. CASE Named(a)
    <3>1. ASSUME b \in Q, text[a.key] = text[b.key], Latest(Q, b) PROVE b = x
      <4>1. x.key <= b.key
        BY <1>8, <2>2, <3>1
      <4>2. QED
        BY <1>2, <1>3, <1>8, <3>1, <4>1
    <3>2. Latest(Q, x)
      BY <1>2, <1>3, <1>8
    <3>3. QED
      BY <1>6, <1>8, <2>2, <3>1, <3>2
  <2>3. QED
    BY <2>1, <2>2
<1>10. same = {a.key : a \in {o \in P : Named(o) /\ First(P, o)}}
  <2>1. ASSUME NEW o \in P, Named(o), First(P, o) PROVE o.key \in same
    <3> DEFINE M == {y.key : y \in {z \in P : Named(z)}}
    <3>1. M \in SUBSET (0..x.key) /\ M # {}
      BY <1>2, <1>3, <2>1
    <3>2. PICK m \in M : \A y \in M : y <= m
      <4> HIDE DEF M
      <4>1. QED
        BY <1>3, <3>1, HasMax
    <3>3. PICK b \in P : Named(b) /\ m = b.key
      BY <3>2
    <3>4. \A y \in P : Named(y) => y.key <= b.key
      BY <3>2, <3>3
    <3>5. Latest(P, b) /\ text[o.key] = text[b.key]
      BY <2>1, <3>3, <3>4
    <3>6. <<o, b>> \in Ends(text, P)
      BY <1>6, <2>1, <3>5
    <3>7. prop(<<o, b>>) \in props
      BY <1>4, <3>6
    <3>8. prop(<<o, b>>).key = o.key
      OBVIOUS
    <3>9. QED
      BY <2>1, <3>7, <3>8
  <2>2. ASSUME NEW q \in props, text[q.key] = text[x.key]
        PROVE  \E o \in P : Named(o) /\ First(P, o) /\ q.key = o.key
    <3>1. PICK e \in Ends(text, P) : q = prop(e)
      BY <1>4
    <3>2. e = <<e[1], e[2]>> /\ q.key = e[1].key
      BY <1>7, <3>1
    <3>3. e[1] \in P /\ First(P, e[1])
      BY <1>6, <3>1, <3>2
    <3>4. QED
      BY <2>2, <3>2, <3>3
  <2>3. QED
    BY <2>1, <2>2
<1>11. \A k : k \in same => text[k] = text[x.key]
  OBVIOUS
<1>12. Insert(props, x.key, v) =
         {q \in props : q.key \notin same}
           \cup {[key |-> k, ty |-> v.ty, at |-> v.at] : k \in IF same = {} THEN {x.key} ELSE same}
  BY DEF Insert
<1>13. v.ty = x.ty /\ v.at = x.at
  OBVIOUS
<1> DEFINE firsts == IF same = {} THEN {x.key} ELSE same
<1>14. firsts = {a.key : a \in {o \in Q : Named(o) /\ First(Q, o)}}
  <2>1. \A o \in P : First(Q, o) <=> First(P, o)
    BY <1>2, <1>3, <1>8
  <2>2. CASE same = {}
    <3>1. \A o \in P : ~Named(o)
      <4>1. SUFFICES ASSUME NEW o \in P, Named(o) PROVE FALSE
        OBVIOUS
      <4> DEFINE M == {y.key : y \in {z \in P : Named(z)}}
      <4>2. M \in SUBSET Nat /\ M # {}
        BY <1>2, <4>1
      <4>3. PICK m \in M : \A y \in M : ~(y < m)
        <5> HIDE DEF M
        <5>1. QED
          BY <4>2, LeastOf
      <4>4. PICK a \in P : Named(a) /\ m = a.key
        BY <4>3
      <4>5. \A y \in P : Named(y) => a.key <= y.key
        BY <1>2, <4>3, <4>4
      <4>6. First(P, a)
        BY <4>4, <4>5
      <4> HIDE DEF same
      <4>7. a.key \in same
        BY <1>10, <4>4, <4>6
      <4>8. QED
        BY <2>2, <4>7
    <3>2. First(Q, x) /\ x \in Q
      BY <1>3, <1>8, <3>1
    <3>3. \A o \in Q : Named(o) => o = x
      BY <1>8, <3>1
    <3> HIDE DEF same
    <3>4. QED
      BY <2>2, <3>2, <3>3
  <2>3. CASE same # {}
    <3> HIDE DEF same
    <3>1. PICK a \in P : Named(a) /\ First(P, a)
      BY <1>10, <2>3
    <3>2. ~First(Q, x)
      <4>1. a \in Q /\ ~(x.key <= a.key)
        BY <1>2, <1>3, <1>8
      <4>2. QED
        BY <3>1, <4>1
    <3>3. \A o : o \in Q /\ Named(o) /\ First(Q, o) <=> o \in P /\ Named(o) /\ First(P, o)
      BY <1>8, <2>1, <3>2
    <3>4. QED
      BY <1>10, <2>3, <3>3
  <2>4. QED
    BY <2>2, <2>3
<1> HIDE DEF same, firsts, props, v
<1>15. \A q : q \in props /\ q.key \notin same <=> \E a, b : <<a, b>> \in Ends(text, P) /\ ~Named(a) /\ q = prop(<<a, b>>)
  <2>1. ASSUME NEW q, q \in props, q.key \notin same
        PROVE  \E a, b : <<a, b>> \in Ends(text, P) /\ ~Named(a) /\ q = prop(<<a, b>>)
    <3>1. PICK e \in Ends(text, P) : q = prop(e)
      BY <1>4, <2>1
    <3>2. e = <<e[1], e[2]>> /\ q.key = e[1].key
      BY <1>7, <3>1
    <3>3. e[1] \in P /\ First(P, e[1])
      BY <1>6, <3>1, <3>2
    <3>4. ~Named(e[1])
      BY <1>10, <2>1, <3>2, <3>3
    <3>5. QED
      BY <3>1, <3>2, <3>4
  <2>2. ASSUME NEW a, NEW b, <<a, b>> \in Ends(text, P), ~Named(a)
        PROVE  prop(<<a, b>>) \in props /\ prop(<<a, b>>).key \notin same
    <3>1. prop(<<a, b>>) \in props
      BY <1>4, <2>2
    <3>2. prop(<<a, b>>).key = a.key
      OBVIOUS
    <3>3. QED
      BY <1>11, <2>2, <3>1, <3>2
  <2> HIDE DEF prop, Named
  <2>3. QED
    BY <2>1, <2>2, Zenon
<1>16. \A q : q \in {[key |-> k, ty |-> v.ty, at |-> v.at] : k \in firsts} <=>
         \E a : a \in Q /\ Named(a) /\ First(Q, a) /\ q = prop(<<a, x>>)
  BY <1>13, <1>14
<1>17. \A q : q \in {prop(e) : e \in Ends(text, Q)} <=> \E a, b : <<a, b>> \in Ends(text, Q) /\ q = prop(<<a, b>>)
  BY <1>7
<1> HIDE DEF prop, Named, First
<1>18. \A q : q \in Insert(props, x.key, v) <=> q \in {prop(e) : e \in Ends(text, Q)}
  <2> SUFFICES ASSUME NEW q
               PROVE  q \in Insert(props, x.key, v) <=> q \in {prop(e) : e \in Ends(text, Q)}
    OBVIOUS
  <2>1. q \in Insert(props, x.key, v) <=>
          \/ q \in props /\ q.key \notin same
          \/ q \in {[key |-> k, ty |-> v.ty, at |-> v.at] : k \in firsts}
    BY <1>12 DEF firsts
  <2>2. q \in Insert(props, x.key, v) <=>
          \/ \E a, b : <<a, b>> \in Ends(text, P) /\ ~Named(a) /\ q = prop(<<a, b>>)
          \/ \E a : a \in Q /\ Named(a) /\ First(Q, a) /\ q = prop(<<a, x>>)
    BY <1>15, <1>16, <2>1
  <2>3. (\E a, b : <<a, b>> \in Ends(text, Q) /\ q = prop(<<a, b>>)) <=>
          \/ \E a, b : <<a, b>> \in Ends(text, P) /\ ~Named(a) /\ q = prop(<<a, b>>)
          \/ \E a : a \in Q /\ Named(a) /\ First(Q, a) /\ q = prop(<<a, x>>)
    <3>1. ASSUME NEW a, NEW b, <<a, b>> \in Ends(text, Q), q = prop(<<a, b>>)
          PROVE  \/ <<a, b>> \in Ends(text, P) /\ ~Named(a) /\ q = prop(<<a, b>>)
                 \/ a \in Q /\ Named(a) /\ First(Q, a) /\ q = prop(<<a, x>>)
      BY <1>9, <3>1
    <3>2. \A a, b : <<a, b>> \in Ends(text, P) /\ ~Named(a) => <<a, b>> \in Ends(text, Q)
      BY <1>9
    <3>3. \A a : a \in Q /\ Named(a) /\ First(Q, a) => <<a, x>> \in Ends(text, Q)
      BY <1>9
    <3>4. QED
      BY <3>1, <3>2, <3>3, Zenon
  <2>4. QED
    BY <1>17, <2>2, <2>3, Zenon
<1>19. QED
  BY <1>5, <1>18 DEF props, v

LEMMA OtherGrow ==
  ASSUME NEW S, NEW x
  PROVE  /\ x.dash # 0 \/ x.key = 0 => PropsOf(text, S \cup {x}) = PropsOf(text, S)
         /\ x.dash # 0 \/ x.key # 0 => ArgsOf(S \cup {x}) = ArgsOf(S)
         /\ x.dash = 0 /\ x.key = 0 => ArgsOf(S \cup {x}) = ArgsOf(S) \cup {[ty |-> x.ty, at |-> x.at]}
<1>1. ASSUME x.dash # 0 \/ x.key = 0 PROVE PropsOf(text, S \cup {x}) = PropsOf(text, S)
  <2>1. {o \in S \cup {x} : o.dash = 0 /\ o.key # 0} = {o \in S : o.dash = 0 /\ o.key # 0}
    BY <1>1
  <2>2. QED
    BY <2>1, Zenon DEF PropsOf
<1>2. ASSUME x.dash # 0 \/ x.key # 0 PROVE ArgsOf(S \cup {x}) = ArgsOf(S)
  <2>1. {o \in S \cup {x} : o.dash = 0 /\ o.key = 0} = {o \in S : o.dash = 0 /\ o.key = 0}
    BY <1>2
  <2>2. QED
    BY <2>1, Zenon DEF ArgsOf
<1>3. ASSUME x.dash = 0, x.key = 0
      PROVE  ArgsOf(S \cup {x}) = ArgsOf(S) \cup {[ty |-> x.ty, at |-> x.at]}
  <2>1. {o \in S \cup {x} : o.dash = 0 /\ o.key = 0} = {o \in S : o.dash = 0 /\ o.key = 0} \cup {x}
    BY <1>3
  <2> DEFINE T == {o \in S : o.dash = 0 /\ o.key = 0}
  <2>2. ArgsOf(S \cup {x}) = {[ty |-> i.ty, at |-> i.at] : i \in T \cup {x}}
    BY <2>1 DEF ArgsOf
  <2>3. ArgsOf(S) = {[ty |-> i.ty, at |-> i.at] : i \in T}
    BY DEF ArgsOf
  <2> HIDE DEF T
  <2>4. QED
    BY <2>2, <2>3
<1>4. QED
  BY <1>1, <1>2, <1>3

\* The first entries of a node.
Upto(n, j) == {n.items[l] : l \in 1..(j - 1)}

LEMMA EntryNumbers ==
  ASSUME Well, NEW k \in Placed
  PROVE  LET n == Lay[k]
             m == Len(n.items)
         IN  /\ m \in Nat /\ n.name \in Nat /\ EntriesEnd(n) \in Nat /\ DOMAIN n.items = 1..m
             /\ EntriesEnd(n) = Since(n, m + 1) /\ Since(n, 1) = n.name + 1
             /\ \A l \in 1..(m + 1) : Since(n, l) \in Nat /\ n.name < Since(n, l) /\ Since(n, l) <= EntriesEnd(n)
             /\ \A h, l \in 1..(m + 1) : h < l => Since(n, h) < Since(n, l)
             /\ \A l \in 1..m :
                  /\ n.items[l] \in Item /\ ItemIsAt(text, n.items[l])
                  /\ Since(n, l + 1) = n.items[l].at + 1 /\ Since(n, l) < ItemBegin(n.items[l])
                  /\ n.items[l].at \in Nat
<1> DEFINE n == Lay[k]
           m == Len(n.items)
           e == EntriesEnd(n)
<1>1. n \in Place /\ NodeIsAt(text, n) /\ text \in Seq(Token)
  BY LayIs
<1>2. m \in Nat /\ DOMAIN n.items = 1..m
  BY <1>1, PlaceParts
<1>3. n.name \in Nat /\ e \in Nat
  <2>1. n.name \in 1..Len(text) /\ Len(text) \in Nat /\ e \in (n.name + 1)..(Len(text) + 1)
    BY <1>1, EntriesRise
  <2> HIDE DEF n, e
  <2>2. QED
    BY <2>1
<1>4. e = Since(n, m + 1) /\ Since(n, 1) = n.name + 1
  BY <1>1, EntriesRise
<1>5. ASSUME NEW l \in 1..(m + 1)
      PROVE  Since(n, l) \in Nat /\ n.name < Since(n, l) /\ Since(n, l) <= e
  <2> DEFINE s == Since(n, l)
             a == n.name
  <2>1. s \in (a + 1)..e
    BY <1>1, EntriesRise
  <2>2. a \in Nat /\ e \in Nat
    BY <1>3
  <2> HIDE DEF s, e, a
  <2>3. s \in Nat /\ a < s /\ s <= e
    BY <2>1, <2>2
  <2>4. QED
    BY <2>3 DEF s, a
<1>6. \A h, l \in 1..(m + 1) : h < l => Since(n, h) < Since(n, l)
  BY <1>1, EntriesRise
<1>7. ASSUME NEW l \in 1..m
      PROVE  /\ n.items[l] \in Item /\ ItemIsAt(text, n.items[l])
             /\ Since(n, l + 1) = n.items[l].at + 1 /\ Since(n, l) < ItemBegin(n.items[l])
             /\ n.items[l].at \in Nat
  <2>1. /\ n.items[l] \in Item /\ ItemIsAt(text, n.items[l])
        /\ Since(n, l + 1) = n.items[l].at + 1 /\ Since(n, l) < ItemBegin(n.items[l])
    BY <1>1, EntriesRise
  <2>2. QED
    BY <2>1, ItemParts
<1> HIDE DEF n, m, e
<1>8. QED
  BY <1>2, <1>3, <1>4, <1>5, <1>6, <1>7 DEF n, m, e

LEMMA ReadByIs ==
  ASSUME Well, NEW k \in Placed, NEW j \in 1..(Len(Lay[k].items) + 1), NEW p, p = Since(Lay[k], j)
  PROVE  ReadBy(Lay[k], p) = Upto(Lay[k], j)
<1> DEFINE n == Lay[k]
           m == Len(n.items)
<1>1. m \in Nat /\ DOMAIN n.items = 1..m
  BY EntryNumbers
<1>2. \A l \in 1..m : n.items[l].at < p <=> l < j
  <2> SUFFICES ASSUME NEW l \in 1..m PROVE n.items[l].at < p <=> l < j
    OBVIOUS
  <2> DEFINE a == n.items[l].at
  <2>1. \E b \in 1..(m + 1) : b = l + 1
    BY <1>1
  <2>2. PICK b \in 1..(m + 1) : b = l + 1
    BY <2>1
  <2>3. Since(n, b) = a + 1 /\ a \in Nat /\ Since(n, b) \in Nat /\ p \in Nat
    BY <2>2, EntryNumbers
  <2>4. /\ b < j => Since(n, b) < p
        /\ j < b => p < Since(n, b)
        /\ j = b => p = Since(n, b)
    BY EntryNumbers
  <2> HIDE DEF a, m, n
  <2>5. l \in Nat /\ j \in Nat /\ b \in Nat
    BY <1>1, <2>2 DEF m, n
  <2>6. a < p <=> l < j
    BY <2>2, <2>3, <2>4, <2>5
  <2>7. QED
    BY <2>6 DEF a, n
<1>3. ItemsOf(n) = {n.items[l] : l \in 1..m}
  BY <1>1 DEF ItemsOf
<1>4. \A l : l \in 1..(j - 1) <=> l \in 1..m /\ l < j
  BY <1>1
<1> HIDE DEF m
<1>5. QED
  BY <1>2, <1>3, <1>4 DEF ReadBy, Upto

LEMMA AllRead ==
  ASSUME Well, NEW k \in Placed, NEW p \in Nat, EntriesEnd(Lay[k]) <= p
  PROVE  ReadBy(Lay[k], p) = ItemsOf(Lay[k])
<1> DEFINE n == Lay[k]
           m == Len(n.items)
           e == EntriesEnd(n)
<1>1. m \in Nat /\ DOMAIN n.items = 1..m /\ e \in Nat
  BY EntryNumbers
<1>2. \A l \in 1..m : n.items[l].at < p
  <2> SUFFICES ASSUME NEW l \in 1..m PROVE n.items[l].at < p
    OBVIOUS
  <2> DEFINE a == n.items[l].at
  <2>1. PICK b \in 1..(m + 1) : b = l + 1
    BY <1>1
  <2>2. Since(n, b) = a + 1 /\ a \in Nat /\ Since(n, b) <= e
    BY <2>1, EntryNumbers
  <2> HIDE DEF a, n, e, m
  <2>3. a < p
    BY <1>1, <2>2 DEF e, n
  <2>4. QED
    BY <2>3 DEF a, n
<1>3. ItemsOf(n) = {n.items[l] : l \in 1..m}
  BY <1>1 DEF ItemsOf
<1>4. QED
  BY <1>2, <1>3 DEF ReadBy

LEMMA UptoNext ==
  ASSUME Well, NEW k \in Placed, NEW j \in 1..Len(Lay[k].items)
  PROVE  LET x == Lay[k].items[j]
             S == Upto(Lay[k], j)
         IN  /\ Upto(Lay[k], j + 1) = S \cup {x} /\ S \in SUBSET Item /\ x \in Item
             /\ x.key # 0 => \A o \in Keyed(S) : o.key < x.key
<1> DEFINE n == Lay[k]
           m == Len(n.items)
           x == n.items[j]
           S == Upto(n, j)
<1>1. m \in Nat /\ x \in Item /\ ItemIsAt(text, x) /\ text \in Seq(Token)
  BY EntryNumbers, LayIs
<1>2. Upto(n, j + 1) = S \cup {x}
  <2>1. 1..(j + 1 - 1) = 1..(j - 1) \cup {j}
    BY <1>1
  <2> HIDE DEF n
  <2>2. QED
    BY <2>1 DEF Upto
<1>3. \A l \in 1..(j - 1) : n.items[l] \in Item
  <2>1. \A l \in 1..(j - 1) : l \in 1..m
    BY <1>1
  <2>2. QED
    BY <2>1, EntryNumbers
<1>4. S \in SUBSET Item
  BY <1>3 DEF Upto
<1>5. ASSUME x.key # 0, NEW o \in Keyed(S) PROVE o.key < x.key
  <2>1. PICK l \in 1..(j - 1) : o = n.items[l]
    BY <1>5 DEF Keyed, Upto
  <2>2. o.key # 0
    BY <1>5 DEF Keyed
  <2>3. PICK b \in 1..(m + 1) : b = l + 1
    BY <1>1, <2>1
  <2>4. l \in 1..m /\ (b = j \/ b < j) /\ j \in 1..(m + 1)
    BY <1>1, <2>1, <2>3
  <2>5. Since(n, b) = o.at + 1 /\ o \in Item /\ ItemIsAt(text, o)
    BY <2>1, <2>3, <2>4, EntryNumbers
  <2>6. Since(n, b) = Since(n, j) \/ Since(n, b) < Since(n, j)
    BY <2>4, EntryNumbers
  <2>7. o.key < o.at
    BY <1>1, <2>2, <2>5, ItemIs
  <2>8. ItemBegin(x) \in 1..ItemStart(x) /\ ItemStart(x) = x.key
    BY <1>1, <1>5, ItemIs
  <2>9. Since(n, j) < ItemBegin(x) /\ Since(n, j) \in Nat
    BY <2>4, EntryNumbers
  <2>10. o.key \in Nat /\ x.key \in Nat /\ o.at \in Nat
    BY <1>1, <2>5, ItemParts
  <2> DEFINE ok == o.key
             oa == o.at
             xk == x.key
             ib == ItemBegin(x)
             sj == Since(n, j)
             sb == Since(n, b)
  <2>11. /\ sb = oa + 1 /\ (sb = sj \/ sb < sj) /\ ok < oa /\ ib \in 1..xk /\ sj < ib /\ sj \in Nat
         /\ ok \in Nat /\ xk \in Nat /\ oa \in Nat
    BY <2>5, <2>6, <2>7, <2>8, <2>9, <2>10
  <2> HIDE DEF ok, oa, xk, ib, sj, sb
  <2>12. ok < xk
    BY <2>11
  <2>13. QED
    BY <2>12 DEF ok, xk
<1>6. QED
  BY <1>1, <1>2, <1>4, <1>5

----------------------------------------------------------------------------
\* What a step keeps

Still == text' = text /\ written' = written
Going == TypeOK /\ Reading /\ Braced /\ Well /\ InStep /\ Listed /\ Stacked

LEMMA NamesRise ==
  ASSUME Going
  PROVE  /\ DOMAIN nodes = 1..Len(nodes) /\ Len(nodes) \in Nat /\ pos \in Nat /\ pos # 0
         /\ \A i \in DOMAIN nodes : nodes[i].name \in Nat /\ nodes[i].name < pos
         /\ \A i, j \in DOMAIN nodes : i < j <=> nodes[i].name < nodes[j].name
         /\ \A i, j \in DOMAIN nodes : nodes[i].name = nodes[j].name => i = j
         /\ \A i \in DOMAIN nodes : \E k \in Placed :
              ReadAs(nodes[i], k) /\ nodes[i].name = Lay[k].name /\ Met(k)
<1>1. /\ DOMAIN nodes = 1..Len(nodes) /\ Len(nodes) \in Nat /\ pos \in Nat
      /\ \A i \in DOMAIN nodes : nodes[i].name \in Nat
  BY NodeNumbers DEF Going
<1>2. pos # 0
  BY <1>1, OnwardBounds DEF Going
<1>3. /\ \A i \in DOMAIN nodes : nodes[i].name < pos
      /\ \A i, j \in DOMAIN nodes : i < j => nodes[i].name < nodes[j].name
  BY DEF Going, Braced
<1>4. ASSUME NEW i \in DOMAIN nodes, NEW j \in DOMAIN nodes
      PROVE  /\ i < j <=> nodes[i].name < nodes[j].name
             /\ nodes[i].name = nodes[j].name => i = j
  <2>1. i < j \/ i = j \/ j < i
    BY <1>1
  <2>2. nodes[i].name \in Nat /\ nodes[j].name \in Nat
    BY <1>1
  <2>3. i < j => nodes[i].name < nodes[j].name
    BY <1>3
  <2>4. j < i => nodes[j].name < nodes[i].name
    BY <1>3
  <2>5. i \in Nat /\ j \in Nat
    BY <1>1
  <2>6. QED
    BY <2>1, <2>2, <2>3, <2>4, <2>5
<1>5. ASSUME NEW i \in DOMAIN nodes
      PROVE  \E k \in Placed : ReadAs(nodes[i], k) /\ nodes[i].name = Lay[k].name /\ Met(k)
  <2>1. PICK k \in Placed : ReadAs(nodes[i], k)
    BY DEF Going, Listed
  <2>2. nodes[i].name = Lay[k].name
    BY <2>1 DEF ReadAs, ReadTo
  <2>3. Met(k)
    BY <1>3, <2>2 DEF Met
  <2>4. QED
    BY <2>1, <2>2, <2>3
<1>6. QED
  BY <1>1, <1>2, <1>3, <1>4, <1>5

\* A node of the list is at one place.
LEMMA ListedAt ==
  ASSUME Going, NEW i \in DOMAIN nodes, NEW k \in Placed, nodes[i].name = Lay[k].name
  PROVE  ReadTo(text, nodes[i], Lay[k], pos) /\ Met(k) /\ ~Gone(k)
<1>1. PICK l \in Placed : ReadAs(nodes[i], l) /\ nodes[i].name = Lay[l].name /\ Met(l)
  BY NamesRise
<1>2. l = k
  BY <1>1, SameName DEF Going
<1>3. ~Gone(k)
  BY DEF Going, Listed
<1>4. QED
  BY <1>1, <1>2, <1>3 DEF ReadAs

\* The node at hand is the last one that is open.
LEMMA TopIs ==
  ASSUME Going, stage \in {"node", "closed"}
  PROVE  \E c \in Placed :
           /\ IsNow(c) /\ FrameOf(open[Len(open)], c) /\ Lay[c].name = nodes[Now].name
           /\ \A k \in Placed : IsNow(k) => k = c
<1>1. open # <<>>
  BY DEF Going, TypeOK
<1>2. Len(open) \in DOMAIN open /\ Now = open[Len(open)].node
  BY <1>1, NowIsOpen DEF Going
<1>3. PICK c \in Placed : InHand(c) /\ FrameOf(open[Len(open)], c)
  BY <1>2 DEF Going, Stacked
<1>4. Lay[c].name = nodes[Now].name
  BY <1>2, <1>3 DEF FrameOf
<1>5. IsNow(c)
  BY <1>4 DEF IsNow
<1>6. ASSUME NEW k \in Placed, IsNow(k) PROVE k = c
  BY <1>4, <1>6, SameName DEF IsNow, Going
<1>7. QED
  BY <1>3, <1>4, <1>5, <1>6

LEMMA StillIs ==
  ASSUME Still
  PROVE  /\ Lay' = Lay /\ Placed' = Placed /\ (Well' <=> Well)
         /\ \A j, k : Over(j, k)' <=> Over(j, k)
<1>1. Lay' = Lay
  BY DEF Still, Lay
<1>2. Placed' = Placed
  BY <1>1 DEF Placed
<1>3. Well' <=> Well
  BY <1>1 DEF Well, Still
<1>4. \A j, k : Over(j, k)' <=> Over(j, k)
  BY <1>1 DEF Over
<1>5. QED
  BY <1>1, <1>2, <1>3, <1>4

LEMMA NothingMet ==
  ASSUME Well, Still, pos \in Nat, pos' \in Nat, NEW k \in Placed, Alike(Lay[k], pos, pos')
  PROVE  /\ Met(k)' <=> Met(k)
         /\ Entered(k)' <=> Entered(k)
         /\ Lay[k].brace # 0 => (Hid(k)' <=> Hid(k))
<1>1. Lay' = Lay
  BY StillIs
<1>2. Lay[k].close \in Nat
  BY PartsOf
<1>3. Met(k)' <=> Met(k)
  BY <1>1 DEF Met, Alike
<1>4. Entered(k)' <=> Entered(k)
  BY <1>1, <1>2 DEF Entered, Alike
<1>5. Lay[k].brace # 0 => (Hid(k)' <=> Hid(k))
  BY <1>1 DEF Hid, Alike
<1>6. QED
  BY <1>3, <1>4, <1>5

LEMMA LeftSame ==
  ASSUME Still, NEW k, Met(k)' <=> Met(k), InHand(k)' <=> InHand(k)
  PROVE  Left(k)' <=> Left(k)
<1>1. Lay' = Lay
  BY StillIs
<1>2. QED
  BY <1>1 DEF Left

LEMMA GoneSame ==
  ASSUME Still, \A j \in Placed : Left(j)' <=> Left(j),
         \A j \in Placed : Lay[j].brace # 0 => (Hid(j)' <=> Hid(j))
  PROVE  \A k \in Placed : Gone(k)' <=> Gone(k)
<1> SUFFICES ASSUME NEW k \in Placed PROVE Gone(k)' <=> Gone(k)
  OBVIOUS
<1>1. Placed' = Placed /\ \A j : Over(j, k)' <=> Over(j, k)
  BY StillIs
<1>2. \A j : Over(j, k) => Lay[j].brace # 0
  BY DEF Over, Within
<1>3. Gone(k)' <=> \E j \in Placed : \/ Left(j)' /\ (j = k \/ Over(j, k))
                                     \/ Hid(j)' /\ Over(j, k)
  BY <1>1 DEF Gone
<1>4. QED
  BY <1>2, <1>3 DEF Gone

SameBlock(place, p, q) == place.brace # 0 /\ place.hide = 0 => (place.close < p <=> place.close < q)

LEMMA ReadKept ==
  ASSUME Well, NEW k \in Placed, NEW p \in Nat, NEW q \in Nat, EntriesEnd(Lay[k]) <= p, p <= q,
         SameBlock(Lay[k], p, q), NEW n, ReadTo(text, n, Lay[k], p)
  PROVE  ReadTo(text, n, Lay[k], q)
<1>1. EntriesEnd(Lay[k]) \in Nat
  BY EntryNumbers
<1>2. EntriesEnd(Lay[k]) <= q
  BY <1>1
<1>3. ReadBy(Lay[k], q) = ReadBy(Lay[k], p)
  BY <1>2, AllRead
<1>4. QED
  BY <1>3 DEF ReadTo, SameBlock

\* The nodes of the list, if no name is added to it.
LEMMA ListedKept ==
  ASSUME Going, Still, DOMAIN nodes' = DOMAIN nodes,
         \A i \in DOMAIN nodes : nodes'[i].name = nodes[i].name,
         \A k \in Placed : (Met(k)' <=> Met(k)) /\ (Gone(k)' <=> Gone(k)),
         \A i \in DOMAIN nodes : \E k \in Placed : ReadTo(text, nodes'[i], Lay[k], pos')
  PROVE  Listed'
<1>1. Placed' = Placed /\ Lay' = Lay /\ text' = text
  BY StillIs DEF Still
<1>2. \A k \in Placed : Met(k) /\ ~Gone(k) <=> \E i \in DOMAIN nodes : nodes[i].name = Lay[k].name
  BY DEF Going, Listed
<1>3. \A k \in Placed : Met(k)' /\ ~Gone(k)' <=> \E i \in DOMAIN nodes : nodes'[i].name = Lay[k].name
  BY <1>2
<1>4. \A i \in DOMAIN nodes : \E k \in Placed : ReadAs(nodes[i], k)'
  BY <1>1 DEF ReadAs
<1>5. QED
  BY <1>1, <1>3, <1>4 DEF Listed

\* If those behind the first m are dropped.
LEMMA ListedCut ==
  ASSUME Going, Still, NEW m \in 0..Len(nodes), nodes' = SubSeq(nodes, 1, m),
         \A k \in Placed : (Met(k)' <=> Met(k)) /\ (Gone(k) => Gone(k)'),
         \A i \in DOMAIN nodes : \A k \in Placed :
           nodes[i].name = Lay[k].name => (Gone(k)' <=> m < i),
         \A i \in 1..m : \E k \in Placed : ReadTo(text, nodes[i], Lay[k], pos')
  PROVE  Listed'
<1>1. Placed' = Placed /\ Lay' = Lay /\ text' = text
  BY StillIs DEF Still
<1>2. \A k \in Placed : Met(k) /\ ~Gone(k) <=> \E i \in DOMAIN nodes : nodes[i].name = Lay[k].name
  BY DEF Going, Listed
<1>3. /\ DOMAIN nodes' = 1..m /\ m \in Nat /\ DOMAIN nodes = 1..Len(nodes) /\ Len(nodes) \in Nat
      /\ \A i \in 1..m : i \in DOMAIN nodes /\ nodes'[i] = nodes[i]
  <2>1. nodes \in Seq(Node)
    BY DEF Going, TypeOK
  <2>2. QED
    BY <2>1, Cut
<1>4. ASSUME NEW k \in Placed
      PROVE  Met(k)' /\ ~Gone(k)' <=> \E i \in DOMAIN nodes' : nodes'[i].name = Lay[k].name
  <2>1. ASSUME Met(k)', ~Gone(k)' PROVE \E i \in DOMAIN nodes' : nodes'[i].name = Lay[k].name
    <3>1. PICK i \in DOMAIN nodes : nodes[i].name = Lay[k].name
      BY <1>2, <2>1
    <3>2. ~(m < i)
      BY <2>1, <3>1
    <3>3. i \in 1..m
      BY <1>3, <3>2
    <3>4. QED
      BY <1>3, <3>1, <3>3
  <2>2. ASSUME NEW i \in DOMAIN nodes', nodes'[i].name = Lay[k].name PROVE Met(k)' /\ ~Gone(k)'
    <3>1. i \in 1..m /\ i \in DOMAIN nodes /\ nodes[i].name = Lay[k].name
      BY <1>3, <2>2
    <3>2. ~(m < i)
      BY <1>3, <3>1
    <3>3. QED
      BY <1>2, <3>1, <3>2
  <2>3. QED
    BY <2>1, <2>2
<1>5. \A i \in DOMAIN nodes' : \E k \in Placed : ReadAs(nodes[i], k)'
  <2>1. ASSUME NEW i \in DOMAIN nodes' PROVE \E k \in Placed : ReadTo(text, nodes'[i], Lay[k], pos')
    BY <1>3
  <2>2. QED
    BY <1>1, <2>1 DEF ReadAs
<1>6. QED
  BY <1>1, <1>4, <1>5 DEF Listed

\* The open nodes, if none is added to them or ended.
LEMMA StackedKept ==
  ASSUME Going, Still, UNCHANGED open,
         \A f \in DOMAIN open : nodes'[open[f].node].name = nodes[open[f].node].name,
         \A k \in Placed : InHand(k)' <=> InHand(k),
         \A k \in Placed : Lay[k].brace # 0 /\ Lay[k].brace < pos' => Lay[k].brace < pos
  PROVE  Stacked'
<1>1. Placed' = Placed /\ Lay' = Lay
  BY StillIs
<1>2. ASSUME NEW f \in DOMAIN open, NEW k \in Placed, FrameOf(open[f], k) PROVE FrameOf(open[f], k)'
  BY <1>1, <1>2 DEF FrameOf
<1>3. \A f \in DOMAIN open : \E k \in Placed : InHand(k)' /\ FrameOf(open[f], k)'
  BY <1>2 DEF Going, Stacked
<1>4. \A k \in Placed : InHand(k)' => \E f \in DOMAIN open : FrameOf(open[f], k)'
  BY <1>2 DEF Going, Stacked
<1>5. QED
  BY <1>1, <1>3, <1>4 DEF Stacked

----------------------------------------------------------------------------
\* Steps over space and entries

LEMMA OthersKept ==
  ASSUME Going, pos' \in Nat, pos <= pos', NEW i \in DOMAIN nodes, NEW k \in Placed,
         nodes[i].name = Lay[k].name, Outside(Lay[k], pos), SameBlock(Lay[k], pos, pos')
  PROVE  ReadTo(text, nodes[i], Lay[k], pos')
<1>1. Well /\ ReadTo(text, nodes[i], Lay[k], pos) /\ Met(k)
  BY ListedAt DEF Going
<1>2. EntriesEnd(Lay[k]) <= pos
  <2>1. /\ NodeBegin(Lay[k]) \in 1..Lay[k].name /\ Lay[k].name \in Nat
        /\ EntriesEnd(Lay[k]) \in (Lay[k].name + 1)..HeadEnd(Lay[k]) /\ HeadEnd(Lay[k]) \in Nat
    <3>1. /\ NodeBegin(Lay[k]) \in 1..Lay[k].name /\ Lay[k].name \in 1..Len(text)
          /\ EntriesEnd(Lay[k]) \in (Lay[k].name + 1)..HeadEnd(Lay[k]) /\ Len(text) \in Nat
          /\ HeadEnd(Lay[k]) \in (Lay[k].name + 1)..NodeEnd(Lay[k]) /\ NodeEnd(Lay[k]) \in 1..(Len(text) + 1)
      BY <1>1, PartsOf
    <3>2. QED
      BY <3>1
  <2>2. Lay[k].name < pos /\ pos \in Nat
    BY <1>1, NamesRise DEF Met
  <2>3. pos <= NodeBegin(Lay[k]) \/ HeadEnd(Lay[k]) <= pos
    BY DEF Outside
  <2>4. QED
    BY <2>1, <2>2, <2>3
<1>3. pos \in Nat
  BY NamesRise
<1>4. QED
  BY <1>1, <1>2, <1>3, ReadKept

LEMMA AlikeBlock ==
  ASSUME NEW place, NEW p, NEW q, Alike(place, p, q) PROVE SameBlock(place, p, q)
BY DEF Alike, SameBlock

LEMMA QuietKeepsReading ==
  ASSUME Going, Still, pos' \in Nat, UNCHANGED <<stage, open>>,
         \A k \in Placed : Alike(Lay[k], pos, pos'), DOMAIN nodes' = DOMAIN nodes,
         \A i \in DOMAIN nodes : nodes'[i].name = nodes[i].name,
         \A i \in DOMAIN nodes : \E k \in Placed : ReadTo(text, nodes'[i], Lay[k], pos')
  PROVE  Listed' /\ Stacked' /\ \A k \in Placed : IsNow(k)' <=> IsNow(k)
<1>1. Well /\ pos \in Nat /\ TypeOK
  BY NamesRise DEF Going
<1>2. Lay' = Lay /\ Placed' = Placed
  BY StillIs
<1>3. Now' = Now
  BY DEF Now
<1>4. \A k \in Placed : IsNow(k)' <=> IsNow(k)
  <2>1. CASE stage \in {"node", "closed"}
    <3>1. open # <<>>
      BY <1>1, <2>1 DEF TypeOK
    <3>2. Now \in DOMAIN nodes
      BY <1>1, <3>1, NowIsOpen
    <3>3. nodes'[Now].name = nodes[Now].name
      BY <3>2
    <3>4. QED
      BY <1>2, <1>3, <3>3 DEF IsNow
  <2>2. CASE stage \notin {"node", "closed"}
    BY <2>2 DEF IsNow
  <2>3. QED
    BY <2>1, <2>2
<1>5. \A k \in Placed : /\ Met(k)' <=> Met(k)
                        /\ Entered(k)' <=> Entered(k)
                        /\ Lay[k].brace # 0 => (Hid(k)' <=> Hid(k))
  BY <1>1, NothingMet
<1>6. \A k \in Placed : InHand(k)' <=> InHand(k)
  BY <1>4, <1>5 DEF InHand
<1>7. \A k \in Placed : Left(k)' <=> Left(k)
  BY <1>5, <1>6, LeftSame
<1>8. \A k \in Placed : Gone(k)' <=> Gone(k)
  BY <1>5, <1>7, GoneSame
<1>9. Listed'
  BY <1>5, <1>8, ListedKept
<1>10. Stacked'
  <2>1. \A f \in DOMAIN open : open[f].node \in DOMAIN nodes
    BY <1>1 DEF TypeOK
  <2>2. \A f \in DOMAIN open : nodes'[open[f].node].name = nodes[open[f].node].name
    BY <2>1
  <2>3. \A k \in Placed : Lay[k].brace # 0 /\ Lay[k].brace < pos' => Lay[k].brace < pos
    BY DEF Alike
  <2>4. QED
    BY <1>6, <2>2, <2>3, StackedKept
<1>11. QED
  BY <1>4, <1>9, <1>10

LEMMA SkipKeepsReading ==
  ASSUME Going, Still, SkipLineSpace
  PROVE  InStep' /\ Listed' /\ Stacked'
<1>1. /\ Well /\ pos \in Nat /\ pos # 0 /\ OnlyLines(text, Lay, pos) /\ stage = "nodes"
      /\ \A k \in Placed : Outside(Lay[k], pos)
  <2>1. stage = "nodes"
    BY DEF SkipLineSpace
  <2>2. QED
    BY <2>1, NamesRise DEF Going, InStep, Clear
<1>2. /\ At(pos, LineSpace) /\ pos' = pos + 1 /\ UNCHANGED <<text, stage, nodes, open>>
  BY DEF SkipLineSpace
<1>3. PICK q : NextPoint(text, Lay, pos, q) /\ Only(text, pos, q, LineSpace)
  BY <1>1 DEF OnlyLines
<1>4. q \in Points(text, Lay) /\ pos <= q /\ \A r \in Points(text, Lay) : r < pos \/ q <= r
  BY <1>3 DEF NextPoint
<1>5. q \in Nat /\ ~At(q, LineSpace)
  <2>1. q \in 1..(Len(text) + 1) /\ Len(text) \in Nat /\ ~At(q, LineSpace)
    BY <1>1, <1>4, PointIs
  <2>2. QED
    BY <2>1
<1>6. pos' \in Nat /\ pos' <= q /\ pos' \in pos..q
  BY <1>1, <1>2, <1>4, <1>5
<1>7. OnlyLines(text, Lay, pos')
  <2>1. \A r \in Points(text, Lay) : r < pos' \/ q <= r
    <3>1. \A r \in Points(text, Lay) : r \in Nat
      <4>1. \A r \in Points(text, Lay) : r \in 1..(Len(text) + 1)
        BY <1>1, PointIs
      <4>2. QED
        BY <4>1
    <3>2. QED
      BY <1>1, <1>2, <1>4, <3>1
  <2>2. NextPoint(text, Lay, pos', q)
    BY <1>4, <1>6, <2>1 DEF NextPoint
  <2>3. Only(text, pos', q, LineSpace)
    BY <1>1, <1>2, <1>3, <1>5, <1>6 DEF Only
  <2>4. QED
    BY <1>4, <2>2, <2>3 DEF OnlyLines
<1>8. \A k \in Placed : Alike(Lay[k], pos, pos') /\ Outside(Lay[k], pos')
  BY <1>1, <1>3, <1>6, NothingBefore
<1>9. \A i \in DOMAIN nodes : \E k \in Placed : ReadTo(text, nodes'[i], Lay[k], pos')
  <2>1. ASSUME NEW i \in DOMAIN nodes PROVE \E k \in Placed : ReadTo(text, nodes[i], Lay[k], pos')
    <3>1. PICK k \in Placed : nodes[i].name = Lay[k].name
      BY NamesRise
    <3>2. pos <= pos'
      BY <1>1, <1>2
    <3>3. ReadTo(text, nodes[i], Lay[k], pos')
      BY <1>1, <1>6, <1>8, <3>1, <3>2, AlikeBlock, OthersKept
    <3>4. QED
      BY <3>3
  <2>2. QED
    BY <1>2, <2>1
<1>10. Listed' /\ Stacked' /\ \A k \in Placed : IsNow(k)' <=> IsNow(k)
  BY <1>2, <1>6, <1>8, <1>9, QuietKeepsReading
<1>11. InStep'
  <2>1. Lay' = Lay /\ Placed' = Placed /\ text' = text /\ stage' = "nodes"
    BY <1>1, <1>2, StillIs
  <2>2. OnlyLines(text', Lay', pos')
    BY <1>7, <2>1
  <2>3. \A k \in Placed : Outside(Lay'[k], pos')
    BY <1>8, <2>1
  <2>4. QED
    BY <2>1, <2>2, <2>3 DEF InStep, Clear
<1>12. QED
  BY <1>10, <1>11

\* The node whose entries are being read, and how many have been.
LEMMA HereIs ==
  ASSUME Going, stage = "node"
  PROVE  \E c \in Placed : \E j \in 1..(Len(Lay[c].items) + 1) :
           /\ IsNow(c) /\ pos = Since(Lay[c], j) /\ FrameOf(open[Len(open)], c)
           /\ Lay[c].name = nodes[Now].name /\ \A k \in Placed : IsNow(k) => k = c
<1>1. PICK c \in Placed : /\ IsNow(c) /\ FrameOf(open[Len(open)], c) /\ Lay[c].name = nodes[Now].name
                          /\ \A k \in Placed : IsNow(k) => k = c
  BY TopIs
<1>2. PICK j \in 1..(Len(Lay[c].items) + 1) : pos = Since(Lay[c], j)
  BY <1>1 DEF Going, InStep
<1>3. QED
  BY <1>1, <1>2

LEMMA Between ==
  ASSUME NEW a \in Nat, NEW e \in Nat, NEW p \in Nat, NEW q \in Nat, a < p, p < q, q <= e
  PROVE  p \in (a + 1)..e /\ q \in p..e /\ q \in (a + 1)..e /\ q \in q..e
OBVIOUS

\* From before an entry to behind it nothing is met.
LEMMA EntrySpan ==
  ASSUME Well, NEW c \in Placed, NEW j \in 1..Len(Lay[c].items),
         NEW p, p = Since(Lay[c], j), NEW q, q = Lay[c].items[j].at + 1
  PROVE  /\ p \in Nat /\ q \in Nat /\ p <= q /\ q = Since(Lay[c], j + 1)
         /\ \A k \in Placed : Alike(Lay[k], p, q)
         /\ \A k \in Placed : k # c => Outside(Lay[k], p) /\ Outside(Lay[k], q)
<1> DEFINE n == Lay[c]
           m == Len(n.items)
           e == EntriesEnd(n)
           a == n.name
<1>1. m \in Nat
  BY EntryNumbers
<1>2. PICK b \in 1..(m + 1) : b = j + 1
  BY <1>1
<1>3. j \in 1..(m + 1)
  BY <1>1
<1>4. Since(n, j + 1) = q
  BY EntryNumbers
<1>5. q = Since(n, b)
  BY <1>2, <1>4
<1>6. /\ p \in Nat /\ a < p /\ p <= e /\ q \in Nat /\ a < q /\ q <= e /\ e \in Nat /\ a \in Nat
  BY <1>3, <1>5, EntryNumbers
<1>7. p < q
  <2>1. j < b
    BY <1>2
  <2>2. QED
    BY <1>3, <1>5, <2>1, EntryNumbers
<1> HIDE DEF a, e
<1>8. p \in (a + 1)..e /\ q \in p..e /\ q \in (a + 1)..e /\ q \in q..e
  BY <1>6, <1>7, Between
<1>9. \A k \in Placed : Alike(Lay[k], p, q) /\ (k # c => Outside(Lay[k], p))
  BY <1>8, NothingWithin DEF a, e
<1>10. \A k \in Placed : k # c => Outside(Lay[k], q)
  BY <1>8, NothingWithin DEF a, e
<1>11. p <= q
  BY <1>6, <1>7
<1>12. QED
  BY <1>4, <1>6, <1>9, <1>10, <1>11

LEMMA EntryKeepsReading ==
  ASSUME Going, Still, stage = "node", UNCHANGED <<stage, open>>,
         NEW c \in Placed, IsNow(c), NEW j \in 1..Len(Lay[c].items), pos = Since(Lay[c], j),
         pos' = Lay[c].items[j].at + 1, DOMAIN nodes' = DOMAIN nodes,
         \A i \in DOMAIN nodes : i # Now => nodes'[i] = nodes[i],
         ReadTo(text, nodes'[Now], Lay[c], pos')
  PROVE  InStep' /\ Listed' /\ Stacked'
<1>1. Well /\ TypeOK
  BY DEF Going
<1>2. /\ pos \in Nat /\ pos' \in Nat /\ pos <= pos' /\ pos' = Since(Lay[c], j + 1)
      /\ \A k \in Placed : Alike(Lay[k], pos, pos')
      /\ \A k \in Placed : k # c => Outside(Lay[k], pos) /\ Outside(Lay[k], pos')
  BY <1>1, EntrySpan
<1>3. Lay[c].name = nodes[Now].name /\ Now \in DOMAIN nodes
  <2>1. open # <<>>
    BY <1>1 DEF TypeOK
  <2>2. QED
    BY <1>1, <2>1, NowIsOpen DEF IsNow
<1>4. nodes'[Now].name = nodes[Now].name
  BY <1>3 DEF ReadTo
<1>5. \A i \in DOMAIN nodes : nodes'[i].name = nodes[i].name
  BY <1>4
<1>6. \A i \in DOMAIN nodes : \E k \in Placed : ReadTo(text, nodes'[i], Lay[k], pos')
  <2>1. ASSUME NEW i \in DOMAIN nodes, i # Now
        PROVE  \E k \in Placed : ReadTo(text, nodes[i], Lay[k], pos')
    <3>1. PICK k \in Placed : nodes[i].name = Lay[k].name
      BY NamesRise
    <3>2. k # c
      BY <1>3, <2>1, <3>1, NamesRise
    <3>3. ReadTo(text, nodes[i], Lay[k], pos')
      BY <1>2, <3>1, <3>2, AlikeBlock, OthersKept
    <3>4. QED
      BY <3>3
  <2>2. QED
    BY <2>1
<1>7. Listed' /\ Stacked' /\ \A k \in Placed : IsNow(k)' <=> IsNow(k)
  BY <1>2, <1>5, <1>6, QuietKeepsReading
<1>8. InStep'
  <2>1. Lay' = Lay /\ Placed' = Placed /\ text' = text /\ stage' = "node"
    BY StillIs DEF Still
  <2>2. ASSUME NEW k \in Placed, IsNow(k)' PROVE \E l \in 1..(Len(Lay[k].items) + 1) : pos' = Since(Lay[k], l)
    <3>1. k = c
      BY <1>1, <1>3, <1>7, <2>2, SameName DEF IsNow
    <3>2. Len(Lay[c].items) \in Nat
      BY <1>1, EntryNumbers
    <3>3. j + 1 \in 1..(Len(Lay[c].items) + 1)
      BY <3>2
    <3>4. QED
      BY <1>2, <3>1, <3>3
  <2>3. \A k \in Placed : Clear(k)' \/ IsNow(k)'
    <3>1. \A k \in Placed : k # c => Outside(Lay'[k], pos')
      BY <1>2, <2>1
    <3>2. QED
      BY <1>7, <3>1 DEF Clear
  <2>4. QED
    BY <2>1, <2>2, <2>3 DEF InStep
<1>9. QED
  BY <1>7, <1>8

LEMMA RecognisedAhead ==
  ASSUME Onward # pos, IsEntry(Onward)
  PROVE  EntryAhead
<1>1. ~Dashed(Onward)
  <2>1. IsValue(Onward) => ~Dashed(Onward)
    BY StartsApart DEF IsValue, LiteralAt
  <2>2. IsProperty(Onward) => ~Dashed(Onward)
    BY StartsApart DEF IsProperty
  <2>3. QED
    BY <2>1, <2>2 DEF IsEntry, IsArgument
<1>2. QED
  BY <1>1 DEF EntryAhead, Behind

\* At the end of the entries no entry is ahead; before, one is.
LEMMA EntryIsHere ==
  ASSUME Going, stage = "node", EntryAhead
  PROVE  \E c \in Placed : \E j \in 1..Len(Lay[c].items) :
           /\ IsNow(c) /\ pos = Since(Lay[c], j) /\ Lay[c].name = nodes[Now].name
           /\ Ahead(Lay[c].items[j])
<1>1. Well
  BY DEF Going
<1>2. PICK c \in Placed : \E j \in 1..(Len(Lay[c].items) + 1) :
        IsNow(c) /\ pos = Since(Lay[c], j) /\ Lay[c].name = nodes[Now].name
  BY HereIs
<1>3. PICK j \in 1..(Len(Lay[c].items) + 1) :
        IsNow(c) /\ pos = Since(Lay[c], j) /\ Lay[c].name = nodes[Now].name
  BY <1>2
<1>4. Len(Lay[c].items) \in Nat /\ EntriesEnd(Lay[c]) = Since(Lay[c], Len(Lay[c].items) + 1)
  BY <1>1, EntryNumbers
<1>5. j # Len(Lay[c].items) + 1
  <2>1. SUFFICES ASSUME pos = EntriesEnd(Lay[c]) PROVE FALSE
    BY <1>3, <1>4
  <2>2. CASE Lay[c].brace # 0
    BY <1>1, <2>1, <2>2, BlockIsAhead
  <2>3. CASE Lay[c].brace = 0
    BY <1>1, <2>1, <2>3, NothingIsAhead
  <2>4. QED
    BY <2>2, <2>3
<1>6. j \in 1..Len(Lay[c].items)
  BY <1>4, <1>5
<1>7. Ahead(Lay[c].items[j])
  BY <1>1, <1>3, <1>6, EntryIsAhead
<1>8. QED
  BY <1>3, <1>6, <1>7

LEMMA EndIsHere ==
  ASSUME Going, stage = "node", ~EntryAhead
  PROVE  \E c \in Placed :
           /\ IsNow(c) /\ pos = EntriesEnd(Lay[c]) /\ Lay[c].name = nodes[Now].name
           /\ FrameOf(open[Len(open)], c) /\ \A k \in Placed : IsNow(k) => k = c
<1>1. Well
  BY DEF Going
<1>2. PICK c \in Placed : \E j \in 1..(Len(Lay[c].items) + 1) :
           /\ IsNow(c) /\ pos = Since(Lay[c], j) /\ FrameOf(open[Len(open)], c)
           /\ Lay[c].name = nodes[Now].name /\ \A k \in Placed : IsNow(k) => k = c
  BY HereIs
<1>3. PICK j \in 1..(Len(Lay[c].items) + 1) : pos = Since(Lay[c], j)
  BY <1>2
<1>4. Len(Lay[c].items) \in Nat /\ EntriesEnd(Lay[c]) = Since(Lay[c], Len(Lay[c].items) + 1)
  BY <1>1, EntryNumbers
<1>5. j \notin 1..Len(Lay[c].items)
  <2>1. SUFFICES ASSUME j \in 1..Len(Lay[c].items) PROVE FALSE
    OBVIOUS
  <2>2. Ahead(Lay[c].items[j])
    BY <1>1, <1>3, <2>1, EntryIsAhead
  <2>3. QED
    BY <2>2 DEF Ahead, EntryAhead
<1>6. j = Len(Lay[c].items) + 1
  BY <1>4, <1>5
<1>7. QED
  BY <1>2, <1>3, <1>4, <1>6

\* One more entry of a node is read.
TakesIn(new, n, x) ==
  LET args(o) == {o.args[i] : i \in DOMAIN o.args}
      v == [ty |-> x.ty, at |-> x.at]
  IN  /\ new.ty = n.ty /\ new.name = n.name /\ new.block = n.block
      /\ args(new) = IF x.dash = 0 /\ x.key = 0 THEN args(n) \cup {v} ELSE args(n)
      /\ new.props = IF x.dash = 0 /\ x.key # 0 THEN Insert(n.props, x.key, v) ELSE n.props

LEMMA ReadMore ==
  ASSUME Well, NEW c \in Placed, NEW j \in 1..Len(Lay[c].items),
         NEW n, ReadTo(text, n, Lay[c], Since(Lay[c], j)), NEW new, TakesIn(new, n, Lay[c].items[j])
  PROVE  ReadTo(text, new, Lay[c], Since(Lay[c], j + 1))
<1> DEFINE x == Lay[c].items[j]
           p == Since(Lay[c], j)
           q == Since(Lay[c], j + 1)
           S == Upto(Lay[c], j)
           R == Upto(Lay[c], j + 1)
           args(o) == {o.args[i] : i \in DOMAIN o.args}
           v == [ty |-> x.ty, at |-> x.at]
<1>1. Alike(Lay[c], p, q)
  <2>1. q = x.at + 1
    BY EntrySpan
  <2>2. QED
    BY <2>1, EntrySpan
<1>2. R = S \cup {x} /\ S \in SUBSET Item /\ x \in Item
  BY UptoNext
<1>3. x.key # 0 => \A o \in Keyed(S) : o.key < x.key
  BY UptoNext
<1>4. ReadBy(Lay[c], p) = S /\ ReadBy(Lay[c], q) = R
  <2>1. Len(Lay[c].items) \in Nat
    BY EntryNumbers
  <2>2. j \in 1..(Len(Lay[c].items) + 1) /\ j + 1 \in 1..(Len(Lay[c].items) + 1)
    BY <2>1
  <2>3. QED
    BY <2>2, ReadByIs
<1>5. /\ new.ty = n.ty /\ new.name = n.name /\ new.block = n.block
      /\ args(new) = IF x.dash = 0 /\ x.key = 0 THEN args(n) \cup {v} ELSE args(n)
      /\ new.props = IF x.dash = 0 /\ x.key # 0 THEN Insert(n.props, x.key, v) ELSE n.props
  BY DEF TakesIn
<1> HIDE DEF S, R, p, q, x
<1>6. n.ty = Lay[c].ty /\ n.name = Lay[c].name /\ args(n) = ArgsOf(S) /\ n.props = PropsOf(text, S)
  BY <1>4 DEF ReadTo, p
<1>7. new.block = IF Lay[c].brace # 0 /\ Lay[c].hide = 0 /\ Lay[c].close < q
                  THEN <<Lay[c].brace, Lay[c].close>> ELSE <<>>
  BY <1>1, <1>5 DEF ReadTo, Alike, p
<1>8. args(new) = ArgsOf(R)
  <2>1. CASE x.dash = 0 /\ x.key = 0
    <3>1. ArgsOf(R) = ArgsOf(S) \cup {v}
      BY <1>2, <2>1, OtherGrow
    <3> HIDE DEF args, v
    <3>2. QED
      BY <1>5, <1>6, <2>1, <3>1
  <2>2. CASE ~(x.dash = 0 /\ x.key = 0)
    <3>1. ArgsOf(R) = ArgsOf(S)
      BY <1>2, <2>2, OtherGrow
    <3> HIDE DEF args, v
    <3>2. QED
      BY <1>5, <1>6, <2>2, <3>1
  <2>3. QED
    BY <2>1, <2>2
<1>9. new.props = PropsOf(text, R)
  <2>1. CASE x.dash = 0 /\ x.key # 0
    <3>1. Insert(PropsOf(text, S), x.key, v) = PropsOf(text, R)
      BY <1>2, <1>3, <2>1, PropsGrow
    <3> HIDE DEF args, v
    <3>2. QED
      BY <1>5, <1>6, <2>1, <3>1
  <2>2. CASE ~(x.dash = 0 /\ x.key # 0)
    <3>1. PropsOf(text, R) = PropsOf(text, S)
      BY <1>2, <2>2, OtherGrow
    <3> HIDE DEF args, v
    <3>2. QED
      BY <1>5, <1>6, <2>2, <3>1
  <2>3. QED
    BY <2>1, <2>2
<1>10. QED
  BY <1>4, <1>5, <1>6, <1>7, <1>8, <1>9 DEF ReadTo, q

LEMMA ArgumentKeepsReading ==
  ASSUME Going, Still, Argument
  PROVE  InStep' /\ Listed' /\ Stacked'
<1> DEFINE v == ValueFrom(Onward)
           n == nodes[Now]
           new == [n EXCEPT !.args = Append(@, v)]
<1>1. /\ Onward # pos /\ IsArgument(Onward) /\ pos' = EntryEnd(Onward) /\ stage = "node"
      /\ nodes' = [nodes EXCEPT ![Now] = new] /\ UNCHANGED <<stage, open>>
  BY DEF Argument, Entry
<1>2. EntryAhead
  BY <1>1, RecognisedAhead DEF IsEntry
<1>3. PICK c \in Placed : \E j \in 1..Len(Lay[c].items) :
           /\ IsNow(c) /\ pos = Since(Lay[c], j) /\ Lay[c].name = nodes[Now].name
           /\ Ahead(Lay[c].items[j])
  BY <1>1, <1>2, EntryIsHere
<1>4. PICK j \in 1..Len(Lay[c].items) :
           /\ IsNow(c) /\ pos = Since(Lay[c], j) /\ Lay[c].name = nodes[Now].name
           /\ Ahead(Lay[c].items[j])
  BY <1>3
<1> DEFINE x == Lay[c].items[j]
<1>5. /\ x.dash = 0 /\ x.key = 0 /\ v = [ty |-> x.ty, at |-> x.at] /\ pos' = x.at + 1
  BY <1>1, <1>4 DEF Ahead
<1>6. TypeOK /\ Well /\ open # <<>>
  BY <1>1 DEF Going, TypeOK
<1>7. Now \in DOMAIN nodes /\ n \in Node
  BY <1>6, NowIsOpen
<1>8. /\ DOMAIN nodes' = DOMAIN nodes /\ nodes'[Now] = new
      /\ \A i \in DOMAIN nodes : i # Now => nodes'[i] = nodes[i]
  BY <1>1, <1>7
<1> HIDE DEF v, n
<1>9. /\ new.args = Append(n.args, v) /\ new.ty = n.ty /\ new.name = n.name /\ new.props = n.props
      /\ new.block = n.block /\ n.args \in Seq(Value)
  BY <1>7 DEF Node
<1>10. {new.args[i] : i \in DOMAIN new.args} = {n.args[i] : i \in DOMAIN n.args} \cup {v}
  <2>1. /\ DOMAIN Append(n.args, v) = 1..(Len(n.args) + 1) /\ DOMAIN n.args = 1..Len(n.args)
        /\ Len(n.args) \in Nat
        /\ \A i \in 1..Len(n.args) : Append(n.args, v)[i] = n.args[i]
        /\ Append(n.args, v)[Len(n.args) + 1] = v
    BY <1>9, AppendProperties
  <2> DEFINE m == Len(n.args)
             old == n.args
             more == Append(n.args, v)
  <2>2. \A i \in 1..(m + 1) : i \in 1..m \/ i = m + 1
    BY <2>1
  <2>3. 1..m \subseteq 1..(m + 1) /\ m + 1 \in 1..(m + 1)
    BY <2>1
  <2>4. DOMAIN more = 1..(m + 1) /\ DOMAIN old = 1..m /\ \A i \in 1..m : more[i] = old[i]
    BY <2>1
  <2>5. more[m + 1] = v
    BY <2>1
  <2> HIDE DEF more, old, m, new
  <2>6. {more[i] : i \in DOMAIN more} = {old[i] : i \in DOMAIN old} \cup {v}
    BY <2>2, <2>3, <2>4, <2>5
  <2>7. QED
    BY <1>9, <2>6 DEF more, old
<1>11. ReadTo(text, n, Lay[c], pos)
  BY <1>4, <1>7, ListedAt DEF n
<1> HIDE DEF new
<1>12. TakesIn(new, n, x)
  BY <1>5, <1>9, <1>10 DEF TakesIn
<1>13. ReadTo(text, new, Lay[c], pos')
  <2>1. pos' = Since(Lay[c], j + 1)
    BY <1>5, <1>6, EntryNumbers
  <2> HIDE DEF x
  <2>2. QED
    BY <1>4, <1>6, <1>11, <1>12, <2>1, ReadMore DEF x
<1>14. QED
  BY <1>1, <1>4, <1>5, <1>8, <1>13, EntryKeepsReading

LEMMA SetPropertyKeepsReading ==
  ASSUME Going, Still, SetProperty
  PROVE  InStep' /\ Listed' /\ Stacked'
<1> DEFINE v == ValueFrom(ValueAt(Onward))
           n == nodes[Now]
           new == [n EXCEPT !.props = Insert(@, Onward, v)]
<1>1. /\ Onward # pos /\ IsProperty(Onward) /\ pos' = EntryEnd(Onward) /\ stage = "node"
      /\ nodes' = [nodes EXCEPT ![Now] = new] /\ UNCHANGED <<stage, open>>
  BY DEF SetProperty, Entry
<1>2. EntryAhead
  BY <1>1, RecognisedAhead DEF IsEntry
<1>3. PICK c \in Placed : \E j \in 1..Len(Lay[c].items) :
           /\ IsNow(c) /\ pos = Since(Lay[c], j) /\ Lay[c].name = nodes[Now].name
           /\ Ahead(Lay[c].items[j])
  BY <1>1, <1>2, EntryIsHere
<1>4. PICK j \in 1..Len(Lay[c].items) :
           /\ IsNow(c) /\ pos = Since(Lay[c], j) /\ Lay[c].name = nodes[Now].name
           /\ Ahead(Lay[c].items[j])
  BY <1>3
<1> DEFINE x == Lay[c].items[j]
<1>5. /\ x.dash = 0 /\ x.key # 0 /\ v = [ty |-> x.ty, at |-> x.at] /\ pos' = x.at + 1
      /\ Onward = x.key
  BY <1>1, <1>4 DEF Ahead
<1>6. TypeOK /\ Well /\ open # <<>>
  BY <1>1 DEF Going, TypeOK
<1>7. Now \in DOMAIN nodes /\ n \in Node
  BY <1>6, NowIsOpen
<1>8. /\ DOMAIN nodes' = DOMAIN nodes /\ nodes'[Now] = new
      /\ \A i \in DOMAIN nodes : i # Now => nodes'[i] = nodes[i]
  BY <1>1, <1>7
<1> HIDE DEF v, n
<1>9. /\ new.props = Insert(n.props, Onward, v) /\ new.ty = n.ty /\ new.name = n.name
      /\ new.args = n.args /\ new.block = n.block
  BY <1>7 DEF Node
<1>10. new.props = Insert(n.props, x.key, [ty |-> x.ty, at |-> x.at])
  BY <1>5, <1>9
<1>11. ReadTo(text, n, Lay[c], pos)
  BY <1>4, <1>7, ListedAt DEF n
<1> HIDE DEF new
<1>12. TakesIn(new, n, x)
  BY <1>5, <1>9, <1>10, Zenon DEF TakesIn
<1>13. ReadTo(text, new, Lay[c], pos')
  <2>1. pos' = Since(Lay[c], j + 1)
    BY <1>5, <1>6, EntryNumbers
  <2> HIDE DEF x
  <2>2. QED
    BY <1>4, <1>6, <1>11, <1>12, <2>1, ReadMore DEF x
<1>14. QED
  BY <1>1, <1>4, <1>5, <1>8, <1>13, EntryKeepsReading

LEMMA IgnoreKeepsReading ==
  ASSUME Going, Still, IgnoreEntry
  PROVE  InStep' /\ Listed' /\ Stacked'
<1>1. /\ EntryAhead /\ Dashed(Onward) /\ pos' = EntryEnd(Behind(Onward)) /\ stage = "node"
      /\ UNCHANGED <<nodes, stage, open>>
  BY DEF IgnoreEntry
<1>2. PICK c \in Placed : \E j \in 1..Len(Lay[c].items) :
           /\ IsNow(c) /\ pos = Since(Lay[c], j) /\ Lay[c].name = nodes[Now].name
           /\ Ahead(Lay[c].items[j])
  BY <1>1, EntryIsHere
<1>3. PICK j \in 1..Len(Lay[c].items) :
           /\ IsNow(c) /\ pos = Since(Lay[c], j) /\ Lay[c].name = nodes[Now].name
           /\ Ahead(Lay[c].items[j])
  BY <1>2
<1> DEFINE x == Lay[c].items[j]
<1>4. x.dash # 0 /\ pos' = x.at + 1
  BY <1>1, <1>3 DEF Ahead
<1>5. TypeOK /\ Well /\ open # <<>>
  BY <1>1 DEF Going, TypeOK
<1>6. Now \in DOMAIN nodes
  BY <1>5, NowIsOpen
<1>7. ReadTo(text, nodes[Now], Lay[c], pos)
  BY <1>3, <1>6, ListedAt
<1>8. ReadTo(text, nodes[Now], Lay[c], pos')
  <2>1. pos' = Since(Lay[c], j + 1)
    BY <1>4, <1>5, EntryNumbers
  <2>2. TakesIn(nodes[Now], nodes[Now], x)
    BY <1>4 DEF TakesIn
  <2> HIDE DEF x
  <2>3. QED
    BY <1>3, <1>5, <1>7, <2>1, <2>2, ReadMore DEF x
<1>9. QED
  BY <1>1, <1>3, <1>4, <1>8, EntryKeepsReading

----------------------------------------------------------------------------
\* A node begins

\* In its head nothing of another node is met.
LEMMA AroundHead ==
  ASSUME Well, NEW c \in Placed, NEW p \in Nat, NEW q \in Nat, NodeBegin(Lay[c]) <= p, p <= q,
         q <= HeadEnd(Lay[c]), NEW k \in Placed, k # c
  PROVE  Alike(Lay[k], p, q) /\ Outside(Lay[k], p) /\ Outside(Lay[k], q)
<1> DEFINE b == NodeBegin(Lay[k])
           n == Lay[k].name
           h == HeadEnd(Lay[k])
           l == Lay[k].brace
           e == Lay[k].close
           bc == NodeBegin(Lay[c])
           hc == HeadEnd(Lay[c])
           ec == NodeEnd(Lay[c])
<1>1. /\ b \in Nat /\ n \in Nat /\ h \in Nat /\ l \in Nat /\ e \in Nat /\ b <= n /\ n < h
      /\ l # 0 => n < l /\ l < e /\ h = l + 1
  <2>1. /\ NodeBegin(Lay[k]) \in 1..Lay[k].name /\ Lay[k].name \in 1..Len(text) /\ Len(text) \in Nat
        /\ HeadEnd(Lay[k]) \in (Lay[k].name + 1)..NodeEnd(Lay[k]) /\ Lay[k].brace \in Nat
        /\ Lay[k].close \in Nat
        /\ Lay[k].brace # 0 => Lay[k].name < Lay[k].brace /\ Lay[k].brace < Lay[k].close
                               /\ HeadEnd(Lay[k]) = Lay[k].brace + 1
    BY PartsOf
  <2>2. QED
    BY <2>1
<1>2. bc \in Nat /\ bc # 0 /\ hc \in Nat /\ ec \in Nat /\ hc <= ec
  <2>1. /\ NodeBegin(Lay[c]) \in 1..Lay[c].name /\ Lay[c].name \in 1..Len(text) /\ Len(text) \in Nat
        /\ HeadEnd(Lay[c]) \in (Lay[c].name + 1)..NodeEnd(Lay[c])
        /\ NodeEnd(Lay[c]) \in 1..(Len(text) + 1)
    BY PartsOf
  <2>2. QED
    BY <2>1
<1>3. k < c \/ c < k
  <2>1. k \in Nat /\ c \in Nat
    BY LayIs
  <2>2. QED
    BY <2>1
<1>4. k < c => h <= bc /\ (l # 0 => e < bc \/ ec <= e)
  BY Later
<1>5. c < k => hc <= b
  BY Later
<1>6. bc <= p /\ q <= hc
  OBVIOUS
<1> HIDE DEF b, n, h, l, e, bc, hc, ec
<1>7. l = 0 => (l < p <=> l < q)
  BY <1>2, <1>6
<1>8. CASE k < c
  <2>1. /\ n < p /\ n < q /\ h <= p /\ h <= q
        /\ l # 0 => l < p /\ l < q /\ (e < p <=> e < q)
    BY <1>1, <1>2, <1>4, <1>6, <1>8
  <2>2. QED
    BY <1>7, <2>1 DEF Alike, Outside, b, n, h, l, e
<1>9. CASE c < k
  <2>1. /\ ~(n < p) /\ ~(n < q) /\ p <= b /\ q <= b
        /\ l # 0 => ~(l < p) /\ ~(l < q) /\ ~(e < p) /\ ~(e < q)
    BY <1>1, <1>2, <1>5, <1>6, <1>9
  <2>2. QED
    BY <1>7, <2>1 DEF Alike, Outside, b, n, h, l, e
<1>10. QED
  BY <1>3, <1>8, <1>9

\* Where nodes are read, what is no space is a point.
LEMMA PointHere ==
  ASSUME Going, stage = "nodes", ~At(pos, LineSpace)
  PROVE  pos \in Points(text, Lay)
<1>1. Well /\ pos \in Nat /\ OnlyLines(text, Lay, pos)
  BY NamesRise DEF Going, InStep
<1>2. PICK q \in Points(text, Lay) : NextPoint(text, Lay, pos, q) /\ Only(text, pos, q, LineSpace)
  BY <1>1 DEF OnlyLines
<1>3. q \in Nat
  <2>1. q \in 1..(Len(text) + 1) /\ Len(text) \in Nat
    BY <1>1, PointIs
  <2>2. QED
    BY <2>1
<1>4. pos <= q
  BY <1>2 DEF NextPoint
<1>5. pos = q
  <2>1. SUFFICES ASSUME pos < q PROVE FALSE
    BY <1>1, <1>3, <1>4
  <2>2. pos \in pos..(q - 1)
    BY <1>1, <1>3, <2>1
  <2>3. QED
    BY <1>2, <2>2, IsAt DEF Only
<1>6. QED
  BY <1>2, <1>5

LEMMA NodeIsHere ==
  ASSUME Going, stage = "nodes", IsNode(Behind(pos))
  PROVE  \E c \in Placed : pos = NodeBegin(Lay[c])
<1>1. At(pos, Starts)
  <2>1. CASE Dashed(pos)
    BY <2>1, StartsApart
  <2>2. CASE ~Dashed(pos)
    BY <2>2, RecognisedStarts DEF Behind
  <2>3. QED
    BY <2>1, <2>2
<1>2. pos \in Points(text, Lay)
  BY <1>1, StartsAreNoSpace, PointHere
<1>3. Well
  BY DEF Going
<1>4. QED
  BY <1>1, <1>2, <1>3, PointIs

\* A node that is met is within the braces of no node that is gone.
LEMMA BeginIsKept ==
  ASSUME Going, stage = "nodes", NEW c \in Placed, pos = NodeBegin(Lay[c])
  PROVE  ~Gone(c) /\ ~Met(c) /\ ~Entered(c)
<1>1. Well
  BY DEF Going
<1>2. ~Met(c) /\ ~Entered(c)
  <2>1. /\ NodeBegin(Lay[c]) \in 1..Lay[c].name /\ Lay[c].name \in 1..Len(text) /\ Len(text) \in Nat
        /\ Lay[c].brace \in Nat
        /\ Lay[c].brace # 0 => Lay[c].name < Lay[c].brace
    BY <1>1, PartsOf
  <2>2. ~(Lay[c].name < pos) /\ (Lay[c].brace # 0 => ~(Lay[c].brace < pos))
    BY <2>1
  <2>3. QED
    BY <2>2 DEF Met, Entered
<1>3. ASSUME NEW j \in Placed, Over(j, c) PROVE Entered(j) /\ ~Hid(j)
  <2>1. Lay[j].brace # 0 /\ Lay[j].brace + 1 <= NodeBegin(Lay[c]) /\ NodeEnd(Lay[c]) <= Lay[j].close
    BY <1>1, <1>3, OverIs
  <2>2. /\ NodeBegin(Lay[c]) \in 1..Lay[c].name /\ Lay[c].name \in 1..Len(text) /\ Len(text) \in Nat
        /\ HeadEnd(Lay[c]) \in (Lay[c].name + 1)..NodeEnd(Lay[c])
        /\ NodeEnd(Lay[c]) \in 1..(Len(text) + 1)
    BY <1>1, PartsOf
  <2>3. Lay[j].brace \in Nat /\ Lay[j].close \in Nat
    BY <1>1, PartsOf
  <2> DEFINE lj == Lay[j].brace
             ej == Lay[j].close
             nc == Lay[c].name
             hc == HeadEnd(Lay[c])
             ec == NodeEnd(Lay[c])
  <2>4. /\ lj + 1 <= pos /\ ec <= ej /\ pos \in 1..nc /\ nc \in Nat /\ hc \in (nc + 1)..ec
        /\ ec \in Nat /\ lj \in Nat /\ ej \in Nat
    BY <2>1, <2>2, <2>3
  <2> HIDE DEF lj, ej, nc, hc, ec
  <2>5. lj < pos /\ pos <= ej /\ ~(ej < pos)
    BY <2>4
  <2>6. QED
    BY <2>1, <2>5 DEF Entered, Hid, lj, ej
<1>4. ASSUME NEW j \in Placed, Left(j) PROVE j # c /\ ~Entered(j)
  BY <1>2, <1>4 DEF Left, InHand
<1>5. ~Gone(c)
  BY <1>3, <1>4 DEF Gone
<1>6. QED
  BY <1>2, <1>5

LEMMA BeginKeepsReading ==
  ASSUME Going, TypeOK', Still, BeginNode
  PROVE  InStep' /\ Listed' /\ Stacked'
<1>m. PICK m : m = Len(nodes) + 1
  OBVIOUS
<1>d. PICK d : d = Len(open) + 1
  OBVIOUS
<1> DEFINE start == Behind(pos)
           n == [ty |-> IF At(start, {"ty"}) THEN start ELSE 0, name |-> NameAt(start),
                 args |-> <<>>, props |-> {}, parent |-> Parent, block |-> <<>>]
           f == [node |-> m, skip |-> Dashed(pos), hide |-> FALSE, brace |-> 0]
<1>1. /\ IsNode(start) /\ nodes' = Append(nodes, n) /\ open' = Append(open, f)
      /\ pos' = NameAt(start) + 1 /\ stage = "nodes" /\ stage' = "node"
  BY <1>m DEF BeginNode
<1>2. Well /\ TypeOK /\ nodes \in Seq(Node) /\ open \in Seq(Frame) /\ pos \in Nat /\ pos # 0
  BY NamesRise DEF Going, TypeOK
<1>3. PICK c \in Placed : pos = NodeBegin(Lay[c])
  BY <1>1, NodeIsHere
<1>4. ~Gone(c) /\ ~Met(c) /\ ~Entered(c)
  BY <1>1, <1>3, BeginIsKept
<1>5. /\ start = NodeStart(Lay[c]) /\ (Dashed(pos) <=> Lay[c].dash # 0)
      /\ NameAt(start) = Lay[c].name /\ Lay[c].ty = IF At(start, {"ty"}) THEN start ELSE 0
  BY <1>2, <1>3, LayIs, NodeIs
<1>6. n.ty = Lay[c].ty /\ n.name = Lay[c].name /\ n.args = <<>> /\ n.props = {} /\ n.block = <<>>
  BY <1>5
<1>7. f.node = m /\ (f.skip <=> Lay[c].dash # 0) /\ f.brace = 0
  BY <1>5
<1>8. pos' = Lay[c].name + 1 /\ pos' = Since(Lay[c], 1)
  BY <1>1, <1>5 DEF Since
<1> HIDE DEF n, f
<1>9. /\ pos \in Nat /\ pos' \in Nat /\ pos <= Lay[c].name /\ Lay[c].name \in Nat /\ pos' <= HeadEnd(Lay[c])
      /\ Lay[c].brace \in Nat /\ Lay[c].close \in Nat
      /\ Lay[c].brace # 0 => Lay[c].name < Lay[c].brace /\ Lay[c].brace < Lay[c].close
  <2>1. /\ NodeBegin(Lay[c]) \in 1..Lay[c].name /\ Lay[c].name \in 1..Len(text) /\ Len(text) \in Nat
        /\ HeadEnd(Lay[c]) \in (Lay[c].name + 1)..NodeEnd(Lay[c]) /\ Lay[c].brace \in Nat
        /\ NodeEnd(Lay[c]) \in 1..(Len(text) + 1) /\ Lay[c].close \in Nat
        /\ Lay[c].brace # 0 => Lay[c].name < Lay[c].brace /\ Lay[c].brace < Lay[c].close
    BY <1>2, PartsOf
  <2>2. QED
    BY <1>3, <1>8, <2>1
<1>10. \A k \in Placed : k # c => Alike(Lay[k], pos, pos') /\ Outside(Lay[k], pos')
  <2>1. NodeBegin(Lay[c]) <= pos /\ pos <= pos'
    BY <1>3, <1>8, <1>9
  <2>2. QED
    BY <1>2, <1>9, <2>1, AroundHead
<1>11. Lay' = Lay /\ Placed' = Placed /\ text' = text
  BY StillIs DEF Still
<1>12. /\ ~Entered(c)' /\ Met(c)'
       /\ Lay[c].brace # 0 => ~Hid(c) /\ ~Hid(c)'
       /\ ~(Lay[c].brace # 0 /\ Lay[c].brace < pos')
  <2>1. Lay[c].brace # 0 => ~(Lay[c].brace < pos') /\ ~(Lay[c].close < pos') /\ ~(Lay[c].close < pos)
    BY <1>8, <1>9
  <2>2. Lay[c].name < pos'
    BY <1>8, <1>9
  <2>3. QED
    BY <1>11, <2>1, <2>2 DEF Entered, Met, Hid
<1>13. ASSUME NEW k \in Placed, k # c
       PROVE  /\ Met(k)' <=> Met(k)
              /\ Entered(k)' <=> Entered(k)
              /\ Lay[k].brace # 0 => (Hid(k)' <=> Hid(k))
  BY <1>2, <1>9, <1>10, <1>13, NothingMet
<1>14. /\ m \in DOMAIN nodes' /\ nodes'[m] = n /\ DOMAIN nodes \subseteq DOMAIN nodes'
       /\ \A i \in DOMAIN nodes' : i \in DOMAIN nodes \/ i = m
       /\ \A i \in DOMAIN nodes : nodes'[i] = nodes[i]
  <2>1. /\ DOMAIN nodes = 1..Len(nodes) /\ Len(nodes) \in Nat /\ DOMAIN nodes' = 1..m /\ nodes'[m] = n
        /\ \A i \in DOMAIN nodes : nodes'[i] = nodes[i]
    BY <1>1, <1>2, <1>m, AppendProperties
  <2>2. QED
    BY <1>m, <2>1
<1>15. /\ d \in DOMAIN open' /\ open'[d] = f /\ DOMAIN open \subseteq DOMAIN open'
       /\ \A g \in DOMAIN open' : g \in DOMAIN open \/ g = d
       /\ \A g \in DOMAIN open : open'[g] = open[g]
       /\ Len(open') = d /\ open' # <<>>
  <2>1. /\ DOMAIN open = 1..Len(open) /\ Len(open) \in Nat /\ DOMAIN open' = 1..d /\ open'[d] = f
        /\ Len(open') = d /\ \A g \in DOMAIN open : open'[g] = open[g]
    BY <1>1, <1>2, <1>d, AppendProperties
  <2>2. open' # <<>>
    BY <1>1, <1>2
  <2>3. QED
    BY <1>d, <2>1, <2>2
<1>16. Now' = m
  <2>1. open' # <<>>
    BY <1>15
  <2>2. Now' = open'[Len(open')].node
    BY <2>1 DEF Now, Last
  <2>3. QED
    BY <1>7, <1>15, <2>2
<1>17. \A k \in Placed : IsNow(k)' <=> k = c
  <2>1. \A k \in Placed : IsNow(k)' <=> Lay[k].name = Lay[c].name
    BY <1>1, <1>6, <1>11, <1>14, <1>16 DEF IsNow
  <2>2. QED
    BY <1>2, <2>1, SameName
<1>18. \A k \in Placed : ~IsNow(k)
  BY <1>1 DEF IsNow
<1>19. \A k \in Placed : InHand(k)' <=> InHand(k) \/ k = c
  BY <1>4, <1>12, <1>13, <1>17, <1>18 DEF InHand
<1>20. \A j \in Placed : Left(j)' <=> Left(j)
  <2>1. ~Left(c) /\ ~Left(c)'
    BY <1>4, <1>19 DEF Left
  <2>2. \A j \in Placed : j # c => (Left(j)' <=> Left(j))
    BY <1>13, <1>19, LeftSame
  <2>3. QED
    BY <2>1, <2>2
<1>21. \A j \in Placed : Lay[j].brace # 0 => (Hid(j)' <=> Hid(j))
  BY <1>12, <1>13
<1>22. \A k \in Placed : Gone(k)' <=> Gone(k)
  BY <1>20, <1>21, GoneSame
<1>23. Listed'
  <2>1. ASSUME NEW k \in Placed
        PROVE  Met(k)' /\ ~Gone(k)' <=> \E i \in DOMAIN nodes' : nodes'[i].name = Lay[k].name
    <3>1. CASE k = c
      <4>1. Met(k)' /\ ~Gone(k)'
        BY <1>4, <1>12, <1>22, <3>1
      <4>2. m \in DOMAIN nodes' /\ nodes'[m].name = Lay[k].name
        BY <1>6, <1>14, <3>1
      <4>3. QED
        BY <4>1, <4>2
    <3>2. CASE k # c
      <4>1. Met(k)' /\ ~Gone(k)' <=> \E i \in DOMAIN nodes : nodes[i].name = Lay[k].name
        BY <1>13, <1>22, <3>2 DEF Going, Listed
      <4>2. Lay[k].name # Lay[c].name
        BY <1>2, <3>2, SameName
      <4>3. \A i \in DOMAIN nodes' : i \in DOMAIN nodes \/ i = m
        BY <1>14
      <4>4. DOMAIN nodes \subseteq DOMAIN nodes'
        BY <1>14
      <4>5. (\E i \in DOMAIN nodes' : nodes'[i].name = Lay[k].name)
              <=> \E i \in DOMAIN nodes : nodes[i].name = Lay[k].name
        <5>1. ASSUME NEW i \in DOMAIN nodes', nodes'[i].name = Lay[k].name
              PROVE  i \in DOMAIN nodes /\ nodes[i].name = Lay[k].name
          <6>1. i # m
            BY <1>6, <1>14, <4>2, <5>1
          <6>2. QED
            BY <1>14, <4>3, <5>1, <6>1
        <5>2. \A i \in DOMAIN nodes : i \in DOMAIN nodes' /\ nodes'[i].name = nodes[i].name
          BY <1>14, <4>4
        <5>3. QED
          BY <5>1, <5>2
      <4>6. QED
        BY <4>1, <4>5
    <3>3. QED
      BY <3>1, <3>2
  <2>2. ASSUME NEW i \in DOMAIN nodes' PROVE \E k \in Placed : ReadTo(text, nodes'[i], Lay[k], pos')
    <3>1. CASE i = m
      <4>1. ReadBy(Lay[c], pos') = {}
        <5>1. 1 \in 1..(Len(Lay[c].items) + 1)
          <6>1. Len(Lay[c].items) \in Nat
            BY <1>2, EntryNumbers
          <6>2. QED
            BY <6>1
        <5>2. ReadBy(Lay[c], pos') = Upto(Lay[c], 1)
          BY <1>2, <1>8, <5>1, ReadByIs
        <5>3. QED
          BY <5>2 DEF Upto
      <4>2. ArgsOf({}) = {} /\ PropsOf(text, {}) = {}
        BY DEF ArgsOf, PropsOf, Ends
      <4>3. {n.args[l] : l \in DOMAIN n.args} = {}
        BY <1>6
      <4>4. Lay[c].brace # 0 => ~(Lay[c].close < pos')
        BY <1>8, <1>9
      <4>5. ReadTo(text, n, Lay[c], pos')
        BY <1>6, <4>1, <4>2, <4>3, <4>4 DEF ReadTo
      <4>6. QED
        BY <1>14, <3>1, <4>5
    <3>2. CASE i # m
      <4>1. i \in DOMAIN nodes
        BY <1>14, <3>2
      <4>2. PICK k \in Placed : nodes[i].name = Lay[k].name /\ Met(k)
        BY <4>1, NamesRise
      <4>3. k # c /\ pos <= pos'
        BY <1>4, <1>8, <1>9, <4>2
      <4>4. Outside(Lay[k], pos)
        BY <1>1 DEF Going, InStep, Clear
      <4>5. ReadTo(text, nodes[i], Lay[k], pos')
        BY <1>9, <1>10, <4>1, <4>2, <4>3, <4>4, AlikeBlock, OthersKept
      <4>6. QED
        BY <1>14, <4>1, <4>5
    <3>3. QED
      BY <3>1, <3>2
  <2>3. \A i \in DOMAIN nodes' : \E k \in Placed : ReadAs(nodes[i], k)'
    BY <1>11, <2>2 DEF ReadAs
  <2>4. QED
    BY <1>11, <2>1, <2>3 DEF Listed
<1>24. Stacked'
  <2>1. ASSUME NEW g \in DOMAIN open, NEW k \in Placed, k # c, FrameOf(open[g], k)
        PROVE  FrameOf(open[g], k)' /\ g \in DOMAIN open'
    <3>1. open[g].node \in DOMAIN nodes
      BY <1>2 DEF TypeOK
    <3>2. nodes'[open'[g].node].name = Lay[k].name
      BY <1>14, <1>15, <2>1, <3>1 DEF FrameOf
    <3>3. Lay[k].brace # 0 /\ Lay[k].brace < pos' => Lay[k].brace < pos
      BY <1>10, <2>1 DEF Alike
    <3>4. g \in DOMAIN open' /\ open'[g] = open[g]
      BY <1>15
    <3>5. QED
      BY <1>11, <2>1, <3>2, <3>3, <3>4 DEF FrameOf
  <2>2. FrameOf(open[d], c)'
    <3>1. nodes'[open'[d].node].name = Lay[c].name
      BY <1>6, <1>7, <1>14, <1>15
    <3>2. QED
      BY <1>7, <1>11, <1>12, <1>15, <3>1 DEF FrameOf
  <2>3. d \in DOMAIN open' /\ \A g \in DOMAIN open' : g \in DOMAIN open \/ g = d
    BY <1>15
  <2>4. \A g \in DOMAIN open' : \E k \in Placed : InHand(k)' /\ FrameOf(open[g], k)'
    <3>1. ASSUME NEW g \in DOMAIN open PROVE \E k \in Placed : InHand(k)' /\ FrameOf(open[g], k)'
      <4>1. PICK k \in Placed : InHand(k) /\ FrameOf(open[g], k)
        BY DEF Going, Stacked
      <4>2. k # c
        BY <1>4, <1>18, <4>1 DEF InHand
      <4>3. QED
        BY <1>19, <2>1, <4>1, <4>2
    <3>2. QED
      BY <1>19, <2>2, <2>3, <3>1
  <2>5. \A k \in Placed : InHand(k)' => \E g \in DOMAIN open' : FrameOf(open[g], k)'
    <3>1. ASSUME NEW k \in Placed, k # c, InHand(k) PROVE \E g \in DOMAIN open' : FrameOf(open[g], k)'
      <4>1. PICK g \in DOMAIN open : FrameOf(open[g], k)
        BY <3>1 DEF Going, Stacked
      <4>2. QED
        BY <2>1, <3>1, <4>1
    <3>2. QED
      BY <1>19, <2>2, <2>3, <3>1
  <2>6. QED
    BY <1>11, <2>4, <2>5 DEF Stacked
<1>25. InStep'
  <2>1. \A k \in Placed : Clear(k)' \/ IsNow(k)'
    <3>1. \A k \in Placed : k # c => Outside(Lay'[k], pos')
      BY <1>10, <1>11
    <3>2. QED
      BY <1>17, <3>1 DEF Clear
  <2>2. ASSUME NEW k \in Placed, IsNow(k)' PROVE \E j \in 1..(Len(Lay[k].items) + 1) : pos' = Since(Lay[k], j)
    <3>1. k = c
      BY <1>17, <2>2
    <3>2. Len(Lay[c].items) \in Nat
      BY <1>2, EntryNumbers
    <3>3. 1 \in 1..(Len(Lay[c].items) + 1)
      BY <3>2
    <3>4. QED
      BY <1>8, <3>1, <3>3
  <2>3. QED
    BY <1>1, <1>11, <2>1, <2>2 DEF InStep
<1>26. QED
  BY <1>23, <1>24, <1>25

----------------------------------------------------------------------------
\* Children begin

LEMMA OpenKeepsReading ==
  ASSUME Going, Still, OpenBlock
  PROVE  InStep' /\ Listed' /\ Stacked'
<1>t. PICK t : t = Len(open)
  OBVIOUS
<1> DEFINE brace == Behind(Onward)
           g == [open[t] EXCEPT !.hide = Dashed(Onward), !.brace = brace]
<1>1. /\ stage = "node" /\ ~EntryAhead /\ BlockAhead /\ open' = [open EXCEPT ![t] = g]
      /\ pos' = brace + 1 /\ stage' = "nodes" /\ UNCHANGED nodes
  BY <1>t DEF OpenBlock
<1>2. Well /\ TypeOK /\ pos \in Nat /\ open # <<>>
  BY <1>1, NamesRise DEF Going, TypeOK
<1>3. PICK c \in Placed :
           /\ IsNow(c) /\ pos = EntriesEnd(Lay[c]) /\ Lay[c].name = nodes[Now].name
           /\ FrameOf(open[t], c) /\ \A k \in Placed : IsNow(k) => k = c
  BY <1>1, <1>t, EndIsHere
<1>4. Lay[c].brace # 0
  BY <1>1, <1>2, <1>3, NothingIsAhead
<1>5. brace = Lay[c].brace /\ (Dashed(Onward) <=> Lay[c].hide # 0)
  BY <1>2, <1>3, <1>4, BlockIsAhead
<1>6. /\ t \in DOMAIN open /\ open[t] \in Frame /\ Now = open[t].node /\ Now \in DOMAIN nodes
      /\ \A f \in DOMAIN open : f # t => open[f].node < Now
  BY <1>2, <1>t, NowIsOpen
<1>7. /\ g.node = open[t].node /\ (g.skip <=> Lay[c].dash # 0)
      /\ g.brace = Lay[c].brace /\ (g.hide <=> Lay[c].hide # 0)
  <2>1. g.node = open[t].node /\ g.skip = open[t].skip /\ g.brace = brace
    BY <1>6 DEF Frame
  <2>2. g.hide <=> Dashed(Onward)
    BY <1>6 DEF Frame
  <2>3. open[t].skip <=> Lay[c].dash # 0
    BY <1>3 DEF FrameOf
  <2> HIDE DEF g
  <2>4. QED
    BY <1>5, <2>1, <2>2, <2>3
<1>8. /\ DOMAIN open' = DOMAIN open /\ open'[t] = g
      /\ \A f \in DOMAIN open : f # t => open'[f] = open[f]
  BY <1>1, <1>6
<1> HIDE DEF g, brace
<1>9. /\ pos' \in Nat /\ pos' = HeadEnd(Lay[c]) /\ pos' = Lay[c].brace + 1 /\ NodeBegin(Lay[c]) <= pos
      /\ pos <= Lay[c].brace /\ Lay[c].brace \in Nat /\ Lay[c].close \in Nat /\ Lay[c].name \in Nat
      /\ Lay[c].name < pos /\ Lay[c].brace < Lay[c].close
  <2>1. /\ NodeBegin(Lay[c]) \in 1..Lay[c].name /\ Lay[c].name \in 1..Len(text) /\ Len(text) \in Nat
        /\ EntriesEnd(Lay[c]) \in (Lay[c].name + 1)..HeadEnd(Lay[c])
        /\ Lay[c].brace \in Nat /\ Lay[c].close \in Nat
        /\ Lay[c].name < Lay[c].brace /\ Lay[c].brace < Lay[c].close
        /\ HeadEnd(Lay[c]) = Lay[c].brace + 1
    BY <1>2, <1>4, PartsOf
  <2>2. EntriesEnd(Lay[c]) \in 1..Lay[c].brace
    BY <1>2, <1>4, LayIs, BlockIs
  <2>3. QED
    BY <1>1, <1>3, <1>5, <2>1, <2>2
<1>10. /\ pos <= pos' /\ Lay[c].brace < pos' /\ ~(Lay[c].brace < pos) /\ pos' <= Lay[c].close
       /\ Lay[c].name < pos' /\ ~(Lay[c].close < pos) /\ ~(Lay[c].close < pos')
  BY <1>2, <1>9
<1>11. Lay' = Lay /\ Placed' = Placed /\ text' = text
  BY StillIs DEF Still
<1>12. \A k \in Placed : k # c => Alike(Lay[k], pos, pos') /\ Outside(Lay[k], pos) /\ Outside(Lay[k], pos')
  <2>1. pos' <= HeadEnd(Lay[c])
    BY <1>9
  <2>2. QED
    BY <1>2, <1>9, <1>10, <2>1, AroundHead
<1>13. Outside(Lay[c], pos')
  BY <1>9 DEF Outside
<1>14. /\ Met(c) /\ Met(c)' /\ Entered(c)' /\ ~Hid(c) /\ ~Hid(c)'
  BY <1>4, <1>9, <1>10, <1>11 DEF Met, Entered, Hid
<1>15. ASSUME NEW k \in Placed, k # c
       PROVE  /\ Met(k)' <=> Met(k)
              /\ Entered(k)' <=> Entered(k)
              /\ Lay[k].brace # 0 => (Hid(k)' <=> Hid(k))
  BY <1>2, <1>9, <1>12, <1>15, NothingMet
<1>16. \A k \in Placed : ~IsNow(k)'
  BY <1>1 DEF IsNow
<1>17. \A k \in Placed : InHand(k)' <=> InHand(k)
  BY <1>3, <1>14, <1>15, <1>16 DEF InHand
<1>18. \A j \in Placed : Met(j)' <=> Met(j)
  BY <1>14, <1>15
<1>19. \A j \in Placed : Left(j)' <=> Left(j)
  BY <1>17, <1>18, LeftSame
<1>20. \A j \in Placed : Lay[j].brace # 0 => (Hid(j)' <=> Hid(j))
  BY <1>14, <1>15
<1>21. \A k \in Placed : Gone(k)' <=> Gone(k)
  BY <1>19, <1>20, GoneSame
<1>22. Listed'
  <2>1. ASSUME NEW i \in DOMAIN nodes PROVE \E k \in Placed : ReadTo(text, nodes[i], Lay[k], pos')
    <3>1. PICK k \in Placed : nodes[i].name = Lay[k].name
      BY NamesRise
    <3>2. CASE k = c
      <4>1. ReadTo(text, nodes[i], Lay[k], pos)
        BY <3>1, ListedAt
      <4>2. SameBlock(Lay[k], pos, pos')
        BY <1>10, <3>2 DEF SameBlock
      <4>3. EntriesEnd(Lay[k]) <= pos
        BY <1>2, <1>3, <3>2
      <4>4. ReadTo(text, nodes[i], Lay[k], pos')
        BY <1>2, <1>9, <1>10, <4>1, <4>2, <4>3, ReadKept
      <4>5. QED
        BY <4>4
    <3>3. CASE k # c
      <4>1. ReadTo(text, nodes[i], Lay[k], pos')
        BY <1>9, <1>10, <1>12, <3>1, <3>3, AlikeBlock, OthersKept
      <4>2. QED
        BY <4>1
    <3>4. QED
      BY <3>2, <3>3
  <2>2. /\ DOMAIN nodes' = DOMAIN nodes
        /\ \A i \in DOMAIN nodes : nodes'[i].name = nodes[i].name
        /\ \A i \in DOMAIN nodes : \E k \in Placed : ReadTo(text, nodes'[i], Lay[k], pos')
    BY <1>1, <2>1
  <2>3. QED
    BY <1>18, <1>21, <2>2, ListedKept
<1>23. Stacked'
  <2>1. ASSUME NEW f \in DOMAIN open, f # t, NEW k \in Placed, FrameOf(open[f], k)
        PROVE  FrameOf(open[f], k)'
    <3>1. nodes[open[f].node].name = Lay[k].name
      BY <2>1 DEF FrameOf
    <3>2. open[f].node \in DOMAIN nodes /\ open[f].node < Now
      BY <1>2, <1>6, <2>1 DEF TypeOK
    <3>3. nodes[open[f].node].name < nodes[Now].name /\ nodes[Now].name \in Nat
      BY <1>6, <3>2, NamesRise
    <3>4. k # c
      BY <1>3, <3>1, <3>3
    <3>5. Lay[k].brace # 0 /\ Lay[k].brace < pos' => Lay[k].brace < pos
      BY <1>12, <3>4 DEF Alike
    <3>6. QED
      BY <1>1, <1>8, <1>11, <2>1, <3>5 DEF FrameOf
  <2>2. FrameOf(open[t], c)'
    <3>1. nodes'[open'[t].node].name = Lay[c].name
      BY <1>1, <1>3, <1>6, <1>7, <1>8
    <3>2. QED
      BY <1>7, <1>8, <1>11, <3>1 DEF FrameOf
  <2>3. ASSUME NEW k \in Placed, FrameOf(open[t], k) PROVE k = c
    <3>1. Lay[k].name = Lay[c].name
      BY <1>3, <2>3 DEF FrameOf
    <3>2. QED
      BY <1>2, <3>1, SameName
  <2>4. InHand(c)'
    BY <1>14 DEF InHand
  <2>5. \A f \in DOMAIN open : \E k \in Placed : InHand(k)' /\ FrameOf(open[f], k)'
    <3>1. ASSUME NEW f \in DOMAIN open, f # t PROVE \E k \in Placed : InHand(k)' /\ FrameOf(open[f], k)'
      <4>1. PICK k \in Placed : InHand(k) /\ FrameOf(open[f], k)
        BY DEF Going, Stacked
      <4>2. QED
        BY <1>17, <2>1, <3>1, <4>1
    <3>2. QED
      BY <2>2, <2>4, <3>1
  <2>6. \A k \in Placed : InHand(k)' => \E f \in DOMAIN open : FrameOf(open[f], k)'
    <3>1. ASSUME NEW k \in Placed, InHand(k) PROVE \E f \in DOMAIN open : FrameOf(open[f], k)'
      <4>1. PICK f \in DOMAIN open : FrameOf(open[f], k)
        BY <3>1 DEF Going, Stacked
      <4>2. CASE f = t
        BY <1>6, <2>2, <2>3, <4>1, <4>2
      <4>3. CASE f # t
        BY <2>1, <4>1, <4>3
      <4>4. QED
        BY <4>2, <4>3
    <3>2. QED
      BY <1>17, <3>1
  <2>7. QED
    BY <1>8, <1>11, <2>5, <2>6 DEF Stacked
<1>24. InStep'
  <2>1. OnlyLines(text', Lay', pos')
    <3>1. OnlyLines(text, Lay, Lay[c].brace + 1)
      BY <1>2, <1>4, LayIs
    <3>2. QED
      BY <1>9, <1>11, <3>1
  <2>2. \A k \in Placed : Clear(k)'
    <3>1. \A k \in Placed : Outside(Lay'[k], pos')
      BY <1>11, <1>12, <1>13
    <3>2. QED
      BY <3>1 DEF Clear
  <2>3. QED
    BY <1>1, <1>11, <2>1, <2>2 DEF InStep
<1>25. QED
  BY <1>22, <1>23, <1>24

----------------------------------------------------------------------------
\* Children end

\* At a right brace nothing of another node is met.
LEMMA AroundClose ==
  ASSUME Well, NEW c \in Placed, Lay[c].brace # 0, NEW q, q = Lay[c].close + 1,
         NEW k \in Placed, k # c
  PROVE  Alike(Lay[k], Lay[c].close, q) /\ Outside(Lay[k], q)
<1> DEFINE b == NodeBegin(Lay[k])
           n == Lay[k].name
           h == HeadEnd(Lay[k])
           l == Lay[k].brace
           e == Lay[k].close
           z == NodeEnd(Lay[k])
           bc == NodeBegin(Lay[c])
           hc == HeadEnd(Lay[c])
           lc == Lay[c].close
<1>1. /\ b \in Nat /\ n \in Nat /\ h \in Nat /\ l \in Nat /\ e \in Nat /\ z \in Nat
      /\ b <= n /\ n < h /\ h <= z
      /\ l # 0 => n < l /\ l < e /\ h = l + 1 /\ z = e + 1
  <2>1. /\ NodeBegin(Lay[k]) \in 1..Lay[k].name /\ Lay[k].name \in 1..Len(text) /\ Len(text) \in Nat
        /\ HeadEnd(Lay[k]) \in (Lay[k].name + 1)..NodeEnd(Lay[k]) /\ Lay[k].brace \in Nat
        /\ NodeEnd(Lay[k]) \in 1..(Len(text) + 1) /\ Lay[k].close \in Nat
        /\ Lay[k].brace # 0 => /\ Lay[k].name < Lay[k].brace /\ Lay[k].brace < Lay[k].close
                               /\ HeadEnd(Lay[k]) = Lay[k].brace + 1
                               /\ NodeEnd(Lay[k]) = Lay[k].close + 1
    BY PartsOf
  <2>2. QED
    BY <2>1
<1>2. bc \in Nat /\ hc \in Nat /\ lc \in Nat /\ lc # 0 /\ bc <= hc /\ hc <= lc /\ NodeEnd(Lay[c]) = lc + 1
  <2>1. /\ NodeBegin(Lay[c]) \in 1..Lay[c].name /\ Lay[c].name \in 1..Len(text) /\ Len(text) \in Nat
        /\ Lay[c].brace \in Nat /\ Lay[c].close \in Nat
        /\ Lay[c].name < Lay[c].brace /\ Lay[c].brace < Lay[c].close
        /\ HeadEnd(Lay[c]) = Lay[c].brace + 1
        /\ NodeEnd(Lay[c]) = Lay[c].close + 1
    BY PartsOf
  <2>2. QED
    BY <2>1, SMTT(20)
<1>3. k < c \/ c < k
  <2>1. k \in Nat /\ c \in Nat
    BY LayIs
  <2>2. QED
    BY <2>1
<1>4. k < c => h <= bc /\ (l # 0 => e < bc \/ lc + 1 <= e)
  BY <1>2, Later
<1>5. c < k => hc <= b /\ (lc < b \/ z <= lc)
  BY Later
<1>6. q = lc + 1
  OBVIOUS
<1> HIDE DEF b, n, h, l, e, z, bc, hc, lc
<1>7. l = 0 => (l < lc <=> l < q)
  BY <1>2, <1>6
<1>8. CASE k < c
  <2>1. /\ n < lc /\ n < q /\ h <= q
        /\ l # 0 => l < lc /\ l < q /\ (e < lc <=> e < q)
    BY <1>1, <1>2, <1>4, <1>6, <1>8
  <2>2. QED
    BY <1>7, <2>1 DEF Alike, Outside, b, n, h, l, e, lc
<1>9. CASE c < k
  <2>1. CASE lc < b
    <3>1. /\ ~(n < lc) /\ ~(n < q) /\ q <= b
          /\ l # 0 => ~(l < lc) /\ ~(l < q) /\ ~(e < lc) /\ ~(e < q)
      BY <1>1, <1>2, <1>6, <2>1
    <3>2. QED
      BY <1>7, <3>1 DEF Alike, Outside, b, n, h, l, e, lc
  <2>2. CASE z <= lc
    <3>1. /\ n < lc /\ n < q /\ h <= q
          /\ l # 0 => l < lc /\ l < q /\ e < lc /\ e < q
      BY <1>1, <1>2, <1>6, <2>2
    <3>2. QED
      BY <1>7, <3>1 DEF Alike, Outside, b, n, h, l, e, lc
  <2>3. QED
    BY <1>5, <1>9, <2>1, <2>2
<1>10. QED
  BY <1>3, <1>8, <1>9

\* The node whose children end is the last that is open.
LEMMA CloseIsHere ==
  ASSUME Going, stage = "nodes", open # <<>>, pos \in Rights
  PROVE  \E c \in Placed :
           /\ Lay[c].brace # 0 /\ pos = Lay[c].close /\ Entered(c)
           /\ FrameOf(open[Len(open)], c) /\ Lay[c].name = nodes[Now].name
<1>t. PICK t : t = Len(open)
  OBVIOUS
<1>1. Well /\ TypeOK /\ pos \in Nat
  BY NamesRise DEF Going
<1>2. PICK c \in Placed : Lay[c].brace # 0 /\ pos = Lay[c].close
  <2>1. ~At(pos, LineSpace) /\ ~At(pos, Starts)
    BY BracesAreNoSpace
  <2>2. pos \in Points(text, Lay)
    BY <2>1, PointHere
  <2>3. QED
    BY <1>1, <2>1, <2>2, PointIs
<1>3. /\ t \in DOMAIN open /\ Now = open[t].node /\ Now \in DOMAIN nodes /\ Now \in Nat
      /\ \A f \in DOMAIN open : f # t => open[f].node < Now
  <2>1. /\ t \in DOMAIN open /\ Now = open[t].node /\ Now \in DOMAIN nodes
        /\ \A f \in DOMAIN open : f # t => open[f].node < Now
    BY <1>1, <1>t, NowIsOpen
  <2>2. QED
    BY <2>1, NamesRise
<1>4. ASSUME NEW k \in Placed
      PROVE  /\ NodeBegin(Lay[k]) <= Lay[k].name /\ Lay[k].name \in Nat /\ NodeBegin(Lay[k]) \in Nat
             /\ Lay[k].brace \in Nat /\ Lay[k].close \in Nat
             /\ Lay[k].brace # 0 => /\ Lay[k].name < Lay[k].brace /\ Lay[k].brace < Lay[k].close
                                    /\ NodeEnd(Lay[k]) = Lay[k].close + 1
  <2>1. /\ NodeBegin(Lay[k]) \in 1..Lay[k].name /\ Lay[k].name \in 1..Len(text) /\ Len(text) \in Nat
        /\ Lay[k].brace \in Nat /\ Lay[k].close \in Nat
        /\ Lay[k].brace # 0 => /\ Lay[k].name < Lay[k].brace /\ Lay[k].brace < Lay[k].close
                               /\ NodeEnd(Lay[k]) = Lay[k].close + 1
    BY <1>1, PartsOf
  <2>2. QED
    BY <2>1
<1>5. Entered(c)
  BY <1>2, <1>4 DEF Entered
<1>6. PICK g \in DOMAIN open : FrameOf(open[g], c)
  BY <1>5 DEF Going, Stacked, InHand
<1>7. PICK k \in Placed : Entered(k) /\ FrameOf(open[t], k)
  BY <1>3 DEF Going, Stacked, InHand, IsNow
<1>8. k = c
  <2>1. k \in Nat /\ c \in Nat /\ (Lay[k].name < Lay[c].name <=> k < c)
    BY <1>1, NameOrder
  <2>2. ~(k < c)
    <3>1. nodes[open[g].node].name = Lay[c].name /\ nodes[Now].name = Lay[k].name
      BY <1>3, <1>6, <1>7 DEF FrameOf
    <3>2. CASE g = t
      BY <1>3, <1>4, <2>1, <3>1, <3>2
    <3>3. CASE g # t
      <4>1. open[g].node \in DOMAIN nodes /\ open[g].node < Now
        BY <1>1, <1>3, <3>3 DEF TypeOK
      <4>2. nodes[open[g].node].name < nodes[Now].name
        BY <1>3, <4>1, NamesRise
      <4>3. Lay[c].name < Lay[k].name
        BY <3>1, <4>2
      <4>4. QED
        BY <1>4, <2>1, <4>3
    <3>4. QED
      BY <3>2, <3>3
  <2>3. ~(c < k)
    <3>1. SUFFICES ASSUME c < k PROVE FALSE
      OBVIOUS
    <3>2. Lay[c].close < NodeBegin(Lay[k]) \/ NodeEnd(Lay[k]) <= Lay[c].close
      BY <1>1, <1>2, <3>1, Later
    <3>3. Lay[k].brace # 0 /\ Lay[k].brace < pos /\ pos <= Lay[k].close
      BY <1>7 DEF Entered
    <3> DEFINE b == NodeBegin(Lay[k])
               n == Lay[k].name
               l == Lay[k].brace
               e == Lay[k].close
               z == NodeEnd(Lay[k])
    <3>4. /\ b \in Nat /\ n \in Nat /\ l \in Nat /\ e \in Nat /\ b <= n /\ n < l /\ z = e + 1
          /\ l < pos /\ pos <= e /\ (pos < b \/ z <= pos)
      BY <1>2, <1>4, <3>2, <3>3
    <3> HIDE DEF b, n, l, e, z
    <3>5. QED
      BY <1>1, <3>4
  <2>4. QED
    BY <2>1, <2>2, <2>3
<1>9. nodes[Now].name = Lay[c].name
  BY <1>3, <1>7, <1>8 DEF FrameOf
<1>10. QED
  BY <1>t, <1>2, <1>5, <1>7, <1>8, <1>9

LEMMA CloseKeepsReading ==
  ASSUME Going, Still, CloseBlock
  PROVE  InStep' /\ Listed' /\ Stacked'
<1>t. PICK t : t = Len(open)
  OBVIOUS
<1>m. PICK m : m = Now
  OBVIOUS
<1>1. /\ stage = "nodes" /\ open # <<>> /\ pos \in Rights /\ stage' = "closed" /\ open' = open
      /\ pos' = pos + 1
      /\ nodes' = IF Last(open).hide THEN SubSeq(nodes, 1, m)
                  ELSE [nodes EXCEPT ![m] = [nodes[m] EXCEPT !.block = <<Last(open).brace, pos>>]]
  <2>1. stage = "nodes" /\ open # <<>> /\ stage' = "closed" /\ open' = open /\ pos' = pos + 1
    BY Zenon DEF CloseBlock
  <2>2. At(pos, {"}"})
    BY Zenon DEF CloseBlock
  <2>3. nodes' = IF Last(open).hide THEN SubSeq(nodes, 1, m)
                 ELSE [nodes EXCEPT ![m] = [nodes[m] EXCEPT !.block = <<Last(open).brace, pos>>]]
    BY <1>m, Zenon DEF CloseBlock
  <2>4. pos \in Rights
    BY <2>2, BraceIs, Zenon
  <2>5. QED
    BY <2>1, <2>3, <2>4
<1>2. Well /\ TypeOK /\ pos \in Nat /\ nodes \in Seq(Node)
  BY NamesRise DEF Going, TypeOK
<1>3. PICK c \in Placed :
           /\ Lay[c].brace # 0 /\ pos = Lay[c].close /\ Entered(c)
           /\ FrameOf(open[t], c) /\ Lay[c].name = nodes[m].name
  BY <1>1, <1>t, <1>m, CloseIsHere
<1>4. /\ t \in DOMAIN open /\ m = open[t].node /\ m \in DOMAIN nodes /\ nodes[m] \in Node
      /\ Last(open) = open[t] /\ \A f \in DOMAIN open : open[f].node \in DOMAIN nodes /\ open[f].node <= m
  <2>1. /\ t \in DOMAIN open /\ m = open[t].node /\ m \in DOMAIN nodes /\ nodes[m] \in Node
        /\ Last(open) = open[t] /\ \A f \in DOMAIN open : f # t => open[f].node < m
    BY <1>1, <1>2, <1>t, <1>m, NowIsOpen
  <2>2. \A f \in DOMAIN open : open[f].node \in DOMAIN nodes
    BY <1>2 DEF TypeOK
  <2>3. \A i \in DOMAIN nodes : i \in Nat
    BY NamesRise
  <2>4. QED
    BY <2>1, <2>2, <2>3
<1>5. /\ Lay[c].brace < pos /\ Lay[c].name < pos /\ Lay[c].name < Lay[c].brace /\ Lay[c].brace \in Nat
      /\ Lay[c].name \in Nat /\ EntriesEnd(Lay[c]) \in Nat /\ EntriesEnd(Lay[c]) <= pos
      /\ HeadEnd(Lay[c]) = Lay[c].brace + 1
  <2>1. /\ Lay[c].name \in 1..Len(text) /\ Len(text) \in Nat /\ Lay[c].brace \in Nat
        /\ EntriesEnd(Lay[c]) \in (Lay[c].name + 1)..HeadEnd(Lay[c])
        /\ Lay[c].name < Lay[c].brace /\ Lay[c].brace < Lay[c].close
        /\ HeadEnd(Lay[c]) = Lay[c].brace + 1
    BY <1>2, <1>3, PartsOf
  <2>2. QED
    BY <1>2, <1>3, <2>1
<1>6. /\ pos' \in Nat /\ pos <= pos' /\ pos < pos' /\ Lay[c].brace < pos' /\ Lay[c].name < pos'
      /\ ~(pos < pos) /\ ~(pos' <= pos) /\ HeadEnd(Lay[c]) <= pos'
  BY <1>1, <1>2, <1>5
<1>7. Lay' = Lay /\ Placed' = Placed /\ text' = text /\ \A j, k : Over(j, k)' <=> Over(j, k)
  BY StillIs DEF Still
<1>8. \A k \in Placed : k # c => Alike(Lay[k], pos, pos') /\ Outside(Lay[k], pos')
  BY <1>1, <1>2, <1>3, AroundClose
<1>9. Met(c) /\ Met(c)' /\ ~Hid(c) /\ (Hid(c)' <=> Lay[c].hide # 0)
  BY <1>3, <1>5, <1>6, <1>7 DEF Met, Hid
<1>10. ASSUME NEW k \in Placed, k # c
       PROVE  /\ Met(k)' <=> Met(k)
              /\ Entered(k)' <=> Entered(k)
              /\ Lay[k].brace # 0 => (Hid(k)' <=> Hid(k))
  BY <1>2, <1>6, <1>8, <1>10, NothingMet
<1>11. Last(open).hide <=> Lay[c].hide # 0
  BY <1>3, <1>4, <1>5 DEF FrameOf
<1>12. Last(open).brace = Lay[c].brace
  BY <1>3, <1>4, <1>5 DEF FrameOf
<1>13. /\ \A i \in DOMAIN nodes : i <= m => i \in DOMAIN nodes' /\ nodes'[i].name = nodes[i].name
       /\ m \in 1..Len(nodes) /\ m \in 0..Len(nodes)
       /\ Last(open).hide => nodes' = SubSeq(nodes, 1, m)
       /\ ~Last(open).hide => /\ DOMAIN nodes' = DOMAIN nodes
                              /\ nodes'[m] = [nodes[m] EXCEPT !.block = <<Last(open).brace, pos>>]
                              /\ nodes'[m].name = nodes[m].name
                              /\ \A i \in DOMAIN nodes : i # m => nodes'[i] = nodes[i]
  <2>1. DOMAIN nodes = 1..Len(nodes) /\ Len(nodes) \in Nat /\ m \in 1..Len(nodes) /\ m \in 0..Len(nodes)
    BY <1>4, NamesRise
  <2>2. CASE Last(open).hide
    <3>1. nodes' = SubSeq(nodes, 1, m)
      BY <1>1, <2>2
    <3>2. DOMAIN nodes' = 1..m /\ \A i \in 1..m : nodes'[i] = nodes[i]
      BY <1>2, <2>1, <3>1, Cut
    <3>3. QED
      BY <2>1, <2>2, <3>1, <3>2
  <2>3. CASE ~Last(open).hide
    <3> DEFINE n == [nodes[m] EXCEPT !.block = <<Last(open).brace, pos>>]
    <3>1. nodes' = [nodes EXCEPT ![m] = n]
      BY <1>1, <2>3
    <3>2. n.name = nodes[m].name
      BY <1>4 DEF Node
    <3> HIDE DEF n
    <3>3. DOMAIN nodes' = DOMAIN nodes /\ \A i \in DOMAIN nodes : nodes'[i] = IF i = m THEN n ELSE nodes[i]
      BY <1>2, <3>1
    <3>4. nodes'[m] = n /\ \A i \in DOMAIN nodes : i # m => nodes'[i] = nodes[i]
      BY <1>4, <3>3
    <3>5. \A i \in DOMAIN nodes : nodes'[i].name = nodes[i].name
      BY <3>2, <3>4
    <3>6. QED
      BY <1>4, <2>1, <2>3, <3>2, <3>3, <3>4, <3>5 DEF n
  <2>4. QED
    BY <2>2, <2>3
<1>14. \A k \in Placed : IsNow(k)' <=> k = c
  <2>1. Now' = m
    BY <1>1, <1>m DEF Now
  <2>2. nodes'[m].name = Lay[c].name
    <3>1. m <= m
      BY <1>13
    <3>2. QED
      BY <1>3, <1>4, <1>13, <3>1
  <2>3. \A k \in Placed : IsNow(k)' <=> Lay[k].name = Lay[c].name
    BY <1>1, <1>7, <2>1, <2>2 DEF IsNow
  <2>4. QED
    BY <1>2, <2>3, SameName
<1>15. \A k \in Placed : InHand(k)' <=> InHand(k)
  <2>1. \A k \in Placed : ~IsNow(k)
    BY <1>1 DEF IsNow
  <2>2. QED
    BY <1>3, <1>10, <1>14, <2>1 DEF InHand
<1>16. \A j \in Placed : (Met(j)' <=> Met(j)) /\ (Left(j)' <=> Left(j))
  <2>1. \A j \in Placed : Met(j)' <=> Met(j)
    BY <1>9, <1>10
  <2>2. QED
    BY <1>15, <2>1, LeftSame
<1>17. ASSUME NEW i \in DOMAIN nodes, i # m
       PROVE  \E k \in Placed : nodes[i].name = Lay[k].name /\ ReadTo(text, nodes[i], Lay[k], pos')
  <2>1. PICK k \in Placed : nodes[i].name = Lay[k].name
    BY NamesRise
  <2>2. k # c
    BY <1>3, <1>4, <1>17, <2>1, NamesRise
  <2>3. Outside(Lay[k], pos)
    BY <1>1 DEF Going, InStep, Clear
  <2>4. ReadTo(text, nodes[i], Lay[k], pos')
    BY <1>6, <1>8, <2>1, <2>2, <2>3, AlikeBlock, OthersKept
  <2>5. QED
    BY <2>1, <2>4
<1>18. ReadTo(text, nodes[m], Lay[c], pos)
  BY <1>3, <1>4, ListedAt
<1>19. Listed'
  <2>1. CASE Lay[c].hide # 0
    <3>1. nodes' = SubSeq(nodes, 1, m)
      BY <1>11, <1>13, <2>1
    <3>2. ASSUME NEW k \in Placed PROVE Gone(k)' <=> Gone(k) \/ Over(c, k)
      <4>1. Gone(k)' <=> \E j \in Placed : \/ Left(j)' /\ (j = k \/ Over(j, k))
                                           \/ Hid(j)' /\ Over(j, k)
        BY <1>7 DEF Gone
      <4>2. \A j \in Placed : Over(j, k) => (Hid(j)' <=> Hid(j) \/ j = c)
        BY <1>9, <1>10, <2>1 DEF Over, Within
      <4>3. QED
        BY <1>16, <4>1, <4>2 DEF Gone
    <3>3. ASSUME NEW i \in DOMAIN nodes, NEW k \in Placed, nodes[i].name = Lay[k].name
          PROVE  Gone(k)' <=> m < i
      <4>1. ~Gone(k) /\ Met(k)
        BY <3>3, ListedAt
      <4>2. m < i <=> c < k
        <5>1. m < i <=> nodes[m].name < nodes[i].name
          BY <1>4, NamesRise
        <5>2. Lay[c].name < Lay[k].name <=> c < k
          BY <1>2, NameOrder
        <5>3. QED
          BY <1>3, <3>3, <5>1, <5>2
      <4>3. c < k => Over(c, k)
        <5>1. SUFFICES ASSUME c < k PROVE Over(c, k)
          OBVIOUS
        <5>2. Lay[c].brace + 1 <= NodeBegin(Lay[k])
          BY <1>2, <1>5, <5>1, Later
        <5>3. NodeBegin(Lay[k]) \in 1..Lay[k].name /\ Lay[k].name \in 1..Len(text) /\ Len(text) \in Nat
          BY <1>2, PartsOf
        <5>4. Lay[k].name < pos
          BY <4>1 DEF Met
        <5>5. Lay[c].brace < Lay[k].name
          BY <1>5, <5>2, <5>3
        <5>6. QED
          BY <1>3, <5>4, <5>5 DEF Over, Within
      <4>4. Over(c, k) => c < k
        BY <1>2, OverIs
      <4>5. QED
        BY <3>2, <4>1, <4>2, <4>3, <4>4
    <3>4. ASSUME NEW i \in 1..m PROVE \E k \in Placed : ReadTo(text, nodes[i], Lay[k], pos')
      <4>1. i \in DOMAIN nodes
        BY <1>13, NamesRise
      <4>2. CASE i = m
        <5>1. SameBlock(Lay[c], pos, pos')
          BY <2>1 DEF SameBlock
        <5>2. ReadTo(text, nodes[m], Lay[c], pos')
          BY <1>2, <1>5, <1>6, <1>18, <5>1, ReadKept
        <5>3. QED
          BY <4>2, <5>2
      <4>3. QED
        BY <1>17, <4>1, <4>2
    <3>5. QED
      BY <1>13, <1>16, <3>1, <3>2, <3>3, <3>4, ListedCut
  <2>2. CASE Lay[c].hide = 0
    <3>1. /\ DOMAIN nodes' = DOMAIN nodes
          /\ nodes'[m] = [nodes[m] EXCEPT !.block = <<Lay[c].brace, pos>>]
          /\ nodes'[m].name = nodes[m].name
          /\ \A i \in DOMAIN nodes : i # m => nodes'[i] = nodes[i]
      BY <1>11, <1>12, <1>13, <2>2
    <3>2. \A k \in Placed : Gone(k)' <=> Gone(k)
      <4>1. \A j \in Placed : Lay[j].brace # 0 => (Hid(j)' <=> Hid(j))
        BY <1>9, <1>10, <2>2
      <4>2. QED
        BY <1>16, <4>1, GoneSame
    <3>3. ReadTo(text, nodes'[m], Lay[c], pos')
      <4> DEFINE n == nodes'[m]
                 o == nodes[m]
      <4>1. n.ty = o.ty /\ n.name = o.name /\ n.args = o.args /\ n.props = o.props
            /\ n.block = <<Lay[c].brace, pos>>
        BY <1>4, <3>1 DEF Node
      <4> HIDE DEF n, o
      <4>2. ReadBy(Lay[c], pos') = ReadBy(Lay[c], pos)
        <5>1. EntriesEnd(Lay[c]) <= pos'
          BY <1>2, <1>5, <1>6
        <5>2. QED
          BY <1>2, <1>5, <1>6, <5>1, AllRead
      <4>3. Lay[c].close < pos'
        BY <1>3, <1>6
      <4>4. ReadTo(text, o, Lay[c], pos)
        BY <1>18 DEF o
      <4>5. ReadTo(text, n, Lay[c], pos')
        BY <1>3, <2>2, <4>1, <4>2, <4>3, <4>4 DEF ReadTo
      <4>6. QED
        BY <4>5 DEF n
    <3>4. \A i \in DOMAIN nodes : nodes'[i].name = nodes[i].name
      BY <3>1
    <3>5. ASSUME NEW i \in DOMAIN nodes PROVE \E k \in Placed : ReadTo(text, nodes'[i], Lay[k], pos')
      BY <1>17, <3>1, <3>3
    <3>6. QED
      BY <1>16, <3>1, <3>2, <3>4, <3>5, ListedKept
  <2>3. QED
    BY <2>1, <2>2
<1>20. Stacked'
  <2>1. \A f \in DOMAIN open : nodes'[open[f].node].name = nodes[open[f].node].name
    BY <1>4, <1>13
  <2>2. \A k \in Placed : Lay[k].brace # 0 /\ Lay[k].brace < pos' => Lay[k].brace < pos
    BY <1>5, <1>8 DEF Alike
  <2>3. QED
    BY <1>1, <1>15, <2>1, <2>2, StackedKept
<1>21. InStep'
  <2>1. \A k \in Placed : Clear(k)'
    <3>1. \A k \in Placed : Outside(Lay'[k], pos')
      BY <1>6, <1>7, <1>8 DEF Outside
    <3>2. QED
      BY <3>1 DEF Clear
  <2>2. ASSUME NEW k \in Placed, IsNow(k)' PROVE Lay[k].brace # 0 /\ pos' = Lay[k].close + 1
    BY <1>1, <1>3, <1>14, <2>2
  <2>3. QED
    BY <1>1, <1>7, <2>1, <2>2 DEF InStep
<1>22. QED
  BY <1>19, <1>20, <1>21

----------------------------------------------------------------------------
\* A node ends

LEMMA NodeEndIsHere ==
  ASSUME Going, CanEnd
  PROVE  \E c \in Placed :
           /\ IsNow(c) /\ pos = NodeEnd(Lay[c]) /\ Lay[c].name = nodes[Now].name
           /\ FrameOf(open[Len(open)], c) /\ ~Entered(c)
           /\ \A k \in Placed : (IsNow(k) => k = c) /\ Outside(Lay[k], pos)
<1>1. Well
  BY DEF Going
<1>2. stage \in {"node", "closed"}
  BY DEF CanEnd
<1>3. PICK c \in Placed :
           /\ IsNow(c) /\ FrameOf(open[Len(open)], c) /\ Lay[c].name = nodes[Now].name
           /\ \A k \in Placed : IsNow(k) => k = c
  BY <1>2, TopIs
<1>4. pos = NodeEnd(Lay[c])
  <2>1. CASE stage = "closed"
    <3>1. Lay[c].brace # 0 /\ pos = Lay[c].close + 1
      BY <1>3, <2>1 DEF Going, InStep
    <3>2. QED
      BY <1>1, <3>1, PartsOf
  <2>2. CASE stage = "node"
    <3>1. ~EntryAhead /\ ~BlockAhead
      BY <2>2 DEF CanEnd
    <3>2. pos = EntriesEnd(Lay[c])
      BY <1>3, <2>2, <3>1, EndIsHere
    <3>3. Lay[c].brace = 0
      BY <1>1, <3>1, <3>2, BlockIsAhead
    <3>4. QED
      BY <1>1, <3>2, <3>3, PartsOf
  <2>3. QED
    BY <1>2, <2>1, <2>2
<1>5. ~Entered(c) /\ Outside(Lay[c], pos)
  <2>1. /\ HeadEnd(Lay[c]) \in (Lay[c].name + 1)..NodeEnd(Lay[c]) /\ Lay[c].name \in 1..Len(text)
        /\ NodeEnd(Lay[c]) \in 1..(Len(text) + 1) /\ Len(text) \in Nat /\ Lay[c].close \in Nat
        /\ Lay[c].brace # 0 => NodeEnd(Lay[c]) = Lay[c].close + 1
    BY <1>1, PartsOf
  <2>2. HeadEnd(Lay[c]) <= pos /\ (Lay[c].brace # 0 => ~(pos <= Lay[c].close))
    BY <1>4, <2>1
  <2>3. QED
    BY <2>2 DEF Outside, Entered
<1>6. \A k \in Placed : Outside(Lay[k], pos)
  <2>1. \A k \in Placed : Clear(k) \/ k = c
    BY <1>3 DEF Going, InStep
  <2>2. QED
    BY <1>5, <2>1 DEF Clear
<1>7. QED
  BY <1>3, <1>4, <1>5, <1>6

\* What ends a node and the space before it.
LEMMA BehindIsOnlyLines ==
  ASSUME Well, TypeOK, NEW c \in Placed, pos = NodeEnd(Lay[c]), NEW p,
         p = IF At(Onward, Terminator) THEN Onward + 1 ELSE Onward,
         \A k \in Placed : Outside(Lay[k], pos)
  PROVE  /\ p \in Nat /\ pos <= p /\ OnlyLines(text, Lay, p)
         /\ \A k \in Placed : Alike(Lay[k], pos, p) /\ Outside(Lay[k], p)
<1>1. PICK q \in Points(text, Lay) : \E m \in 1..(Len(text) + 1) :
           /\ NextPoint(text, Lay, pos, q) /\ q \in 1..(Len(text) + 1)
           /\ pos <= m /\ m <= q /\ RunEnd(pos, NodeSpace) = m
           /\ \/ At(m, Terminator) /\ m + 1 <= q /\ Only(text, m + 1, q, LineSpace)
              \/ m = q /\ ~At(m, Terminator)
  BY TrailIs
<1>2. PICK m \in 1..(Len(text) + 1) :
           /\ NextPoint(text, Lay, pos, q) /\ q \in 1..(Len(text) + 1)
           /\ pos <= m /\ m <= q /\ RunEnd(pos, NodeSpace) = m
           /\ \/ At(m, Terminator) /\ m + 1 <= q /\ Only(text, m + 1, q, LineSpace)
              \/ m = q /\ ~At(m, Terminator)
  BY <1>1
<1>3. p = IF At(m, Terminator) THEN m + 1 ELSE m
  BY <1>2 DEF Onward
<1>4. pos \in Nat /\ pos # 0 /\ m \in Nat /\ q \in Nat /\ Len(text) \in Nat
  BY <1>2, TokensAreFinite DEF TypeOK
<1>5. p \in Nat /\ pos <= p /\ p <= q /\ p \in pos..q
  <2>1. CASE At(m, Terminator)
    <3>1. p = m + 1 /\ m + 1 <= q
      BY <1>2, <1>3, <2>1
    <3>2. QED
      BY <1>2, <1>4, <3>1
  <2>2. CASE ~At(m, Terminator)
    <3>1. p = m
      BY <1>3, <2>2
    <3>2. QED
      BY <1>2, <1>4, <3>1
  <2>3. QED
    BY <2>1, <2>2
<1>6. Only(text, p, q, LineSpace)
  <2>1. CASE At(m, Terminator)
    <3>1. p = m + 1
      BY <1>3, <2>1
    <3>2. QED
      BY <1>2, <2>1, <3>1
  <2>2. CASE ~At(m, Terminator)
    <3>1. p = q
      BY <1>2, <1>3, <2>2
    <3>2. QED
      BY <1>4, <3>1 DEF Only
  <2>3. QED
    BY <2>1, <2>2
<1>7. NextPoint(text, Lay, p, q)
  <2>1. \A r \in Points(text, Lay) : r \in Nat
    <3>1. \A r \in Points(text, Lay) : r \in 1..(Len(text) + 1)
      BY PointIs
    <3>2. QED
      BY <3>1
  <2>2. \A r \in Points(text, Lay) : r < pos \/ q <= r
    BY <1>2 DEF NextPoint
  <2>3. \A r \in Points(text, Lay) : r < p \/ q <= r
    BY <1>4, <1>5, <2>1, <2>2
  <2>4. QED
    BY <1>5, <2>3 DEF NextPoint
<1>8. OnlyLines(text, Lay, p)
  BY <1>6, <1>7 DEF OnlyLines
<1>9. \A k \in Placed : Alike(Lay[k], pos, p) /\ Outside(Lay[k], p)
  BY <1>2, <1>4, <1>5, NothingBefore
<1>10. QED
  BY <1>5, <1>8, <1>9

LEMMA EndKeepsReading ==
  ASSUME Going, Still, EndNode
  PROVE  InStep' /\ Listed' /\ Stacked'
<1>t. PICK t : t = Len(open)
  OBVIOUS
<1>m. PICK m : m = Now
  OBVIOUS
<1>1. /\ CanEnd /\ open # <<>> /\ open' = SubSeq(open, 1, t - 1) /\ stage' = "nodes"
      /\ pos' = IF At(Onward, Terminator) THEN Onward + 1 ELSE Onward
      /\ nodes' = IF Last(open).skip THEN SubSeq(nodes, 1, m - 1) ELSE nodes
  BY <1>t, <1>m DEF EndNode, CanEnd, Front, TypeOK, Going
<1>2. Well /\ TypeOK /\ pos \in Nat /\ nodes \in Seq(Node) /\ open \in Seq(Frame)
  BY NamesRise DEF Going, TypeOK
<1>3. PICK c \in Placed :
           /\ IsNow(c) /\ pos = NodeEnd(Lay[c]) /\ Lay[c].name = nodes[m].name
           /\ FrameOf(open[t], c) /\ ~Entered(c)
           /\ \A k \in Placed : (IsNow(k) => k = c) /\ Outside(Lay[k], pos)
  BY <1>1, <1>t, <1>m, NodeEndIsHere
<1>4. /\ t \in DOMAIN open /\ m = open[t].node /\ m \in DOMAIN nodes
      /\ Last(open) = open[t] /\ \A f \in DOMAIN open : f # t => open[f].node < m
      /\ \A f \in DOMAIN open : open[f].node \in DOMAIN nodes /\ open[f].node \in Nat
      /\ t \in Nat /\ DOMAIN open = 1..t /\ m \in Nat /\ DOMAIN nodes = 1..Len(nodes)
      /\ Len(nodes) \in Nat /\ m - 1 \in 0..Len(nodes) /\ t - 1 \in 0..Len(open)
  <2>1. /\ t \in DOMAIN open /\ m = open[t].node /\ m \in DOMAIN nodes /\ t \in Nat
        /\ Last(open) = open[t] /\ \A f \in DOMAIN open : f # t => open[f].node < m
    BY <1>1, <1>2, <1>t, <1>m, NowIsOpen
  <2>2. \A f \in DOMAIN open : open[f].node \in DOMAIN nodes
    BY <1>2 DEF TypeOK
  <2>3. DOMAIN nodes = 1..Len(nodes) /\ Len(nodes) \in Nat
    BY NamesRise
  <2>4. DOMAIN open = 1..t
    BY <1>2, <1>t
  <2>5. QED
    BY <1>t, <2>1, <2>2, <2>3, <2>4
<1>5. /\ pos' \in Nat /\ pos <= pos' /\ OnlyLines(text, Lay, pos')
      /\ \A k \in Placed : Alike(Lay[k], pos, pos') /\ Outside(Lay[k], pos')
  BY <1>1, <1>2, <1>3, BehindIsOnlyLines
<1>6. Lay' = Lay /\ Placed' = Placed /\ text' = text /\ \A j, k : Over(j, k)' <=> Over(j, k)
  BY StillIs DEF Still
<1>7. ASSUME NEW k \in Placed
      PROVE  /\ Met(k)' <=> Met(k)
             /\ Entered(k)' <=> Entered(k)
             /\ Lay[k].brace # 0 => (Hid(k)' <=> Hid(k))
  BY <1>2, <1>5, NothingMet
<1>8. /\ Lay[c].name \in Nat /\ HeadEnd(Lay[c]) \in Nat /\ Lay[c].name < pos
      /\ Lay[c].brace \in Nat /\ Lay[c].close \in Nat
      /\ Lay[c].brace = 0 => HeadEnd(Lay[c]) = pos
      /\ Lay[c].brace # 0 => pos = Lay[c].close + 1 /\ HeadEnd(Lay[c]) = Lay[c].brace + 1
  <2>1. /\ HeadEnd(Lay[c]) \in (Lay[c].name + 1)..NodeEnd(Lay[c]) /\ Lay[c].name \in 1..Len(text)
        /\ NodeEnd(Lay[c]) \in 1..(Len(text) + 1) /\ Len(text) \in Nat /\ Lay[c].close \in Nat
        /\ Lay[c].brace \in Nat
        /\ Lay[c].brace # 0 => NodeEnd(Lay[c]) = Lay[c].close + 1 /\ HeadEnd(Lay[c]) = Lay[c].brace + 1
        /\ Lay[c].brace = 0 => HeadEnd(Lay[c]) = EntriesEnd(Lay[c]) /\ NodeEnd(Lay[c]) = EntriesEnd(Lay[c])
    BY <1>2, PartsOf
  <2>2. QED
    BY <1>2, <1>3, <2>1
<1>9. \A k \in Placed : InHand(k)' <=> InHand(k) /\ k # c
  <2>1. \A k \in Placed : ~IsNow(k)'
    BY <1>1 DEF IsNow
  <2>2. QED
    BY <1>3, <1>7, <2>1 DEF InHand
<1>10. InHand(c) /\ Met(c)
  BY <1>3, <1>8 DEF InHand, Met
<1>11. \A j \in Placed : Left(j)' <=> Left(j) \/ (j = c /\ Lay[c].dash # 0)
  <2>1. ~Left(c) /\ (Left(c)' <=> Lay[c].dash # 0)
    BY <1>6, <1>7, <1>9, <1>10 DEF Left
  <2>2. \A j \in Placed : j # c => (Left(j)' <=> Left(j))
    BY <1>7, <1>9, LeftSame
  <2>3. QED
    BY <2>1, <2>2
<1>12. Last(open).skip <=> Lay[c].dash # 0
  BY <1>3, <1>4 DEF FrameOf
<1>13. ASSUME NEW i \in DOMAIN nodes
       PROVE  \E k \in Placed : ReadTo(text, nodes[i], Lay[k], pos')
  <2>1. PICK k \in Placed : nodes[i].name = Lay[k].name
    BY NamesRise
  <2>2. ReadTo(text, nodes[i], Lay[k], pos')
    BY <1>3, <1>5, <2>1, AlikeBlock, OthersKept
  <2>3. QED
    BY <2>2
<1>14. Listed'
  <2>1. CASE Lay[c].dash # 0
    <3>1. nodes' = SubSeq(nodes, 1, m - 1)
      BY <1>1, <1>12, <2>1
    <3>2. ASSUME NEW k \in Placed PROVE Gone(k)' <=> Gone(k) \/ k = c \/ Over(c, k)
      <4>1. Gone(k)' <=> \E j \in Placed : \/ Left(j)' /\ (j = k \/ Over(j, k))
                                           \/ Hid(j)' /\ Over(j, k)
        BY <1>6 DEF Gone
      <4>2. \A j \in Placed : Over(j, k) => (Hid(j)' <=> Hid(j))
        BY <1>7 DEF Over, Within
      <4>3. \A j \in Placed : Left(j)' <=> Left(j) \/ j = c
        BY <1>11, <2>1
      <4>4. QED
        BY <4>1, <4>2, <4>3 DEF Gone
    <3>3. ASSUME NEW i \in DOMAIN nodes, NEW k \in Placed, nodes[i].name = Lay[k].name
          PROVE  Gone(k)' <=> m - 1 < i
      <4>1. ~Gone(k) /\ Met(k)
        BY <3>3, ListedAt
      <4>2. (m < i <=> c < k) /\ (m = i <=> c = k)
        <5>1. m < i <=> nodes[m].name < nodes[i].name
          BY <1>4, NamesRise
        <5>2. m = i <=> nodes[m].name = nodes[i].name
          BY <1>4, NamesRise
        <5>3. Lay[c].name < Lay[k].name <=> c < k
          BY <1>2, NameOrder
        <5>4. Lay[c].name = Lay[k].name <=> c = k
          BY <1>2, SameName
        <5>5. QED
          BY <1>3, <3>3, <5>1, <5>2, <5>3, <5>4
      <4>3. c < k => Over(c, k)
        <5>1. SUFFICES ASSUME c < k PROVE Over(c, k)
          OBVIOUS
        <5>2. /\ HeadEnd(Lay[c]) <= NodeBegin(Lay[k])
              /\ Lay[c].brace # 0 => \/ Lay[c].close < NodeBegin(Lay[k])
                                     \/ NodeEnd(Lay[k]) <= Lay[c].close
          BY <1>2, <5>1, Later
        <5>3. /\ NodeBegin(Lay[k]) \in 1..Lay[k].name /\ Lay[k].name \in 1..Len(text) /\ Len(text) \in Nat
              /\ HeadEnd(Lay[k]) \in (Lay[k].name + 1)..NodeEnd(Lay[k])
              /\ NodeEnd(Lay[k]) \in 1..(Len(text) + 1)
          BY <1>2, PartsOf
        <5>4. Lay[k].name < pos
          BY <4>1 DEF Met
        <5> DEFINE b == NodeBegin(Lay[k])
                   n == Lay[k].name
                   h == HeadEnd(Lay[k])
                   z == NodeEnd(Lay[k])
                   hc == HeadEnd(Lay[c])
                   lc == Lay[c].brace
                   ec == Lay[c].close
        <5>5. /\ b \in Nat /\ n \in Nat /\ h \in Nat /\ z \in Nat /\ b <= n /\ n < h /\ h <= z /\ n < pos
              /\ hc <= b /\ (lc # 0 => ec < b \/ z <= ec)
          BY <5>2, <5>3, <5>4
        <5>6. /\ hc \in Nat /\ lc \in Nat /\ ec \in Nat
              /\ lc = 0 => hc = pos
              /\ lc # 0 => pos = ec + 1 /\ hc = lc + 1
          BY <1>8
        <5> HIDE DEF b, n, h, z, hc, lc, ec
        <5>7. lc # 0
          BY <1>2, <5>5, <5>6
        <5>8. lc < n /\ n < ec
          BY <1>2, <5>5, <5>6, <5>7
        <5>9. QED
          BY <5>7, <5>8 DEF Over, Within, lc, ec, n
      <4>4. Over(c, k) => c < k
        BY <1>2, OverIs
      <4>5. i \in Nat /\ (m - 1 < i <=> m < i \/ m = i)
        BY <1>4, <3>3
      <4>6. QED
        BY <3>2, <4>1, <4>2, <4>3, <4>4, <4>5
    <3>4. ASSUME NEW i \in 1..(m - 1) PROVE \E k \in Placed : ReadTo(text, nodes[i], Lay[k], pos')
      <4>1. i \in DOMAIN nodes
        BY <1>4
      <4>2. QED
        BY <1>13, <4>1
    <3>5. QED
      BY <1>4, <1>7, <3>1, <3>2, <3>3, <3>4, ListedCut
  <2>2. CASE Lay[c].dash = 0
    <3>1. nodes' = nodes
      BY <1>1, <1>12, <2>2
    <3>2. \A k \in Placed : Gone(k)' <=> Gone(k)
      BY <1>7, <1>11, <2>2, GoneSame
    <3>3. QED
      BY <1>7, <1>13, <3>1, <3>2, ListedKept
  <2>3. QED
    BY <2>1, <2>2
<1>15. Stacked'
  <2>1. /\ DOMAIN open' = 1..(t - 1) /\ t \notin 1..(t - 1)
        /\ \A f \in 1..(t - 1) : f \in DOMAIN open /\ open'[f] = open[f]
        /\ \A f \in DOMAIN open : f \in 1..(t - 1) \/ f = t
    <3>1. /\ DOMAIN open' = 1..(t - 1)
          /\ \A f \in 1..(t - 1) : f \in DOMAIN open /\ open'[f] = open[f]
      BY <1>1, <1>2, <1>4, Cut
    <3>2. QED
      BY <1>4, <3>1
  <2>2. \A i \in DOMAIN nodes : i < m => nodes'[i] = nodes[i]
    <3>1. CASE Last(open).skip
      <4>1. nodes' = SubSeq(nodes, 1, m - 1)
        BY <1>1, <3>1
      <4>2. \A i \in 1..(m - 1) : nodes'[i] = nodes[i]
        BY <1>2, <1>4, <4>1, Cut
      <4>3. QED
        BY <1>4, <4>2
    <3>2. CASE ~Last(open).skip
      BY <1>1, <3>2
    <3>3. QED
      BY <3>1, <3>2
  <2>3. ASSUME NEW f \in 1..(t - 1), NEW k \in Placed, FrameOf(open[f], k)
        PROVE  FrameOf(open[f], k)' /\ k # c
    <3>1. nodes[open[f].node].name = Lay[k].name
      BY <2>3 DEF FrameOf
    <3>2. f \in DOMAIN open /\ open'[f] = open[f] /\ f # t
      BY <2>1
    <3>3. open[f].node \in DOMAIN nodes /\ open[f].node < m
      BY <1>4, <3>2
    <3>4. nodes'[open'[f].node].name = Lay[k].name
      BY <2>2, <3>1, <3>2, <3>3
    <3>5. k # c
      <4>1. nodes[open[f].node].name < nodes[m].name /\ nodes[m].name \in Nat
        BY <1>4, <3>3, NamesRise
      <4>2. QED
        BY <1>3, <3>1, <4>1
    <3>6. Lay[k].brace # 0 /\ Lay[k].brace < pos' => Lay[k].brace < pos
      BY <1>5 DEF Alike
    <3>7. QED
      BY <1>6, <2>3, <3>2, <3>4, <3>5, <3>6 DEF FrameOf
  <2>4. ASSUME NEW f \in DOMAIN open' PROVE \E k \in Placed : InHand(k)' /\ FrameOf(open[f], k)'
    <3>1. f \in 1..(t - 1) /\ f \in DOMAIN open
      BY <2>1
    <3>2. PICK k \in Placed : InHand(k) /\ FrameOf(open[f], k)
      BY <3>1 DEF Going, Stacked
    <3>3. QED
      BY <1>9, <2>3, <3>1, <3>2
  <2>5. ASSUME NEW k \in Placed, InHand(k)' PROVE \E f \in DOMAIN open' : FrameOf(open[f], k)'
    <3>1. InHand(k) /\ k # c
      BY <1>9, <2>5
    <3>2. PICK f \in DOMAIN open : FrameOf(open[f], k)
      BY <3>1 DEF Going, Stacked
    <3>3. f # t
      <4>1. f = t => Lay[k].name = Lay[c].name
        BY <1>3, <3>2 DEF FrameOf
      <4>2. QED
        BY <1>2, <3>1, <4>1, SameName
    <3>4. f \in 1..(t - 1)
      BY <2>1, <3>3
    <3>5. QED
      BY <2>1, <2>3, <3>2, <3>4
  <2>6. QED
    BY <1>6, <2>4, <2>5 DEF Stacked
<1>16. InStep'
  <2>1. OnlyLines(text', Lay', pos')
    BY <1>5, <1>6
  <2>2. \A k \in Placed : Clear(k)'
    <3>1. \A k \in Placed : Outside(Lay'[k], pos')
      BY <1>5, <1>6
    <3>2. QED
      BY <3>1 DEF Clear
  <2>3. QED
    BY <1>1, <1>6, <2>1, <2>2 DEF InStep
<1>17. QED
  BY <1>14, <1>15, <1>16

----------------------------------------------------------------------------
\* The end of the text

LEMMA OverOver ==
  ASSUME Well, NEW j \in Placed, NEW l \in Placed, NEW k \in Placed, Over(j, l), Over(l, k)
  PROVE  Over(j, k)
<1>1. Lay[j].brace # 0 /\ Lay[j].name < Lay[l].name /\ NodeEnd(Lay[l]) <= Lay[j].close
  BY OverIs
<1>2. /\ Lay[j].brace < Lay[l].name /\ Lay[l].brace # 0
      /\ Lay[l].brace < Lay[k].name /\ Lay[k].name < Lay[l].close
  BY DEF Over, Within
<1>3. /\ Lay[l].name < Lay[l].brace /\ NodeEnd(Lay[l]) = Lay[l].close + 1
      /\ Lay[j].brace \in Nat /\ Lay[j].close \in Nat /\ Lay[l].brace \in Nat /\ Lay[l].close \in Nat
      /\ Lay[l].name \in Nat /\ Lay[k].name \in Nat
  <2>1. Lay[l].name \in 1..Len(text) /\ Lay[k].name \in 1..Len(text) /\ Len(text) \in Nat
    BY PartsOf
  <2>2. Lay[l].name \in Nat /\ Lay[k].name \in Nat
    BY <2>1
  <2>3. /\ Lay[l].name < Lay[l].brace /\ NodeEnd(Lay[l]) = Lay[l].close + 1
        /\ Lay[l].brace \in Nat /\ Lay[l].close \in Nat
    BY <1>2, PartsOf
  <2>4. Lay[j].brace \in Nat /\ Lay[j].close \in Nat
    BY PartsOf
  <2>5. QED
    BY <2>2, <2>3, <2>4
<1>4. Lay[j].brace < Lay[k].name /\ Lay[k].name < Lay[j].close
  <2> DEFINE bj == Lay[j].brace
             ej == Lay[j].close
             bl == Lay[l].brace
             el == Lay[l].close
             nl == Lay[l].name
             nk == Lay[k].name
             zl == NodeEnd(Lay[l])
  <2>1. /\ zl <= ej /\ bj < nl /\ bl < nk /\ nk < el /\ nl < bl /\ zl = el + 1
        /\ bj \in Nat /\ ej \in Nat /\ bl \in Nat /\ el \in Nat /\ nl \in Nat /\ nk \in Nat
    BY <1>1, <1>2, <1>3
  <2> HIDE DEF bj, ej, bl, el, nl, nk, zl
  <2>2. bj < nk /\ nk < ej
    BY <2>1
  <2>3. QED
    BY <2>2 DEF bj, nk, ej
<1>5. QED
  BY <1>1, <1>4 DEF Over, Within

\* There all of each node has been read.
LEMMA AllMet ==
  ASSUME Going, stage = "nodes", open = <<>>, pos = Len(text) + 1, NEW k \in Placed
  PROVE  /\ Met(k) /\ ~InHand(k) /\ EntriesEnd(Lay[k]) <= pos
         /\ Lay[k].brace # 0 => Lay[k].close < pos
<1>1. Well /\ TypeOK /\ pos \in Nat
  BY NamesRise DEF Going
<1>2. ~InHand(k)
  <2>1. DOMAIN open = {}
    OBVIOUS
  <2>2. QED
    BY <2>1 DEF Going, Stacked
<1>3. /\ Lay[k].name < pos /\ EntriesEnd(Lay[k]) <= pos
      /\ Lay[k].brace # 0 => Lay[k].close < pos
  <2>1. /\ Lay[k].name \in 1..Len(text) /\ Len(text) \in Nat
        /\ EntriesEnd(Lay[k]) \in (Lay[k].name + 1)..HeadEnd(Lay[k])
        /\ HeadEnd(Lay[k]) \in (Lay[k].name + 1)..NodeEnd(Lay[k])
        /\ NodeEnd(Lay[k]) \in 1..(Len(text) + 1)
        /\ Lay[k].brace # 0 => Lay[k].close \in 1..Len(text)
    BY <1>1, PartsOf
  <2>2. QED
    BY <2>1
<1>4. QED
  BY <1>2, <1>3 DEF Met

LEMMA GoneIsNotKept ==
  ASSUME Going, stage = "nodes", open = <<>>, pos = Len(text) + 1, NEW k \in Placed
  PROVE  Gone(k) <=> ~Kept(Lay, k)
<1>1. \A j \in Placed : Left(j) <=> Lay[j].dash # 0
  BY AllMet DEF Left
<1>2. \A j \in Placed : Over(j, k) => (Hid(j) <=> Lay[j].hide # 0)
  BY AllMet DEF Hid, Over, Within
<1>3. QED
  BY <1>1, <1>2 DEF Gone, Kept, Over, Placed

LEMMA SaysIt ==
  ASSUME Going, stage = "nodes", open = <<>>, pos = Len(text) + 1,
         NEW i \in DOMAIN nodes, NEW k \in Placed, nodes[i].name = Lay[k].name
  PROVE  Says(text, nodes[i], Lay[k])
<1>1. ReadTo(text, nodes[i], Lay[k], pos)
  BY ListedAt
<1>2. ReadBy(Lay[k], pos) = ItemsOf(Lay[k])
  BY AllMet, AllRead, NamesRise DEF Going
<1>3. Lay[k].brace # 0 => Lay[k].close < pos
  BY AllMet
<1>4. QED
  BY <1>1, <1>2, <1>3 DEF ReadTo, Says

LEMMA ParentFound ==
  ASSUME Going, Nested, stage = "nodes", open = <<>>, pos = Len(text) + 1,
         NEW i \in DOMAIN nodes, NEW k \in Placed, nodes[i].name = Lay[k].name
  PROVE  ParentIs(nodes, Lay, nodes[i])
<1> DEFINE around == {l \in Placed : Over(l, k)}
           n == Len(Lay)
<1>1. Well /\ TypeOK /\ \A j \in DOMAIN nodes : j \in Nat /\ j # 0
  BY NamesRise DEF Going
<1>2. n \in Nat /\ Placed = 1..n
  BY <1>1 DEF Well, Placed
<1>3. \A l \in around : /\ l \in Placed /\ Lay[l].brace # 0 /\ Lay[l].hide = 0
                        /\ \E j \in DOMAIN nodes : nodes[j].name = Lay[l].name
  <2>1. Kept(Lay, k)
    BY GoneIsNotKept, ListedAt
  <2>2. ASSUME NEW l \in around
        PROVE  /\ l \in Placed /\ Lay[l].brace # 0 /\ Lay[l].hide = 0
               /\ \E j \in DOMAIN nodes : nodes[j].name = Lay[l].name
    <3>1. l \in Placed /\ Over(l, k) /\ Lay[l].brace # 0 /\ Lay[l].dash = 0 /\ Lay[l].hide = 0
      BY <2>1 DEF Kept, Over, Within, Placed
    <3>2. \A j \in Placed : Over(j, l) => Lay[j].dash = 0 /\ Lay[j].hide = 0
      <4>1. \A j \in Placed : Over(j, l) => Over(j, k)
        BY <1>1, <3>1, OverOver
      <4>2. \A j \in Placed : Over(j, k) => Lay[j].dash = 0 /\ Lay[j].hide = 0
        BY <2>1 DEF Kept, Over, Placed
      <4>3. QED
        BY <4>1, <4>2
    <3>3. Kept(Lay, l)
      BY <3>1, <3>2 DEF Kept, Over, Placed
    <3>4. Met(l) /\ ~Gone(l)
      BY <3>1, <3>3, GoneIsNotKept, AllMet
    <3>5. \E j \in DOMAIN nodes : nodes[j].name = Lay[l].name
      BY <3>1, <3>4 DEF Going, Listed
    <3>6. QED
      BY <3>1, <3>5
  <2> HIDE DEF around
  <2>3. QED
    BY <2>2
<1>4. ASSUME NEW j \in DOMAIN nodes, NEW l \in Placed, nodes[j].name = Lay[l].name
      PROVE  j \in Around[i] <=> l \in around
  <2>1. nodes[j].block = IF Lay[l].brace # 0 /\ Lay[l].hide = 0 THEN <<Lay[l].brace, Lay[l].close>> ELSE <<>>
    BY <1>4, SaysIt DEF Says
  <2>2. Opened = {}
    <3>1. Depth = 0
      BY DEF Depth
    <3>2. QED
      BY <3>1 DEF Opened
  <2>3. j \in Around[i] <=> Shut(nodes[j].block, nodes[i].name)
    BY <2>2 DEF Around
  <2>4. l \in around => Lay[l].hide = 0
    <3> HIDE DEF around
    <3>1. QED
      BY <1>3
  <2>5. Shut(nodes[j].block, nodes[i].name) <=> Lay[l].hide = 0 /\ Within(Lay[l], Lay[k].name)
    <3>1. CASE Lay[l].brace # 0 /\ Lay[l].hide = 0
      <4>1. nodes[j].block = <<Lay[l].brace, Lay[l].close>>
        BY <2>1, <3>1
      <4>2. nodes[j].block # <<>> /\ nodes[j].block[1] = Lay[l].brace /\ nodes[j].block[2] = Lay[l].close
        BY <4>1
      <4>3. QED
        BY <3>1, <4>2 DEF Shut, Within
    <3>2. CASE ~(Lay[l].brace # 0 /\ Lay[l].hide = 0)
      BY <2>1, <3>2 DEF Shut, Within
    <3>3. QED
      BY <3>1, <3>2
  <2>6. QED
    BY <2>3, <2>4, <2>5 DEF Over
<1>5. /\ nodes[i].parent # 0 => nodes[i].parent \in Around[i]
      /\ \A j \in Around[i] : j <= nodes[i].parent
      /\ Around[i] \subseteq DOMAIN nodes
      /\ nodes[i].parent \in Nat
  <2>1. nodes[i].parent \in 0..(i - 1)
    BY DEF Nested
  <2>2. nodes[i].parent \in Nat
    BY <1>1, <2>1
  <2>3. QED
    BY <2>2 DEF Nested, Around
<1>6. \A j \in DOMAIN nodes : \E l \in Placed : nodes[j].name = Lay[l].name
  BY NamesRise
<1>7. around \subseteq 0..n
  BY <1>2
<1>8. around = {l \in DOMAIN Lay : Within(Lay[l], nodes[i].name)}
  BY DEF Over, Placed
<1> HIDE DEF around, n
<1>9. CASE around = {}
  <2>1. nodes[i].parent = 0
    BY <1>4, <1>5, <1>6, <1>9
  <2>2. QED
    BY <1>8, <1>9, <2>1 DEF ParentIs
<1>10. CASE around # {}
  <2>1. PICK x \in around : \A y \in around : y <= x
    BY <1>2, <1>7, <1>10, HasMax
  <2>2. x \in Placed /\ \A y \in around : y \in Nat
    BY <1>3, <1>2
  <2>3. PICK j \in DOMAIN nodes : nodes[j].name = Lay[x].name
    BY <1>3, <2>1
  <2>4. j \in Around[i]
    BY <1>4, <2>1, <2>2, <2>3
  <2>5. j <= nodes[i].parent /\ nodes[i].parent # 0
    BY <1>1, <1>5, <2>4
  <2> DEFINE p == nodes[i].parent
  <2>6. p \in Around[i] /\ p \in DOMAIN nodes
    BY <1>5, <2>5
  <2>7. PICK l \in Placed : nodes[p].name = Lay[l].name
    BY <1>6, <2>6
  <2>8. l \in around
    BY <1>4, <2>6, <2>7
  <2>9. l <= x
    BY <2>1, <2>8
  <2>10. ~(Lay[l].name < Lay[x].name)
    <3>1. ~(p < j)
      BY <1>1, <1>5, <2>5
    <3>2. ~(nodes[p].name < nodes[j].name)
      BY <2>6, <3>1, NamesRise
    <3>3. QED
      BY <2>3, <2>7, <3>2
  <2>11. l = x
    <3>1. Lay[l].name < Lay[x].name <=> l < x
      BY <1>1, <2>2, NameOrder
    <3>2. x \in Nat /\ l \in Nat
      BY <2>1, <2>2, <2>8
    <3>3. QED
      BY <2>9, <2>10, <3>1, <3>2
  <2>12. Max(around) = x
    <3>1. \A m \in around : (\A y \in around : m >= y) <=> m = x
      BY <2>1, <2>2
    <3>2. QED
      BY <2>1, <3>1 DEF Max
  <2>13. nodes[i].parent # 0 /\ nodes[nodes[i].parent].name = Lay[Max(around)].name
    BY <2>5, <2>7, <2>11, <2>12
  <2>14. QED
    BY <1>8, <1>10, <2>13 DEF ParentIs
<1>11. QED
  BY <1>9, <1>10

LEMMA FinishReads ==
  ASSUME Going, Nested, ReadInOrder, stage = "nodes", open = <<>>, pos = Len(text) + 1
  PROVE  SaysAll(text, nodes, Lay)
<1>1. \A k \in DOMAIN Lay : Kept(Lay, k) <=> \E i \in DOMAIN nodes : nodes[i].name = Lay[k].name
  <2>1. \A k \in Placed : Met(k) /\ (Gone(k) <=> ~Kept(Lay, k))
    BY AllMet, GoneIsNotKept
  <2>2. QED
    BY <2>1 DEF Going, Listed, Placed
<1>2. ASSUME NEW i \in DOMAIN nodes
      PROVE  /\ \E k \in DOMAIN Lay : Says(text, nodes[i], Lay[k])
             /\ ParentIs(nodes, Lay, nodes[i])
             /\ \A j, k \in DOMAIN nodes[i].args : j < k => nodes[i].args[j].at < nodes[i].args[k].at
  <2>1. PICK k \in Placed : nodes[i].name = Lay[k].name
    BY NamesRise
  <2>2. Says(text, nodes[i], Lay[k]) /\ ParentIs(nodes, Lay, nodes[i])
    BY <2>1, SaysIt, ParentFound
  <2>3. \A j, l \in DOMAIN nodes[i].args : j < l => nodes[i].args[j].at < nodes[i].args[l].at
    BY DEF ReadInOrder, EntriesInOrder
  <2>4. QED
    BY <2>2, <2>3 DEF Placed
<1>3. \A i, j \in DOMAIN nodes : i < j => nodes[i].name < nodes[j].name
  BY NamesRise
<1>4. QED
  BY <1>1, <1>2, <1>3 DEF SaysAll

LEMMA EndOnlyBehindBlocks ==
  ASSUME Going, stage = "nodes", pos = Len(text) + 1
  PROVE  open = <<>>
<1>1. Well /\ TypeOK
  BY DEF Going
<1>2. SUFFICES ASSUME open # <<>> PROVE FALSE
  OBVIOUS
<1>3. Len(open) \in DOMAIN open
  BY <1>1, <1>2, NowIsOpen
<1>4. PICK k \in Placed : InHand(k)
  BY <1>3 DEF Going, Stacked
<1>5. Lay[k].brace # 0 /\ pos <= Lay[k].close
  BY <1>4 DEF InHand, Entered, IsNow
<1>6. Lay[k].close \in 1..Len(text) /\ Len(text) \in Nat
  BY <1>1, <1>5, PartsOf
<1>7. QED
  BY <1>5, <1>6

LEMMA NothingFails ==
  ASSUME Going PROVE ~Unclosed /\ ~Fail
<1>1. Well /\ text \in Seq(Token) /\ pos \in Nat
  BY NamesRise DEF Going, Well
<1>2. ~Unclosed
  BY EndOnlyBehindBlocks, Zenon DEF Unclosed
<1>3. ASSUME stage = "nodes", pos <= Len(text), ~At(pos, LineSpace), ~IsNode(Behind(pos)),
             ~(open # <<>> /\ pos \in Rights)
      PROVE  FALSE
  <2>1. pos \in Points(text, Lay)
    BY <1>3, PointHere
  <2>2. pos # Len(text) + 1
    BY <1>1, <1>3, TokensAreFinite
  <2>3. CASE \E k \in Placed : pos = NodeBegin(Lay[k])
    <3>1. PICK k \in Placed : pos = NodeBegin(Lay[k])
      BY <2>3
    <3>2. IsNode(Behind(pos))
      BY <1>1, <3>1, LayIs, NodeIs
    <3>3. QED
      BY <1>3, <3>2
  <2>4. CASE pos \in Rights /\ \E k \in Placed : Lay[k].brace # 0 /\ pos = Lay[k].close
    <3>1. PICK k \in Placed : Lay[k].brace # 0 /\ pos = Lay[k].close
      BY <2>4
    <3>2. Lay[k].brace < Lay[k].close
      BY <1>1, <3>1, PartsOf
    <3>3. InHand(k)
      BY <1>1, <3>1, <3>2 DEF InHand, Entered
    <3>4. open # <<>>
      BY <3>3 DEF Going, Stacked
    <3>5. QED
      BY <1>3, <2>4, <3>4
  <2>5. QED
    BY <1>1, <2>1, <2>2, <2>3, <2>4, PointIs
<1>4. ~Fail
  <2>1. SUFFICES ASSUME Fail PROVE FALSE
    OBVIOUS
  <2>2. /\ stage = "nodes" /\ pos <= Len(text) /\ ~At(pos, LineSpace) /\ ~IsNode(Behind(pos))
        /\ ~(open # <<>> /\ At(pos, {"}"}))
    BY <2>1, Zenon DEF Fail
  <2>3. pos \in Rights <=> At(pos, {"}"})
    BY BraceIs, Zenon
  <2>4. ~(open # <<>> /\ pos \in Rights)
    BY <2>2, <2>3, Zenon
  <2>5. QED
    BY <1>3, <2>2, <2>4, Zenon
<1>5. QED
  BY <1>2, <1>4

----------------------------------------------------------------------------
\* All steps

LEMMA NextKeepsReading ==
  TypeOK /\ ReadInOrder /\ NInv /\ RInv /\ [Next /\ UNCHANGED written]_<<vars, written>> => RInv'
<1> SUFFICES ASSUME TypeOK, ReadInOrder, NInv, RInv, [Next /\ UNCHANGED written]_<<vars, written>>,
                    written.known
             PROVE  RInv'
  <2>1. ASSUME [Next /\ UNCHANGED written]_<<vars, written>> PROVE written' = written
    BY <2>1, Zenon
  <2>2. QED
    BY <2>1 DEF RInv
<1>1. written' = written /\ [Next]_vars
  BY Zenon DEF vars
<1>2. TypeOK'
  BY <1>1, NextKeepsTypes
<1>3. text' = text
  BY <1>1, Zenon DEF Next, vars, SkipLineSpace, BeginNode, Argument, SetProperty, IgnoreEntry, OpenBlock,
                     CloseBlock, EndNode, Finish, Unclosed, Fail, Done
<1>4. Still /\ Well'
  BY <1>1, <1>3, StillIs DEF RInv, Still
<1>5. Reading => Going
  BY DEF RInv, NInv, Going
<1>6. ASSUME stage' \in {"nodes", "node", "closed"}, InStep' /\ Listed' /\ Stacked' PROVE RInv'
  BY <1>4, <1>6 DEF RInv, ReadsBackWhatWasWritten, Ended
<1>7. CASE SkipLineSpace
  <2>1. Reading /\ stage' \in {"nodes", "node", "closed"}
    BY <1>7 DEF SkipLineSpace, Reading
  <2>2. QED
    BY <1>4, <1>5, <1>6, <1>7, <2>1, SkipKeepsReading
<1>8. CASE BeginNode
  <2>1. Reading /\ stage' \in {"nodes", "node", "closed"}
    BY <1>8 DEF BeginNode, Reading
  <2>2. QED
    BY <1>2, <1>4, <1>5, <1>6, <1>8, <2>1, BeginKeepsReading
<1>9. CASE Argument
  <2>1. Reading /\ stage' \in {"nodes", "node", "closed"}
    BY <1>9 DEF Argument, Entry, Reading
  <2>2. QED
    BY <1>4, <1>5, <1>6, <1>9, <2>1, ArgumentKeepsReading
<1>10. CASE SetProperty
  <2>1. Reading /\ stage' \in {"nodes", "node", "closed"}
    BY <1>10 DEF SetProperty, Entry, Reading
  <2>2. QED
    BY <1>4, <1>5, <1>6, <1>10, <2>1, SetPropertyKeepsReading
<1>11. CASE IgnoreEntry
  <2>1. Reading /\ stage' \in {"nodes", "node", "closed"}
    BY <1>11 DEF IgnoreEntry, Reading
  <2>2. QED
    BY <1>4, <1>5, <1>6, <1>11, <2>1, IgnoreKeepsReading
<1>12. CASE OpenBlock
  <2>1. Reading /\ stage' \in {"nodes", "node", "closed"}
    BY <1>12 DEF OpenBlock, Reading
  <2>2. QED
    BY <1>4, <1>5, <1>6, <1>12, <2>1, OpenKeepsReading
<1>13. CASE CloseBlock
  <2>1. stage = "nodes" /\ stage' = "closed"
    BY <1>13, Zenon DEF CloseBlock
  <2>2. Reading /\ stage' \in {"nodes", "node", "closed"}
    BY <2>1 DEF Reading
  <2>3. QED
    BY <1>4, <1>5, <1>6, <1>13, <2>2, CloseKeepsReading
<1>14. CASE EndNode
  <2>1. Reading /\ stage' \in {"nodes", "node", "closed"}
    BY <1>14 DEF EndNode, CanEnd, Reading
  <2>2. QED
    BY <1>4, <1>5, <1>6, <1>14, <2>1, EndKeepsReading
<1>15. CASE Finish
  <2>1. /\ stage = "nodes" /\ open = <<>> /\ pos = Len(text) + 1 /\ stage' = "done"
        /\ nodes' = nodes
    BY <1>15 DEF Finish
  <2>2. Reading
    BY <2>1 DEF Reading
  <2>3. SaysAll(text, nodes, Lay)
    BY <1>5, <2>1, <2>2, FinishReads DEF NInv
  <2>4. Lay' = Lay
    BY <1>4, StillIs
  <2>5. ReadsBackWhatWasWritten'
    BY <1>1, <1>3, <2>1, <2>3, <2>4 DEF ReadsBackWhatWasWritten, Lay
  <2>6. ~Reading'
    BY <2>1 DEF Reading
  <2>7. QED
    BY <1>4, <2>5, <2>6 DEF RInv
<1>16. CASE Unclosed \/ Fail
  <2>1. stage = "nodes"
    BY <1>16, Zenon DEF Unclosed, Fail
  <2>2. QED
    BY <1>5, <1>16, <2>1, NothingFails DEF Reading
<1>17. CASE UNCHANGED vars
  <2>1. UNCHANGED <<text, pos, stage, nodes, open>>
    BY <1>17 DEF vars
  <2>2. CASE Reading
    <3>1. Going /\ pos \in Nat /\ pos' \in Nat
      BY <1>5, <2>1, <2>2, NamesRise
    <3>2. \A k \in Placed : Alike(Lay[k], pos, pos')
      BY <2>1 DEF Alike
    <3>3. \A i \in DOMAIN nodes : \E k \in Placed : ReadTo(text, nodes'[i], Lay[k], pos')
      BY <2>1, <3>1, NamesRise DEF ReadAs
    <3>4. Listed' /\ Stacked' /\ \A k \in Placed : IsNow(k)' <=> IsNow(k)
      BY <1>4, <2>1, <3>1, <3>2, <3>3, QuietKeepsReading
    <3>5. InStep'
      <4>1. Lay' = Lay /\ Placed' = Placed
        BY <1>4, StillIs
      <4>2. \A k \in Placed : Clear(k)' <=> Clear(k)
        BY <2>1, <4>1 DEF Clear
      <4>3. QED
        BY <2>1, <3>1, <3>4, <4>1, <4>2 DEF Going, InStep
    <3>6. QED
      BY <1>6, <2>1, <2>2, <3>4, <3>5 DEF Reading
  <2>3. CASE ~Reading
    <3>1. ReadsBackWhatWasWritten'
      BY <1>1, <2>1 DEF RInv, ReadsBackWhatWasWritten, Ended
    <3>2. QED
      BY <1>4, <2>1, <2>3, <3>1 DEF RInv, Reading
  <2>4. QED
    BY <2>2, <2>3
<1>18. QED
  BY <1>1, <1>7, <1>8, <1>9, <1>10, <1>11, <1>12, <1>13, <1>14, <1>15, <1>16, <1>17 DEF Next, Done

LEMMA WrittenBegins == WrittenInit => TypeOK /\ ReadInOrder /\ NInv /\ RInv
<1> SUFFICES ASSUME WrittenInit PROVE TypeOK /\ ReadInOrder /\ NInv /\ RInv
  OBVIOUS
<1>1. Begin /\ text \in Seq(Token)
  BY TextsAssumption, DocumentsAssumption DEF WrittenInit
<1>2. written.known => Well
  BY <1>1, DocumentsAssumption DEF WrittenInit, Well, Lay
<1>3. /\ nodes = <<>> /\ open = <<>> /\ stage = "nodes" /\ error = 0
      /\ pos = IF At(1, {"bom"}) THEN 2 ELSE 1
  BY <1>1 DEF Begin
<1>4. TypeOK
  <2>1. Len(text) \in Nat /\ DOMAIN text = 1..Len(text)
    BY <1>1
  <2>2. pos \in 1..(Len(text) + 1)
    BY <1>3, <2>1 DEF At
  <2>3. QED
    BY <1>1, <1>3, <2>2 DEF TypeOK
<1>5. ReadInOrder
  BY <1>3 DEF ReadInOrder
<1>6. NInv
  <2>1. DOMAIN nodes = {} /\ Opened = {}
    BY <1>3 DEF Opened, Depth
  <2>2. QED
    BY <1>3, <2>1 DEF NInv, Braced, Nested, ParentsAreTheBracesAround
<1>7. ASSUME Well PROVE InStep /\ Listed /\ Stacked
  <2>1. OnlyLines(text, Lay, pos)
    <3>1. Is(text, 1, {"bom"}) <=> At(1, {"bom"})
      BY IsAt
    <3>2. OnlyLines(text, Lay, IF Is(text, 1, {"bom"}) THEN 2 ELSE 1)
      BY <1>7 DEF Well, LaidOut
    <3>3. QED
      BY <1>3, <3>1, <3>2
  <2>2. ASSUME NEW k \in Placed
        PROVE  pos <= NodeBegin(Lay[k]) /\ ~Met(k) /\ ~InHand(k)
    <3>1. /\ NodeBegin(Lay[k]) \in 1..Lay[k].name /\ Lay[k].name \in 1..Len(text) /\ Len(text) \in Nat
          /\ Lay[k].brace \in Nat
          /\ Lay[k].brace # 0 => Lay[k].name < Lay[k].brace
      BY <1>7, PartsOf
    <3>2. At(NodeBegin(Lay[k]), Starts)
      BY <1>1, <1>7, LayIs, NodeIs
    <3>3. At(1, {"bom"}) => NodeBegin(Lay[k]) # 1
      BY <3>2 DEF At, Starts, Literal, Word
    <3>4. pos <= NodeBegin(Lay[k])
      BY <1>3, <3>1, <3>3
    <3>5. pos \in Nat
      BY <1>3
    <3>6. ~(Lay[k].name < pos) /\ (Lay[k].brace # 0 => ~(Lay[k].brace < pos))
      BY <3>1, <3>4, <3>5
    <3>7. QED
      BY <1>3, <3>4, <3>6 DEF Met, InHand, Entered, IsNow
  <2>3. InStep
    BY <1>3, <2>1, <2>2 DEF InStep, Clear, Outside
  <2>4. Listed /\ Stacked
    <3>1. DOMAIN nodes = {} /\ DOMAIN open = {}
      BY <1>3
    <3>2. QED
      BY <2>2, <3>1 DEF Listed, Stacked
  <2>5. QED
    BY <2>3, <2>4
<1>8. RInv
  BY <1>2, <1>3, <1>7 DEF RInv, ReadsBackWhatWasWritten, Ended
<1>9. QED
  BY <1>4, <1>5, <1>6, <1>8

\* A document that is laid out by the rules of Layouts is read without an error,
\* and the nodes that are read are what it says, no more and no less: their types,
\* names, arguments, properties, braces and parents (grammar.rs, nodes,
\* prop_or_arg_inner and braced_nodes), for every document of every size, with
\* slashdashes, comments and optional terminators anywhere the rules allow them.
THEOREM WrittenIsReadBack == WrittenSpec => []ReadsBackWhatWasWritten
<1> DEFINE WInv == TypeOK /\ ReadInOrder /\ NInv /\ RInv
<1>1. WrittenInit => WInv
  BY WrittenBegins
<1>2. WInv /\ [Next /\ UNCHANGED written]_<<vars, written>> => WInv'
  <2>1. [Next /\ UNCHANGED written]_<<vars, written>> => [Next]_vars
    BY Zenon DEF vars
  <2>2. QED
    BY <2>1, NextKeepsTypes, NextKeepsOrder, NextKeepsNesting, NextKeepsReading
<1>3. WInv => ReadsBackWhatWasWritten
  BY DEF RInv, ReadsBackWhatWasWritten
<1>4. QED
  BY <1>1, <1>2, <1>3, PTL DEF WrittenSpec

=============================================================================
