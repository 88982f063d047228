------------------------------ MODULE Layouts ------------------------------
(***************************************************************************)
(* What a document looks like: where in a text its nodes are, with their   *)
(* entries and their braces, and what may come between them; and what such *)
(* a document says.  Grammar says how a text is read; here nothing is      *)
(* read, and every rule is about a stretch of the text.                    *)
(***************************************************************************)
EXTENDS Grammar

\* Where an entry is: its slashdash, its key with the equals sign, its type
\* annotation and its literal, 0 for what is not there.
Item == [dash : Nat, key : Nat, equals : Nat, ty : Nat, at : Nat]
\* Where a node is; `hide` is the slashdash before its left brace.
Place == [dash : Nat, ty : Nat, name : Nat, items : Seq(Item),
          hide : Nat, brace : Nat, close : Nat]

Is(t, p, tokens) == p \in DOMAIN t /\ t[p] \in tokens
\* From p to the token before q.
Only(t, p, q, tokens) == p <= q /\ \A r \in p..(q - 1) : Is(t, r, tokens)

----------------------------------------------------------------------------
\* Entries and nodes by themselves

Outset(dash, start) == IF dash # 0 THEN dash ELSE start
DashIsAt(t, dash, start) ==
  dash # 0 => Is(t, dash, {"/-"}) /\ Only(t, dash + 1, start, LineSpace)
TypeIsAt(t, ty, at) == ty # 0 => Is(t, ty, {"ty"}) /\ Only(t, ty + 1, at, Blank)

ValueStart(i) == StartOf(i.ty, i.at)
ItemStart(i)  == IF i.key # 0 THEN i.key ELSE ValueStart(i)
ItemBegin(i)  == Outset(i.dash, ItemStart(i))
KeyIsAt(t, i) ==
  i.key # 0 => /\ Is(t, i.key, Word) /\ Only(t, i.key + 1, i.equals, Blank)
               /\ Is(t, i.equals, {"="}) /\ Only(t, i.equals + 1, ValueStart(i), Blank)
ItemIsAt(t, i) == /\ DashIsAt(t, i.dash, ItemStart(i)) /\ KeyIsAt(t, i)
                  /\ TypeIsAt(t, i.ty, i.at) /\ Is(t, i.at, Literal)

\* Behind the name or the entry before entry j; behind all of them.
Since(n, j) == IF j = 1 THEN n.name + 1 ELSE n.items[j - 1].at + 1
EntriesEnd(n) == Since(n, Len(n.items) + 1)
\* There is some space before each entry.
EntriesAreAt(t, n) ==
  \A j \in DOMAIN n.items :
    /\ ItemIsAt(t, n.items[j])
    /\ Only(t, Since(n, j), ItemBegin(n.items[j]), NodeSpace)
    /\ Since(n, j) # ItemBegin(n.items[j])

BlockBegin(n) == Outset(n.hide, n.brace)
BlockIsAt(t, n) ==
  n.brace # 0 => /\ Only(t, EntriesEnd(n), BlockBegin(n), NodeSpace)
                 /\ DashIsAt(t, n.hide, n.brace) /\ Is(t, n.brace, {"{"})
                 /\ n.brace < n.close /\ Is(t, n.close, {"}"})

NodeStart(n) == StartOf(n.ty, n.name)
NodeBegin(n) == Outset(n.dash, NodeStart(n))
NodeIsAt(t, n) == /\ DashIsAt(t, n.dash, NodeStart(n)) /\ TypeIsAt(t, n.ty, n.name)
                  /\ Is(t, n.name, Word) /\ EntriesAreAt(t, n) /\ BlockIsAt(t, n)

----------------------------------------------------------------------------
\* Nodes among each other

\* Behind all of a node but its children, and behind those.
HeadEnd(n) == IF n.brace # 0 THEN n.brace + 1 ELSE EntriesEnd(n)
NodeEnd(n) == IF n.brace # 0 THEN n.close + 1 ELSE EntriesEnd(n)

\* A node comes behind another one or is one of its children.
InTurn(a, b) == /\ HeadEnd(a) <= NodeBegin(b)
                /\ a.brace # 0 => a.close < NodeBegin(b) \/ NodeEnd(b) <= a.close

\* Where a node begins or children end, or the text.
Begins(lay) == {NodeBegin(lay[k]) : k \in DOMAIN lay}
Points(t, lay) == Begins(lay) \cup {Len(t) + 1}
                    \cup {lay[k].close : k \in {l \in DOMAIN lay : lay[l].brace # 0}}
NextPoint(t, lay, p, q) ==
  q \in Points(t, lay) /\ p <= q /\ \A r \in Points(t, lay) : r < p \/ q <= r

\* Before the first node of a document or of children are only lines of nothing.
OnlyLines(t, lay, p) ==
  \E q \in Points(t, lay) : NextPoint(t, lay, p, q) /\ Only(t, p, q, LineSpace)
\* A node ends with a line or a semicolon, and empty lines may follow.  It need
\* not if it has children, if nothing follows in its block, or if the next node
\* begins without a space, which no entry does.
EndsWell(t, lay, n) ==
  \E q \in Points(t, lay) : \E m \in NodeEnd(n)..q :
    /\ NextPoint(t, lay, NodeEnd(n), q) /\ Only(t, NodeEnd(n), m, NodeSpace)
    /\ \/ Is(t, m, Terminator) /\ Only(t, m + 1, q, LineSpace)
       \/ m = q /\ (n.brace # 0 \/ m = NodeEnd(n) \/ m \notin Begins(lay))

LaidOut(t, lay) ==
  /\ OnlyLines(t, lay, IF Is(t, 1, {"bom"}) THEN 2 ELSE 1)
  /\ \A k \in DOMAIN lay :
       /\ NodeIsAt(t, lay[k]) /\ EndsWell(t, lay, lay[k])
       /\ lay[k].brace # 0 => OnlyLines(t, lay, lay[k].brace + 1)
       /\ \A l \in DOMAIN lay : k < l => InTurn(lay[k], lay[l])

----------------------------------------------------------------------------
\* What a document says

\* A slashdash takes a node away with its children, or its children.
Within(n, p) == n.brace # 0 /\ n.brace < p /\ p < n.close
Kept(lay, k) ==
  /\ lay[k].dash = 0
  /\ \A j \in DOMAIN lay : Within(lay[j], lay[k].name) => lay[j].dash = 0 /\ lay[j].hide = 0

ItemsOf(n) == {n.items[j] : j \in DOMAIN n.items}
ArgsOf(items) ==
  {[ty |-> i.ty, at |-> i.at] : i \in {o \in items : o.dash = 0 /\ o.key = 0}}

\* The first and the last entry of each name among some properties.
Ends(t, props) ==
  {e \in props \X props :
     /\ t[e[1].key] = t[e[2].key]
     /\ \A o \in props : t[o.key] = t[e[1].key] => e[1].key <= o.key /\ o.key <= e[2].key}
\* A property has the key of the first and the value of the last of its name.
PropsOf(t, items) ==
  {[key |-> e[1].key, ty |-> e[2].ty, at |-> e[2].at] :
     e \in Ends(t, {o \in items : o.dash = 0 /\ o.key # 0})}

\* Node n of a list is what a place says, the order of its arguments and its
\* parent apart.
Says(t, n, place) ==
  /\ n.ty = place.ty /\ n.name = place.name
  /\ {n.args[i] : i \in DOMAIN n.args} = ArgsOf(ItemsOf(place))
  /\ n.props = PropsOf(t, ItemsOf(place))
  /\ n.block = IF place.brace # 0 /\ place.hide = 0 THEN <<place.brace, place.close>> ELSE <<>>

\* The parent of a node is the innermost of those it is within.
ParentIs(list, lay, n) ==
  LET around == {k \in DOMAIN lay : Within(lay[k], n.name)}
  IN  IF around = {} THEN n.parent = 0
      ELSE n.parent # 0 /\ list[n.parent].name = lay[Max(around)].name

\* The list has all nodes that are kept and nothing else, in the order of the
\* text, as their arguments are.
SaysAll(t, list, lay) ==
  /\ \A k \in DOMAIN lay : Kept(lay, k) <=> \E i \in DOMAIN list : list[i].name = lay[k].name
  /\ \A i \in DOMAIN list :
       /\ \E k \in DOMAIN lay : Says(t, list[i], lay[k])
       /\ ParentIs(list, lay, list[i])
       /\ \A j, k \in DOMAIN list[i].args : j < k => list[i].args[j].at < list[i].args[k].at
  /\ \A i, j \in DOMAIN list : i < j => list[i].name < list[j].name
=============================================================================
