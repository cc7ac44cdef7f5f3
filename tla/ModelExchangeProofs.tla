------------------------- MODULE ModelExchangeProofs -------------------------
(***************************************************************************)
(* The exchange of a model, proved for every network and every bound:      *)
(*   - cJSON_Print stays inside its buffer;                                *)
(*   - every variable has its type, and every list of the library, of the  *)
(*     sender or of the receiver, is linked as its loops rely on;          *)
(*   - nothing is leaked but what could not be added to the tree.          *)
(* The last two need to know where each item of either memory is: what the *)
(* calls of federatedLearningToJSON still have to add, what the frames of  *)
(* the parser hold, and that all else has an item before or around it.     *)
(***************************************************************************)
EXTENDS ModelExchange, WellFoundedInduction, SequenceTheorems, TLAPS

-----------------------------------------------------------------------------
(***************************************************************************)
(* The memory of items that both sides have. Nothing is ever moved in it:  *)
(* an item that is put into a list or into another item was made after     *)
(* what then points to it, so that every next and every child leads to a   *)
(* higher address. This is what makes the recursive definitions along      *)
(* lists and down into trees provable: what holds of an address whenever   *)
(* it holds of all above it holds of all.                                  *)
(***************************************************************************)

\* The addresses, and that which is none; the names that an item may have.
Cells == Addresses \cup {NULL}
Keys == Names \cup {NoKey}
TypedHeap(h) == HeapType(h, Names)
\* Another item has b after it or in it.
Pointed(h, b) == \E a \in Cells : h[a].next = b \/ h[a].child = b
\* An item that is not used is empty.  A next and a child are used and of a
\* higher address, a next knows the one before it, and nothing is after or in
\* two items.
Forest(h) ==
  /\ TypedHeap(h)
  /\ \A a \in Cells : h[a].type = "free" => h[a] = Free
  /\ h[NULL] = Free
  /\ \A a \in Cells : h[a].next # NULL =>
       a < h[a].next /\ h[a].next \in Allocated(h) /\ h[h[a].next].prev = a
  /\ \A a \in Cells : h[a].child # NULL => a < h[a].child /\ h[a].child \in Allocated(h)
  /\ \A a, b \in Cells : h[a].next # NULL => h[a].next # h[b].child
  /\ \A a, b \in Cells : h[a].child # NULL /\ h[a].child = h[b].child => a = b

\* H is the first and E the last item of the list that an item is of.
Chains(h, H, E) ==
  /\ H \in [Cells -> Cells] /\ E \in [Cells -> Cells]
  /\ \A b \in Cells : H[b] <= b /\ b <= E[b] /\ h[E[b]].next = NULL /\ H[E[b]] = H[b]
  /\ \A b \in Cells : h[b].next = NULL => E[b] = b
  /\ \A b \in Cells : h[b].next # NULL => E[h[b].next] = E[b] /\ H[h[b].next] = H[b]
  /\ \A b \in Cells : (\A a \in Cells : h[a].next # b) => H[b] = b

\* The first item of every list knows the last.
Closed(h, E) == \A a \in Cells : h[a].child # NULL => h[h[a].child].prev = E[h[a].child]
-----------------------------------------------------------------------------
LEMMA CellsAre == Cells = 0 .. Items /\ Items \in Nat /\ Items > 0 /\ NULL = 0
BY ItemsAssumption DEF Cells, Addresses, NULL

LEMMA FieldsAre ==
  ASSUME NEW h, TypedHeap(h)
  PROVE  /\ DOMAIN h = Cells
         /\ \A a \in Cells : /\ h[a].next \in Cells /\ h[a].prev \in Cells
                             /\ h[a].child \in Cells /\ h[a].key \in Keys
                             /\ h[a].value \in Int /\ h[a].type \in Types \cup {"free"}
         /\ Allocated(h) \subseteq Addresses
BY DEF TypedHeap, HeapType, Cells, Allocated, Keys

\* Induction over the natural numbers, for a set.
LEMMA SetInduction ==
    ASSUME NEW P, 0 \in P, \A n \in Nat : n \in P => n + 1 \in P
    PROVE  Nat \subseteq P
<1> DEFINE R == OpToRel(<, Nat)
           T == Nat \ P
<1>1. SUFFICES ASSUME T # {}
               PROVE  FALSE
  OBVIOUS
<1>2. \A x, y \in Nat : x < y => <<x, y>> \in R
  BY DEF OpToRel
<1>3. PICK m \in T : \A k \in T : <<k, m>> \notin R
  <2>1. IsWellFoundedOn(R, Nat) /\ T \subseteq Nat
    BY NatLessThanWellFounded
  <2> HIDE DEF R, T
  <2> QED
    BY <1>1, <2>1, WFMin
<1> HIDE DEF R
<1>4. m \in Nat /\ m # 0 /\ m - 1 \in Nat /\ m - 1 < m
  OBVIOUS
<1>5. m - 1 \in P
  BY <1>2, <1>3, <1>4
<1>6. (m - 1) + 1 \in P
  BY <1>4, <1>5
<1>7. QED
  BY <1>4, <1>6

\* What holds of a cell whenever it holds of all above it holds of every cell.
LEMMA Downward ==
  ASSUME NEW P, \A a \in Cells : (\A b \in Cells : a < b => b \in P) => a \in P
  PROVE  Cells \subseteq P
<1> DEFINE Q == {n \in Nat : \A b \in Cells : Items - n < b => b \in P}
<1>1. 0 \in Q
  BY CellsAre
<1>2. ASSUME NEW n \in Nat, n \in Q PROVE n + 1 \in Q
  <2>1. SUFFICES ASSUME NEW b \in Cells, Items - (n + 1) < b PROVE b \in P
    OBVIOUS
  <2>2. CASE Items - n < b
    BY <2>2, <1>2
  <2>3. CASE b = Items - n
    BY <2>3, <1>2
  <2>4. QED
    BY <2>1, <2>2, <2>3, CellsAre
<1>3. Nat \subseteq Q
  <2> HIDE DEF Q
  <2> QED BY <1>1, <1>2, SetInduction
<1>4. Items + 1 \in Nat
  BY CellsAre
<1>5. Items + 1 \in Q
  BY <1>3, <1>4
<1>6. ASSUME NEW b \in Cells PROVE b \in P
  <2>1. Items - (Items + 1) < b
    BY CellsAre
  <2>2. QED
    BY <1>5, <2>1
<1>7. QED
  BY <1>6

\* What holds of a cell whenever it holds of all below it holds of every
\* cell.
LEMMA Upward ==
  ASSUME NEW P, \A a \in Cells : (\A b \in Cells : b < a => b \in P) => a \in P
  PROVE  Cells \subseteq P
<1> DEFINE Q == {n \in Nat : \A b \in Cells : b < n => b \in P}
<1>1. 0 \in Q
  BY CellsAre
<1>2. ASSUME NEW n \in Nat, n \in Q PROVE n + 1 \in Q
  <2>1. SUFFICES ASSUME NEW b \in Cells, b < n + 1 PROVE b \in P
    OBVIOUS
  <2>2. CASE b < n
    BY <2>2, <1>2
  <2>3. CASE b = n
    BY <2>3, <1>2
  <2>4. QED
    BY <2>1, <2>2, <2>3, CellsAre
<1>3. Nat \subseteq Q
  <2> HIDE DEF Q
  <2> QED BY <1>1, <1>2, SetInduction
<1>4. Items + 1 \in Q
  BY <1>3, CellsAre
<1>5. QED
  BY <1>4, CellsAre
-----------------------------------------------------------------------------
\* The functions that Elements and Owned define exist, by this order.
ForwardIs(h) ==
  \A a \in Cells : /\ h[a].next \in Cells /\ (h[a].next # NULL => a < h[a].next)
                   /\ h[a].child \in Cells /\ (h[a].child # NULL => a < h[a].child)
ListOf(h, f, b) == IF b = NULL THEN <<>> ELSE <<b>> \o f[h[b].next]
Lists(h, f) == f = [b \in DOMAIN h |-> ListOf(h, f, b)]
ListsFrom(h, n, f) ==
  f = [b \in Cells |-> f[b]] /\ \A b \in Cells : b = NULL \/ Items - n < b => f[b] = ListOf(h, f, b)

LEMMA ListsExist ==
  ASSUME NEW h, DOMAIN h = Cells, ForwardIs(h)
  PROVE  \E f : Lists(h, f)
<1> DEFINE P == {n \in Nat : n <= Items => \E f : ListsFrom(h, n, f)}
<1>1. 0 \in P
  <2> DEFINE f == [b \in Cells |-> <<>>]
  <2>1. ListsFrom(h, 0, f)
    BY CellsAre DEF ListsFrom, ListOf
  <2>2. QED
    BY <2>1
<1>2. ASSUME NEW n \in Nat, n \in P PROVE n + 1 \in P
  <2>1. SUFFICES ASSUME n + 1 <= Items PROVE \E f : ListsFrom(h, n + 1, f)
    OBVIOUS
  <2>2. PICK f : ListsFrom(h, n, f)
    BY <1>2, <2>1, CellsAre
  <2> DEFINE c == Items - n
             g == [b \in Cells |-> IF b = c THEN <<c>> \o f[h[c].next] ELSE f[b]]
  <2>3. c \in Cells /\ c # NULL
    BY <2>1, CellsAre
  <2>4. ASSUME NEW b \in Cells, b = NULL \/ Items - (n + 1) < b
        PROVE  g[b] = ListOf(h, g, b)
    <3>1. CASE b = c
      <4>1. h[c].next \in Cells /\ h[c].next # c
        BY <2>3, CellsAre DEF ForwardIs
      <4>2. g[h[c].next] = f[h[c].next] /\ g[c] = <<c>> \o f[h[c].next]
        BY <4>1, <2>3
      <4>3. QED
        BY <3>1, <4>2, <2>3 DEF ListOf
    <3>2. CASE b # c
      <4>1. b = NULL \/ Items - n < b
        BY <2>4, <3>2, CellsAre
      <4>2. g[b] = ListOf(h, f, b)
        BY <2>2, <3>2, <4>1 DEF ListsFrom
      <4>3. CASE b = NULL
        BY <4>2, <4>3, SMTT(30) DEF ListOf
      <4>4. CASE b # NULL
        <5>1. h[b].next \in Cells /\ h[b].next # c
          BY <2>3, <4>1, <4>4, CellsAre DEF ForwardIs
        <5>2. g[h[b].next] = f[h[b].next]
          BY <5>1
        <5>3. QED
          BY <4>2, <4>4, <5>2 DEF ListOf
      <4>5. QED
        BY <4>3, <4>4
    <3>3. QED
      BY <3>1, <3>2
  <2>5. g = [b \in Cells |-> g[b]]
    OBVIOUS
  <2>6. ListsFrom(h, n + 1, g)
    <3> HIDE DEF g
    <3> QED BY <2>4, <2>5 DEF ListsFrom
  <2>7. QED
    BY <2>6
<1>3. Nat \subseteq P
  <2> HIDE DEF P
  <2> QED BY <1>1, <1>2, SetInduction
<1>4. PICK f : ListsFrom(h, Items, f)
  BY <1>3, CellsAre
<1>5. \A b \in Cells : b = NULL \/ Items - Items < b
  BY CellsAre
<1>6. \A b \in Cells : f[b] = ListOf(h, f, b)
  BY <1>4, <1>5 DEF ListsFrom
<1>7. Lists(h, f)
  BY <1>4, <1>6 DEF ListsFrom, Lists
<1>8. QED
  BY <1>7

\* So that Elements is what its recursion says it is.
LEMMA ElementsAre ==
  ASSUME NEW h, DOMAIN h = Cells, ForwardIs(h)
  PROVE  \E f : Lists(h, f) /\ \A a : Elements(h, a) = f[h[a].child]
<1> DEFINE g == CHOOSE f : Lists(h, f)
<1>1. Lists(h, g)
  BY ListsExist, Zenon
<1>2. \A a : Elements(h, a) = g[h[a].child]
  BY Zenon DEF Elements, Lists, ListOf
<1>3. QED
  BY <1>1, <1>2

OwnedOf(h, f, b) == IF b = NULL THEN {} ELSE {b} \cup f[h[b].child] \cup f[h[b].next]
Owners(h, f) == f = [b \in DOMAIN h |-> OwnedOf(h, f, b)]
OwnersFrom(h, n, f) ==
  f = [b \in Cells |-> f[b]] /\ \A b \in Cells : b = NULL \/ Items - n < b => f[b] = OwnedOf(h, f, b)

LEMMA OwnersExist ==
  ASSUME NEW h, DOMAIN h = Cells, ForwardIs(h)
  PROVE  \E f : Owners(h, f)
<1> DEFINE P == {n \in Nat : n <= Items => \E f : OwnersFrom(h, n, f)}
<1>1. 0 \in P
  <2> DEFINE f == [b \in Cells |-> {}]
  <2>1. OwnersFrom(h, 0, f)
    BY CellsAre DEF OwnersFrom, OwnedOf
  <2>2. QED
    BY <2>1
<1>2. ASSUME NEW n \in Nat, n \in P PROVE n + 1 \in P
  <2>1. SUFFICES ASSUME n + 1 <= Items PROVE \E f : OwnersFrom(h, n + 1, f)
    OBVIOUS
  <2>2. PICK f : OwnersFrom(h, n, f)
    BY <1>2, <2>1, CellsAre
  <2> DEFINE c == Items - n
             g == [b \in Cells |-> IF b = c THEN {c} \cup f[h[c].child] \cup f[h[c].next] ELSE f[b]]
  <2>3. c \in Cells /\ c # NULL
    BY <2>1, CellsAre
  <2>4. ASSUME NEW b \in Cells, b = NULL \/ Items - (n + 1) < b
        PROVE  g[b] = OwnedOf(h, g, b)
    <3>1. CASE b = c
      <4>1. h[c].next \in Cells /\ h[c].next # c /\ h[c].child \in Cells /\ h[c].child # c
        BY <2>3, CellsAre DEF ForwardIs
      <4>2. g[h[c].next] = f[h[c].next] /\ g[h[c].child] = f[h[c].child]
            /\ g[c] = {c} \cup f[h[c].child] \cup f[h[c].next]
        BY <4>1, <2>3
      <4>3. QED
        BY <3>1, <4>2, <2>3 DEF OwnedOf
    <3>2. CASE b # c
      <4>1. b = NULL \/ Items - n < b
        BY <2>4, <3>2, CellsAre
      <4>2. g[b] = OwnedOf(h, f, b)
        BY <2>2, <3>2, <4>1 DEF OwnersFrom
      <4>3. CASE b = NULL
        BY <4>2, <4>3 DEF OwnedOf
      <4>4. CASE b # NULL
        <5>1. h[b].next \in Cells /\ h[b].next # c /\ h[b].child \in Cells /\ h[b].child # c
          BY <2>3, <4>1, <4>4, CellsAre DEF ForwardIs
        <5>2. g[h[b].next] = f[h[b].next] /\ g[h[b].child] = f[h[b].child]
          BY <5>1
        <5>3. QED
          BY <4>2, <4>4, <5>2 DEF OwnedOf
      <4>5. QED
        BY <4>3, <4>4
    <3>3. QED
      BY <3>1, <3>2
  <2>5. g = [b \in Cells |-> g[b]]
    OBVIOUS
  <2>6. OwnersFrom(h, n + 1, g)
    <3> HIDE DEF g
    <3> QED BY <2>4, <2>5 DEF OwnersFrom
  <2>7. QED
    BY <2>6
<1>3. Nat \subseteq P
  <2> HIDE DEF P
  <2> QED BY <1>1, <1>2, SetInduction
<1>4. PICK f : OwnersFrom(h, Items, f)
  BY <1>3, CellsAre
<1>5. \A b \in Cells : b = NULL \/ Items - Items < b
  BY CellsAre
<1>6. \A b \in Cells : f[b] = OwnedOf(h, f, b)
  BY <1>4, <1>5 DEF OwnersFrom
<1>7. Owners(h, f)
  BY <1>4, <1>6 DEF OwnersFrom, Owners
<1>8. QED
  BY <1>7

\* So that Owned is what its recursion says it is.
LEMMA OwnedIs ==
  ASSUME NEW h, DOMAIN h = Cells, ForwardIs(h)
  PROVE  \E f : Owners(h, f) /\ \A a : Owned(h, a) = f[a]
<1> DEFINE g == CHOOSE f : Owners(h, f)
<1>1. Owners(h, g)
  BY OwnersExist, Zenon
<1>2. \A a : Owned(h, a) = g[a]
  BY Zenon DEF Owned, Owners, OwnedOf
<1>3. QED
  BY <1>1, <1>2

-----------------------------------------------------------------------------
(***************************************************************************)
(* What cJSON_Delete frees is the least set that has the item and all it   *)
(* points to.                                                              *)
(***************************************************************************)

LEMMA ForestIsForward ==
  ASSUME NEW h, Forest(h)
  PROVE  DOMAIN h = Cells /\ ForwardIs(h) /\ TypedHeap(h)
BY FieldsAre DEF Forest, ForwardIs

\* The recursion of Owned, as an equation.
LEMMA OwnedStep ==
  ASSUME NEW h, DOMAIN h = Cells, ForwardIs(h)
  PROVE  /\ Owned(h, NULL) = {}
         /\ \A a \in Addresses :
              Owned(h, a) = {a} \cup Owned(h, h[a].child) \cup Owned(h, h[a].next)
<1>1. PICK f : Owners(h, f) /\ \A a : Owned(h, a) = f[a]
  BY OwnedIs
<1>2. \A b \in Cells : f[b] = OwnedOf(h, f, b)
  BY <1>1 DEF Owners
<1>3. NULL \in Cells /\ \A a \in Addresses : a \in Cells /\ a # NULL
  BY DEF Cells, Addresses, NULL
<1>4. f[NULL] = {}
  BY <1>2, <1>3 DEF OwnedOf
<1>5. \A a \in Addresses : f[a] = {a} \cup f[h[a].child] \cup f[h[a].next]
  BY <1>2, <1>3 DEF OwnedOf
<1> HIDE DEF Owned
<1>6. QED
  BY <1>1, <1>4, <1>5

\* S has all that its cells point to.
Complete(h, S) ==
  \A b \in S : /\ b \in Addresses
               /\ h[b].next # NULL => h[b].next \in S
               /\ h[b].child # NULL => h[b].child \in S

\* A set that is complete has all that its items own.
LEMMA OwnedIsLeast ==
  ASSUME NEW h, DOMAIN h = Cells, ForwardIs(h), NEW S, Complete(h, S), NEW a \in S
  PROVE  Owned(h, a) \subseteq S
<1> DEFINE P == {c \in Cells : c \in S => Owned(h, c) \subseteq S}
<1>1. ASSUME NEW c \in Cells, \A b \in Cells : c < b => b \in P
      PROVE  c \in P
  <2>1. SUFFICES ASSUME c \in S PROVE Owned(h, c) \subseteq S
    OBVIOUS
  <2>2. c \in Addresses /\ Owned(h, c) = {c} \cup Owned(h, h[c].child) \cup Owned(h, h[c].next)
    BY <2>1, OwnedStep DEF Complete
  <2>3. Owned(h, h[c].child) \subseteq S
    <3>1. CASE h[c].child = NULL
      BY <3>1, OwnedStep
    <3>2. CASE h[c].child # NULL
      BY <1>1, <2>1, <3>2 DEF Complete, ForwardIs
    <3>3. QED
      BY <3>1, <3>2
  <2>4. Owned(h, h[c].next) \subseteq S
    <3>1. CASE h[c].next = NULL
      BY <3>1, OwnedStep
    <3>2. CASE h[c].next # NULL
      BY <1>1, <2>1, <3>2 DEF Complete, ForwardIs
    <3>3. QED
      BY <3>1, <3>2
  <2>5. QED
    BY <2>1, <2>2, <2>3, <2>4
<1>2. Cells \subseteq P
  <2> HIDE DEF P
  <2> QED BY <1>1, Downward
<1>3. a \in Cells
  BY DEF Complete, Cells
<1>4. QED
  BY <1>2, <1>3

\* What an item owns is complete, and has the item.
LEMMA OwnedIsComplete ==
  ASSUME NEW h, DOMAIN h = Cells, ForwardIs(h), NEW a \in Cells
  PROVE  Complete(h, Owned(h, a)) /\ (a # NULL => a \in Owned(h, a))
<1> DEFINE P == {c \in Cells : Complete(h, Owned(h, c)) /\ (c # NULL => c \in Owned(h, c))}
<1>1. ASSUME NEW c \in Cells, \A b \in Cells : c < b => b \in P
      PROVE  c \in P
  <2>1. CASE c = NULL
    BY <2>1, OwnedStep DEF Complete
  <2>2. CASE c # NULL
    <3> DEFINE x == h[c].child
               y == h[c].next
    <3>1. c \in Addresses /\ Owned(h, c) = {c} \cup Owned(h, x) \cup Owned(h, y)
      BY <2>2, OwnedStep DEF Cells
    <3>2. Complete(h, Owned(h, x)) /\ (x # NULL => x \in Owned(h, x))
      <4>1. CASE x = NULL
        BY <4>1, OwnedStep DEF Complete
      <4>2. CASE x # NULL
        BY <1>1, <4>2 DEF ForwardIs
      <4>3. QED
        BY <4>1, <4>2
    <3>3. Complete(h, Owned(h, y)) /\ (y # NULL => y \in Owned(h, y))
      <4>1. CASE y = NULL
        BY <4>1, OwnedStep DEF Complete
      <4>2. CASE y # NULL
        BY <1>1, <4>2 DEF ForwardIs
      <4>3. QED
        BY <4>1, <4>2
    <3>4. Complete(h, {c} \cup Owned(h, x) \cup Owned(h, y))
      BY <3>1, <3>2, <3>3 DEF Complete
    <3>5. QED
      BY <3>1, <3>4
  <2>3. QED
    BY <2>1, <2>2
<1>2. Cells \subseteq P
  <2> HIDE DEF P
  <2> QED BY <1>1, Downward
<1>3. QED
  BY <1>2

\* Only what is used is owned.
LEMMA OwnedIsAllocated ==
  ASSUME NEW h, Forest(h), NEW a, a = NULL \/ a \in Allocated(h)
  PROVE  Owned(h, a) \subseteq Allocated(h) /\ a \in Cells
<1>1. DOMAIN h = Cells /\ ForwardIs(h)
  BY ForestIsForward
<1>2. CASE a = NULL
  BY <1>1, <1>2, OwnedStep DEF Cells
<1>3. CASE a \in Allocated(h)
  <2>1. Complete(h, Allocated(h))
    BY DEF Complete, Allocated, Forest, Cells
  <2>2. QED
    BY <1>1, <1>3, <2>1, OwnedIsLeast DEF Allocated, Cells
<1>4. QED
  BY <1>2, <1>3

\* All that an item owns but itself is pointed to by what it owns.
LEMMA OwnedIsPointed ==
  ASSUME NEW h, Forest(h), NEW a \in Cells, NEW b \in Owned(h, a), b # a
  PROVE  \E p \in Owned(h, a) : h[p].next = b \/ h[p].child = b
<1> DEFINE O == Owned(h, a)
           S == {c \in O : c = a \/ \E p \in O : h[p].next = c \/ h[p].child = c}
<1>1. DOMAIN h = Cells /\ ForwardIs(h)
  BY ForestIsForward
<1>2. a # NULL
  BY <1>1, OwnedStep
<1>3. Complete(h, O) /\ a \in O
  BY <1>1, <1>2, OwnedIsComplete
<1> HIDE DEF O
<1>4. Complete(h, S) /\ a \in S
  BY <1>3 DEF Complete
<1>5. O \subseteq S
  <2> HIDE DEF S
  <2> QED BY <1>1, <1>4, OwnedIsLeast DEF O
<1>6. b \in S
  BY <1>5 DEF O
<1>7. QED
  BY <1>6 DEF O

\* All items are held by those that nothing points to.
LEMMA AllAreHeld ==
  ASSUME NEW h, Forest(h), NEW R, R \subseteq Allocated(h) \cup {NULL},
         \A b \in Allocated(h) : b \in R \/ Pointed(h, b)
  PROVE  Allocated(h) = Holds(h, R)
<1>1. DOMAIN h = Cells /\ ForwardIs(h)
  BY ForestIsForward
<1>2. \A r \in R : r \in Cells /\ Owned(h, r) \subseteq Allocated(h)
  BY OwnedIsAllocated
<1> DEFINE P == {b \in Cells : b \in Allocated(h) => \E r \in R : b \in Owned(h, r)}
<1>3. ASSUME NEW b \in Cells, \A c \in Cells : c < b => c \in P
      PROVE  b \in P
  <2>1. SUFFICES ASSUME b \in Allocated(h) PROVE \E r \in R : b \in Owned(h, r)
    OBVIOUS
  <2>2. b # NULL
    BY <2>1 DEF Allocated, Addresses, NULL
  <2>3. CASE b \in R
    BY <1>1, <2>2, <2>3, OwnedIsComplete
  <2>4. CASE Pointed(h, b)
    <3>1. PICK a \in Cells : h[a].next = b \/ h[a].child = b
      BY <2>4 DEF Pointed
    <3>2. a < b /\ a # NULL /\ a \in Allocated(h)
      <4>1. h[a] # Free
        BY <2>2, <3>1 DEF Free, Blank
      <4>2. QED
        BY <2>2, <3>1, <4>1 DEF Forest, Allocated, Cells
    <3>3. PICK r \in R : a \in Owned(h, r)
      BY <1>3, <3>2
    <3>4. Complete(h, Owned(h, r))
      BY <1>1, <1>2, OwnedIsComplete
    <3>5. QED
      BY <2>2, <3>1, <3>3, <3>4 DEF Complete
  <2>5. QED
    BY <2>1, <2>3, <2>4
<1>4. Cells \subseteq P
  <2> HIDE DEF P
  <2> QED BY <1>3, Upward
<1>5. Allocated(h) \subseteq Cells
  BY DEF Allocated, Cells
<1>6. QED
  BY <1>2, <1>4, <1>5 DEF Holds

-----------------------------------------------------------------------------
(***************************************************************************)
(* The elements of an item: a list as Linked wants it.                     *)
(***************************************************************************)

\* s are the items of a list from b to its end.
GoodList(h, E, b, s) ==
  /\ s \in Seq(Cells) /\ Len(s) >= 1 /\ s[1] = b
  /\ \A i \in 1 .. Len(s) : h[s[i]].type # "free"
  /\ \A i \in 2 .. Len(s) : h[s[i]].prev = s[i - 1]
  /\ h[s[Len(s)]].next = NULL /\ s[Len(s)] = E[b]

LEMMA ListsAreGood ==
  ASSUME NEW h, Forest(h), NEW H, NEW E, Chains(h, H, E), NEW f, Lists(h, f),
         NEW b \in Allocated(h)
  PROVE  GoodList(h, E, b, f[b])
<1> DEFINE P == {c \in Cells : c \in Allocated(h) => GoodList(h, E, c, f[c])}
<1>0. DOMAIN h = Cells /\ ForwardIs(h) /\ \A c \in Cells : f[c] = ListOf(h, f, c)
  BY ForestIsForward DEF Lists
<1>1. ASSUME NEW c \in Cells, \A d \in Cells : c < d => d \in P
      PROVE  c \in P
  <2>1. SUFFICES ASSUME c \in Allocated(h) PROVE GoodList(h, E, c, f[c])
    OBVIOUS
  <2>2. c # NULL /\ f[c] = <<c>> \o f[h[c].next] /\ h[c].type # "free"
    <3>1. c # NULL /\ h[c].type # "free"
      BY <2>1 DEF Allocated, Addresses, NULL
    <3>2. f[c] = ListOf(h, f, c)
      BY <1>0
    <3>3. QED
      BY <3>1, <3>2 DEF ListOf
  <2>3. CASE h[c].next = NULL
    <3>1. f[NULL] = <<>> /\ NULL \in Cells
      BY <1>0 DEF ListOf, Cells
    <3>2. f[c] = <<c>>
      BY <2>2, <2>3, <3>1
    <3>3. E[c] = c
      BY <2>3 DEF Chains
    <3>4. QED
      <4>1. <<c>> \in Seq(Cells) /\ Len(<<c>>) = 1 /\ <<c>>[1] = c
        OBVIOUS
      <4>2. ASSUME NEW s, s \in Seq(Cells), Len(s) = 1, s[1] = c
            PROVE  GoodList(h, E, c, s)
        BY <2>2, <2>3, <3>3, <4>2 DEF GoodList
      <4>3. GoodList(h, E, c, <<c>>)
        BY <4>1, <4>2
      <4>4. QED
        BY <3>2, <4>3
  <2>4. CASE h[c].next # NULL
    <3> DEFINE n == h[c].next
               t == f[n]
               s == f[c]
    <3>1. n \in Cells /\ c < n /\ n \in Allocated(h) /\ h[n].prev = c
      BY <1>0, <2>4 DEF Forest, ForwardIs
    <3>2. GoodList(h, E, n, t)
      BY <1>1, <3>1
    <3>3. E[n] = E[c]
      BY <2>4 DEF Chains
    <3>4. s = <<c>> \o t /\ t \in Seq(Cells) /\ Len(t) \in Nat /\ Len(t) >= 1
      BY <2>2, <3>2 DEF GoodList
    <3> HIDE DEF s, t, n
    <3>5. /\ s \in Seq(Cells) /\ Len(s) = Len(t) + 1 /\ s[1] = c
          /\ \A i \in 2 .. Len(s) : s[i] = t[i - 1]
      BY <3>4
    <3>6. \A i \in 1 .. Len(s) : h[s[i]].type # "free"
      <4>1. SUFFICES ASSUME NEW i \in 1 .. Len(s) PROVE h[s[i]].type # "free"
        OBVIOUS
      <4>2. CASE i = 1
        BY <4>2, <3>5, <2>2
      <4>3. CASE i # 1
        <5>1. i \in 2 .. Len(s) /\ i - 1 \in 1 .. Len(t)
          BY <4>1, <4>3, <3>4, <3>5
        <5>2. QED
          BY <5>1, <3>2, <3>5 DEF GoodList
      <4>4. QED
        BY <4>2, <4>3
    <3>7. \A i \in 2 .. Len(s) : h[s[i]].prev = s[i - 1]
      <4>1. SUFFICES ASSUME NEW i \in 2 .. Len(s) PROVE h[s[i]].prev = s[i - 1]
        OBVIOUS
      <4>2. CASE i = 2
        <5>1. s[i] = n /\ s[i - 1] = c
          BY <4>1, <4>2, <3>2, <3>5 DEF GoodList
        <5>2. QED
          BY <5>1, <3>1
      <4>3. CASE i # 2
        <5>1. i - 1 \in 2 .. Len(s) /\ i - 1 \in 2 .. Len(t)
          BY <4>1, <4>3, <3>4, <3>5
        <5>2. s[i] = t[i - 1] /\ s[i - 1] = t[i - 1 - 1]
          BY <4>1, <5>1, <3>5
        <5>3. QED
          BY <5>1, <5>2, <3>2 DEF GoodList
      <4>4. QED
        BY <4>2, <4>3
    <3>8. s[Len(s)] = t[Len(t)]
      <4>1. Len(s) \in 2 .. Len(s) /\ Len(s) - 1 = Len(t)
        BY <3>4, <3>5
      <4>2. QED
        BY <4>1, <3>5
    <3>9. h[s[Len(s)]].next = NULL /\ s[Len(s)] = E[c]
      BY <3>2, <3>3, <3>8 DEF GoodList
    <3>10. Len(s) >= 1
      BY <3>4, <3>5
    <3>11. QED
      BY <3>5, <3>6, <3>7, <3>9, <3>10 DEF GoodList, s
  <2>5. QED
    BY <2>3, <2>4
<1>2. Cells \subseteq P
  <2> HIDE DEF P
  <2> QED BY <1>1, Downward
<1>3. b \in Cells
  BY DEF Allocated, Cells
<1>4. QED
  BY <1>2, <1>3

\* Every list is linked as the library needs it.
LEMMA AllAreLinked ==
  ASSUME NEW h, Forest(h), NEW H, NEW E, Chains(h, H, E), Closed(h, E),
         NEW a \in Cells
  PROVE  Linked(h, a)
<1>1. DOMAIN h = Cells /\ ForwardIs(h)
  BY ForestIsForward
<1>2. PICK f : Lists(h, f) /\ \A b : Elements(h, b) = f[h[b].child]
  BY <1>1, ElementsAre
<1> DEFINE c == h[a].child
           s == f[c]
<1>3. Elements(h, a) = s
  BY <1>2
<1>4. CASE c = NULL
  <2>1. s = <<>>
    BY <1>1, <1>2, <1>4 DEF Lists, ListOf, Cells
  <2> HIDE DEF s, c
  <2>2. QED
    BY <1>3, <2>1 DEF Linked
<1>5. CASE c # NULL
  <2>1. c \in Allocated(h) /\ h[c].prev = E[c]
    BY <1>5 DEF Forest, Closed
  <2>2. GoodList(h, E, c, s)
    BY <1>2, <2>1, ListsAreGood
  <2> HIDE DEF s, c
  <2>3. ASSUME NEW i \in DOMAIN s
        PROVE  /\ h[s[i]].type # "free"
               /\ h[s[i]].prev = IF i = 1 THEN s[Len(s)] ELSE s[i - 1]
               /\ h[s[Len(s)]].next = NULL
    <3>1. i \in 1 .. Len(s) /\ (i # 1 => i \in 2 .. Len(s))
      BY <2>2 DEF GoodList
    <3>2. QED
      BY <3>1, <2>1, <2>2 DEF GoodList
  <2>4. QED
    BY <1>3, <2>3 DEF Linked
<1>6. QED
  BY <1>4, <1>5

-----------------------------------------------------------------------------
(***************************************************************************)
(* What changes a memory: items are given another content, a list one      *)
(* more item.                                                              *)
(***************************************************************************)

\* No item but of another type, name or value, or used for the first time.
Relabelled(h, g) ==
  /\ TypedHeap(g) /\ g[NULL] = Free /\ Allocated(h) \subseteq Allocated(g)
  /\ \A a \in Cells : /\ g[a].next = h[a].next /\ g[a].prev = h[a].prev
                      /\ g[a].child = h[a].child
                      /\ g[a].type = "free" => g[a] = Free

LEMMA RelabelledForest ==
  ASSUME NEW h, Forest(h), NEW g, Relabelled(h, g)
  PROVE  /\ Forest(g)
         /\ \A b : Pointed(g, b) <=> Pointed(h, b)
         /\ \A H, E : Chains(h, H, E) => Chains(g, H, E)
         /\ \A E : E \in [Cells -> Cells] /\ Closed(h, E) => Closed(g, E)
<1>1. Forest(g)
  <2>1. \A a \in Cells : h[a].next \in Cells /\ h[a].child \in Cells
    BY FieldsAre DEF Forest
  <2>2. \A a \in Cells : g[a].next # NULL =>
          a < g[a].next /\ g[a].next \in Allocated(g) /\ g[g[a].next].prev = a
    BY <2>1 DEF Forest, Relabelled
  <2>3. \A a \in Cells : g[a].child # NULL => a < g[a].child /\ g[a].child \in Allocated(g)
    BY <2>1 DEF Forest, Relabelled
  <2>4. /\ \A a, b \in Cells : g[a].next # NULL => g[a].next # g[b].child
        /\ \A a, b \in Cells : g[a].child # NULL /\ g[a].child = g[b].child => a = b
    BY DEF Forest, Relabelled
  <2>5. QED
    BY <2>2, <2>3, <2>4 DEF Forest, Relabelled
<1>2. \A b : Pointed(g, b) <=> Pointed(h, b)
  BY DEF Pointed, Relabelled
<1>3. ASSUME NEW H, NEW E, Chains(h, H, E) PROVE Chains(g, H, E)
  <2>1. \A b \in Cells : E[b] \in Cells
    BY <1>3 DEF Chains
  <2>2. QED
    BY <1>3, <2>1 DEF Chains, Relabelled
<1>4. ASSUME NEW E, E \in [Cells -> Cells], Closed(h, E) PROVE Closed(g, E)
  <2>1. \A a \in Cells : h[a].child \in Cells
    BY FieldsAre DEF Forest
  <2>2. QED
    BY <1>4, <2>1 DEF Closed, Relabelled
<1>5. QED
  BY <1>1, <1>2, <1>3, <1>4

\* suffix_object: x comes after z.
Suffixed(h, g, z, x) ==
  /\ TypedHeap(g)
  /\ \A a \in Cells : /\ g[a].type = h[a].type /\ g[a].child = h[a].child
                      /\ g[a].next = IF a = z THEN x ELSE h[a].next
                      /\ g[a].prev = IF a = x THEN z ELSE h[a].prev
                      /\ a # z /\ a # x => g[a] = h[a]

LEMMA SuffixIsSuffixed ==
  ASSUME NEW h, TypedHeap(h), NEW z \in Addresses, NEW x \in Addresses
  PROVE  Suffixed(h, suffix_object(h, z, x), z, x)
BY DEF Suffixed, suffix_object, TypedHeap, HeapType, Cells

\* The list that z ends goes on to x.
Longer(H, E, z, x, H2, E2) ==
  /\ H2 \in [Cells -> Cells] /\ E2 \in [Cells -> Cells]
  /\ \A b \in Cells : H2[b] = IF b = x THEN H[z] ELSE H[b]
  /\ \A b \in Cells : E2[b] = IF E[b] = z THEN x ELSE E[b]

\* An item that is alone and younger may be put at the end of a list.
LEMMA SuffixedForest ==
  ASSUME NEW h, Forest(h), NEW H, NEW E, Chains(h, H, E),
         NEW z \in Allocated(h), NEW x \in Allocated(h), h[z].next = NULL,
         ~Pointed(h, x), h[x].next = NULL, z < x, NEW g, Suffixed(h, g, z, x),
         NEW H2, NEW E2, Longer(H, E, z, x, H2, E2)
  PROVE  /\ Forest(g) /\ Allocated(g) = Allocated(h)
         /\ \A b : Pointed(g, b) <=> b = x \/ Pointed(h, b)
         /\ Chains(g, H2, E2)
<1>0. /\ z \in Cells /\ x \in Cells /\ z \in Addresses /\ x \in Addresses
      /\ z # NULL /\ x # NULL /\ z # x
  BY CellsAre DEF Allocated, Cells, Addresses, NULL
<1>1. Allocated(g) = Allocated(h)
  BY DEF Allocated, Suffixed, Cells
<1>2. Forest(g)
  <2>1. TypedHeap(g) /\ g[NULL] = Free
    BY <1>0 DEF Forest, Suffixed, Cells
  <2>2. \A a \in Cells : g[a].type = "free" => g[a] = Free
    BY <1>0 DEF Forest, Suffixed, Allocated
  <2>3. ASSUME NEW a \in Cells, g[a].next # NULL
        PROVE  a < g[a].next /\ g[a].next \in Allocated(g) /\ g[g[a].next].prev = a
    <3>1. CASE a = z
      BY <1>0, <1>1, <3>1 DEF Suffixed
    <3>2. CASE a # z
      <4>1. g[a].next = h[a].next /\ h[a].next \in Cells
        BY <3>2, FieldsAre DEF Suffixed, Forest
      <4>2. h[a].next # x
        BY DEF Pointed
      <4>3. QED
        BY <1>1, <2>3, <4>1, <4>2 DEF Suffixed, Forest
    <3>3. QED
      BY <3>1, <3>2
  <2>4. \A a \in Cells : g[a].child # NULL => a < g[a].child /\ g[a].child \in Allocated(g)
    BY <1>1 DEF Suffixed, Forest
  <2>5. \A a, b \in Cells : g[a].next # NULL => g[a].next # g[b].child
    BY DEF Suffixed, Forest, Pointed
  <2>6. \A a, b \in Cells : g[a].child # NULL /\ g[a].child = g[b].child => a = b
    BY DEF Suffixed, Forest
  <2>7. QED
    BY <2>1, <2>2, <2>3, <2>4, <2>5, <2>6 DEF Forest
<1>3. \A b : Pointed(g, b) <=> b = x \/ Pointed(h, b)
  <2>1. ASSUME NEW b, Pointed(g, b) PROVE b = x \/ Pointed(h, b)
    BY <2>1 DEF Pointed, Suffixed
  <2>2. Pointed(g, x)
    BY <1>0 DEF Pointed, Suffixed
  <2>3. ASSUME NEW b, Pointed(h, b) PROVE Pointed(g, b)
    <3>1. PICK a \in Cells : h[a].next = b \/ h[a].child = b
      BY <2>3 DEF Pointed
    <3>2. CASE b # NULL
      <4>1. h[z].next # b
        BY <3>2
      <4>2. QED
        BY <3>1, <4>1 DEF Pointed, Suffixed
    <3>3. CASE b = NULL
      <4>1. NULL \in Cells /\ h[NULL].next = NULL /\ NULL # z
        BY <1>0 DEF Forest, Free, Blank, Cells
      <4>2. g[NULL].next = NULL
        BY <4>1 DEF Suffixed
      <4>3. QED
        BY <3>3, <4>1, <4>2 DEF Pointed
    <3>4. QED
      BY <3>2, <3>3
  <2>4. QED
    BY <2>1, <2>2, <2>3
<1>4. Chains(g, H2, E2)
  <2>1. H \in [Cells -> Cells] /\ E \in [Cells -> Cells]
    BY DEF Chains
  <2>3. /\ \A b \in Cells : H2[b] = IF b = x THEN H[z] ELSE H[b]
        /\ \A b \in Cells : E2[b] = IF E[b] = z THEN x ELSE E[b]
    BY DEF Longer
  <2>4. H[x] = x /\ E[x] = x /\ E[z] = z
    <3>1. \A a \in Cells : h[a].next # x
      BY DEF Pointed
    <3>2. QED
      BY <1>0, <3>1 DEF Chains
  <2>5. \A b \in Cells : E[b] = x => b = x
    <3>1. SUFFICES ASSUME NEW b \in Cells, E[b] = x PROVE b = x
      OBVIOUS
    <3>2. H[b] = H[x]
      BY <3>1 DEF Chains
    <3>3. H[b] <= b /\ b <= E[b]
      BY DEF Chains
    <3>4. QED
      BY <1>0, <2>4, <3>1, <3>2, <3>3, CellsAre
  <2>6. ASSUME NEW b \in Cells
        PROVE  H2[b] <= b /\ b <= E2[b] /\ g[E2[b]].next = NULL /\ H2[E2[b]] = H2[b]
    <3>1. H[b] <= b /\ b <= E[b] /\ h[E[b]].next = NULL /\ H[E[b]] = H[b]
          /\ E[b] \in Cells /\ H[b] \in Cells /\ H[z] <= z /\ H[z] \in Cells
      BY <1>0, <2>1 DEF Chains
    <3>2. CASE E[b] = z
      <4>1. E2[b] = x /\ b # x
        BY <2>3, <2>4, <3>2, <1>0
      <4>2. b <= x
        BY <3>1, <3>2, <1>0, CellsAre
      <4>3. g[x].next = NULL
        BY <1>0 DEF Suffixed
      <4>4. H2[x] = H[z] /\ H2[b] = H[b]
        BY <1>0, <2>3, <4>1
      <4>5. QED
        BY <3>1, <3>2, <4>1, <4>2, <4>3, <4>4
    <3>3. CASE E[b] # z
      <4>1. E2[b] = E[b] /\ g[E[b]].next = NULL
        BY <2>3, <3>1, <3>3 DEF Suffixed
      <4>2. CASE b = x
        <5>1. E2[b] = x /\ H2[b] = H[z]
          BY <1>0, <2>3, <2>4, <4>1, <4>2
        <5>2. H[z] <= x
          BY <1>0, <3>1, CellsAre
        <5>3. QED
          BY <4>1, <4>2, <5>1, <5>2, <3>1
      <4>3. CASE b # x
        <5>1. E[b] # x
          BY <2>5, <4>3
        <5>2. H2[E[b]] = H[E[b]] /\ H2[b] = H[b]
          BY <2>3, <3>1, <4>3, <5>1
        <5>3. QED
          BY <3>1, <4>1, <5>2
      <4>4. QED
        BY <4>2, <4>3
    <3>4. QED
      BY <3>2, <3>3
  <2>7. ASSUME NEW b \in Cells, g[b].next = NULL PROVE E2[b] = b
    <3>1. b # z /\ h[b].next = NULL
      BY <1>0, <2>7 DEF Suffixed
    <3>2. E[b] = b
      BY <3>1 DEF Chains
    <3>3. QED
      BY <2>3, <3>1, <3>2
  <2>8. ASSUME NEW b \in Cells, g[b].next # NULL
        PROVE  E2[g[b].next] = E2[b] /\ H2[g[b].next] = H2[b]
    <3>1. CASE b = z
      <4>1. g[b].next = x /\ E[x] # z /\ E[b] = z
        BY <1>0, <2>4, <3>1 DEF Suffixed
      <4>2. E2[x] = x /\ E2[b] = x /\ H2[x] = H[z] /\ H2[b] = H[z]
        BY <1>0, <2>3, <2>4, <3>1, <4>1
      <4>3. QED
        BY <4>1, <4>2
    <3>2. CASE b # z
      <4> DEFINE n == h[b].next
      <4>1. g[b].next = n /\ n # NULL /\ n \in Cells /\ n # x
        BY <2>8, <3>2, FieldsAre DEF Suffixed, Forest, Pointed
      <4>2. E[n] = E[b] /\ H[n] = H[b] /\ b # x
        BY <4>1 DEF Chains
      <4> HIDE DEF n
      <4>3. QED
        BY <2>3, <4>1, <4>2
    <3>3. QED
      BY <3>1, <3>2
  <2>9. ASSUME NEW b \in Cells, \A a \in Cells : g[a].next # b PROVE H2[b] = b
    <3>1. b # x
      BY <1>0, <2>9 DEF Suffixed
    <3>2. CASE b # NULL
      <4>1. \A a \in Cells : h[a].next # b
        BY <2>9, <3>2 DEF Suffixed
      <4>2. QED
        BY <2>3, <3>1, <4>1 DEF Chains
    <3>3. CASE b = NULL
      <4>1. H[b] <= b /\ H[b] \in Cells
        BY <2>1 DEF Chains
      <4>2. QED
        BY <2>3, <3>1, <3>3, <4>1, CellsAre
    <3>4. QED
      BY <3>2, <3>3
  <2>10. QED
    BY <2>6, <2>7, <2>8, <2>9 DEF Chains, Longer
<1>5. QED
  BY <1>1, <1>2, <1>3, <1>4

-----------------------------------------------------------------------------
(***************************************************************************)
(* What changes a memory: the first of a list knows another last one, an   *)
(* item has its first child.                                               *)
(***************************************************************************)

\* Nothing points to x, and nothing follows it.
Alone(h, x) == x \in Allocated(h) /\ ~Pointed(h, x) /\ h[x].next = NULL
\* What every memory of items is.
Memory(h, H, E) == Forest(h) /\ Chains(h, H, E) /\ Closed(h, E)

LEMMA AllocatedAreCells ==
  ASSUME NEW h, NEW a \in Allocated(h)
  PROVE  a \in Cells /\ a \in Addresses /\ a # NULL /\ h[a].type # "free"
BY DEF Allocated, Cells, Addresses, NULL

\* A list is known by its end.
LEMMA EndsAre ==
  ASSUME NEW h, Forest(h), NEW H, NEW E, Chains(h, H, E),
         NEW c \in Cells, \A a \in Cells : h[a].next # c
  PROVE  /\ \A d \in Cells : (\A a \in Cells : h[a].next # d) /\ E[c] = E[d] => c = d
         /\ E[c] # c => \E a \in Cells : h[a].next = E[c]
<1>1. H[c] = c /\ H[E[c]] = c /\ c <= E[c] /\ E[c] \in Cells
  BY DEF Chains
<1>2. ASSUME NEW d \in Cells, \A a \in Cells : h[a].next # d, E[c] = E[d]
      PROVE  c = d
  <2>1. H[d] = d /\ H[E[d]] = H[d]
    BY <1>2 DEF Chains
  <2>2. QED
    BY <1>1, <1>2, <2>1
<1>3. ASSUME \A a \in Cells : h[a].next # E[c] PROVE E[c] = c
  <2>1. H[E[c]] = E[c]
    BY <1>1, <1>3 DEF Chains
  <2>2. QED
    BY <1>1, <2>1
<1>4. QED
  BY <1>2, <1>3

LEMMA EndIsAllocated ==
  ASSUME NEW h, Forest(h), NEW H, NEW E, Chains(h, H, E), NEW c \in Allocated(h)
  PROVE  E[c] \in Allocated(h)
<1> DEFINE P == {b \in Cells : b \in Allocated(h) => E[b] \in Allocated(h)}
<1>1. ASSUME NEW b \in Cells, \A d \in Cells : b < d => d \in P
      PROVE  b \in P
  <2>1. CASE h[b].next = NULL
    BY <2>1 DEF Chains
  <2>2. CASE h[b].next # NULL
    <3>1. h[b].next \in Allocated(h) /\ b < h[b].next /\ E[h[b].next] = E[b]
      BY <2>2 DEF Forest, Chains
    <3>2. h[b].next \in P
      BY <1>1, <3>1, AllocatedAreCells
    <3>3. QED
      BY <3>1, <3>2
  <2>3. QED
    BY <2>1, <2>2
<1>2. Cells \subseteq P
  <2> HIDE DEF P
  <2> QED BY <1>1, Downward
<1>3. QED
  BY <1>2, AllocatedAreCells

\* The end of the list that c begins is known to something, or c.
LEMMA EndIsPointed ==
  ASSUME NEW h, Forest(h), NEW H, NEW E, Chains(h, H, E),
         NEW c \in Cells, \A a \in Cells : h[a].next # c, c # E[c]
  PROVE  Pointed(h, E[c])
BY EndsAre DEF Pointed

\* Only prev of the first of a list changes.
Backed(h, g, c, v) ==
  /\ TypedHeap(g)
  /\ \A a \in Cells : /\ g[a].type = h[a].type /\ g[a].child = h[a].child
                      /\ g[a].next = h[a].next
                      /\ g[a].prev = IF a = c THEN v ELSE h[a].prev
                      /\ a # c => g[a] = h[a]
LEMMA BackedForest ==
  ASSUME NEW h, Forest(h), NEW c \in Allocated(h), NEW v, \A a \in Cells : h[a].next # c,
         NEW g, Backed(h, g, c, v)
  PROVE  /\ Forest(g) /\ Allocated(g) = Allocated(h)
         /\ \A b : Pointed(g, b) <=> Pointed(h, b)
         /\ \A H, E : Chains(h, H, E) => Chains(g, H, E)
<1>0. c \in Cells /\ c # NULL /\ h[c].type # "free" /\ NULL \in Cells
  BY AllocatedAreCells DEF Cells
<1>1. Allocated(g) = Allocated(h)
  BY DEF Allocated, Backed, Cells
<1>2. Forest(g)
  <2>1. TypedHeap(g) /\ g[NULL] = Free
    BY <1>0 DEF Forest, Backed
  <2>2. \A a \in Cells : g[a].type = "free" => g[a] = Free
    BY <1>0 DEF Forest, Backed
  <2>3. ASSUME NEW a \in Cells, g[a].next # NULL
        PROVE  a < g[a].next /\ g[a].next \in Allocated(g) /\ g[g[a].next].prev = a
    <3>1. g[a].next = h[a].next /\ h[a].next \in Cells /\ h[a].next # c
      BY FieldsAre DEF Backed, Forest
    <3>2. QED
      BY <1>1, <2>3, <3>1 DEF Backed, Forest
  <2>4. \A a \in Cells : g[a].child # NULL => a < g[a].child /\ g[a].child \in Allocated(g)
    BY <1>1 DEF Backed, Forest
  <2>5. \A a, b \in Cells : g[a].next # NULL => g[a].next # g[b].child
    BY DEF Backed, Forest
  <2>6. \A a, b \in Cells : g[a].child # NULL /\ g[a].child = g[b].child => a = b
    BY DEF Backed, Forest
  <2>7. QED
    BY <2>1, <2>2, <2>3, <2>4, <2>5, <2>6 DEF Forest
<1>3. \A b : Pointed(g, b) <=> Pointed(h, b)
  BY DEF Pointed, Backed
<1>4. ASSUME NEW H, NEW E, Chains(h, H, E) PROVE Chains(g, H, E)
  <2>1. \A b \in Cells : E[b] \in Cells
    BY <1>4 DEF Chains
  <2>2. QED
    BY <1>4, <2>1 DEF Chains, Backed
<1>5. QED
  BY <1>1, <1>2, <1>3, <1>4

\* Only an item without a child changes: it has one, or none, and any type.
Parented(h, g, p, x) ==
  /\ TypedHeap(g) /\ g[p].type # "free"
  /\ \A a \in Cells : /\ g[a].child = IF a = p THEN x ELSE h[a].child
                      /\ g[a].next = h[a].next /\ g[a].prev = h[a].prev
                      /\ a # p => g[a] = h[a]
LEMMA ParentedForest ==
  ASSUME NEW h, Forest(h), NEW p \in Allocated(h), h[p].child = NULL,
         NEW x \in Allocated(h), ~Pointed(h, x), p < x,
         NEW g, Parented(h, g, p, x)
  PROVE  /\ Forest(g) /\ Allocated(g) = Allocated(h)
         /\ \A b : b # NULL => (Pointed(g, b) <=> b = x \/ Pointed(h, b))
         /\ \A H, E : Chains(h, H, E) => Chains(g, H, E)
<1>0. p \in Cells /\ p # NULL /\ h[p].type # "free" /\ NULL \in Cells /\ x \in Cells /\ x # NULL
  BY AllocatedAreCells DEF Cells
<1>1. Allocated(g) = Allocated(h)
  BY <1>0 DEF Allocated, Parented, Cells
<1>2. Forest(g)
  <2>1. TypedHeap(g) /\ g[NULL] = Free
    BY <1>0 DEF Forest, Parented
  <2>2. \A a \in Cells : g[a].type = "free" => g[a] = Free
    BY <1>0 DEF Forest, Parented
  <2>3. ASSUME NEW a \in Cells, g[a].next # NULL
        PROVE  a < g[a].next /\ g[a].next \in Allocated(g) /\ g[g[a].next].prev = a
    <3>1. g[a].next = h[a].next /\ h[a].next \in Cells
      BY FieldsAre DEF Parented, Forest
    <3>2. QED
      BY <1>1, <2>3, <3>1 DEF Parented, Forest
  <2>4. \A a \in Cells : g[a].child # NULL => a < g[a].child /\ g[a].child \in Allocated(g)
    BY <1>1 DEF Parented, Forest
  <2>5. \A a, b \in Cells : g[a].next # NULL => g[a].next # g[b].child
    BY DEF Parented, Forest, Pointed
  <2>6. \A a, b \in Cells : g[a].child # NULL /\ g[a].child = g[b].child => a = b
    BY DEF Parented, Forest, Pointed
  <2>7. QED
    BY <2>1, <2>2, <2>3, <2>4, <2>5, <2>6 DEF Forest
<1>3. \A b : b # NULL => (Pointed(g, b) <=> b = x \/ Pointed(h, b))
  BY <1>0 DEF Pointed, Parented
<1>4. ASSUME NEW H, NEW E, Chains(h, H, E) PROVE Chains(g, H, E)
  <2>1. \A b \in Cells : E[b] \in Cells
    BY <1>4 DEF Chains
  <2>2. QED
    BY <1>4, <2>1 DEF Chains, Parented
<1>5. QED
  BY <1>1, <1>2, <1>3, <1>4

-----------------------------------------------------------------------------
(***************************************************************************)
(* cJSON_AddItemToArray, with an item that is alone and younger than the   *)
(* list.                                                                   *)
(***************************************************************************)

\* What appending x to the list of p leaves of the memory.
Joined(h, g, p, x) ==
  /\ Forest(g) /\ Allocated(g) = Allocated(h)
  /\ \A b : b # NULL => (Pointed(g, b) <=> b = x \/ Pointed(h, b))
  /\ \A b \in Cells : b # p => g[b].child = h[b].child
  /\ g[p].child # NULL /\ g[g[p].child].prev = x
  /\ \A b \in Cells : b # p /\ h[b].child # NULL => g[h[b].child].prev = h[h[b].child].prev
  /\ \A y : Alone(h, y) => g[y].next = NULL

LEMMA FirstIsJoined ==
  ASSUME NEW h, NEW H, NEW E, Memory(h, H, E), NEW p \in Allocated(h), NEW x, Alone(h, x),
         p < x, h[p].child = NULL, NEW g, g = add_item_to_array(h, p, x)
  PROVE  Joined(h, g, p, x) /\ Memory(g, H, E)
<1> DEFINE g1 == [h EXCEPT ![p].child = x]
<1>0. /\ Forest(h) /\ Chains(h, H, E) /\ Closed(h, E) /\ TypedHeap(h)
      /\ x \in Allocated(h) /\ ~Pointed(h, x) /\ h[x].next = NULL
      /\ p \in Cells /\ p \in Addresses /\ p # NULL /\ h[p].type # "free"
      /\ x \in Cells /\ x \in Addresses /\ x # NULL /\ p # x
  BY AllocatedAreCells, CellsAre DEF Memory, Alone, Forest
<1>1. Parented(h, g1, p, x)
  BY <1>0 DEF Parented, TypedHeap, HeapType, Cells
<1>a. g = [g1 EXCEPT ![x].prev = x, ![x].next = NULL]
  BY DEF add_item_to_array
<1> HIDE DEF g1
<1>2. /\ Forest(g1) /\ Allocated(g1) = Allocated(h)
      /\ \A b : b # NULL => (Pointed(g1, b) <=> b = x \/ Pointed(h, b))
      /\ Chains(g1, H, E)
  BY <1>0, <1>1, ParentedForest
<1>3. Backed(g1, g, x, x)
  <2>1. TypedHeap(g1) /\ g1[x].next = NULL
    BY <1>0, <1>1 DEF Parented
  <2>2. g = [g1 EXCEPT ![x] = [g1[x] EXCEPT !.prev = x, !.next = NULL]]
    BY <1>0, <1>a, <2>1 DEF TypedHeap, HeapType, Cells
  <2> DEFINE r == [g1[x] EXCEPT !.prev = x, !.next = NULL]
             R == [type : Types \cup {"free"}, key : Keys, value : Int,
                   next : Cells, prev : Cells, child : Cells]
  <2>3. g1 \in [Cells -> R]
    BY <2>1 DEF TypedHeap, HeapType, Cells, Keys
  <2>4. /\ r \in R /\ r.type = g1[x].type /\ r.child = g1[x].child
        /\ r.next = g1[x].next /\ r.prev = x
    <3>1. g1[x] \in R /\ NULL \in Cells
      BY <1>0, <2>3 DEF Cells
    <3>2. r.next = NULL
      BY <3>1
    <3>3. QED
      BY <1>0, <2>1, <3>1, <3>2
  <2>5. g = [g1 EXCEPT ![x] = r]
    BY <2>2
  <2> HIDE DEF r, R
  <2>6. g \in [Cells -> R]
    BY <1>0, <2>3, <2>4, <2>5
  <2>7. TypedHeap(g)
    BY <2>6 DEF TypedHeap, HeapType, Cells, Keys, R
  <2>8. QED
    BY <1>0, <2>3, <2>4, <2>5, <2>7 DEF Backed
<1>4. \A a \in Cells : g1[a].next # x
  BY <1>0, <1>1 DEF Parented, Pointed
<1>5. /\ Forest(g) /\ Allocated(g) = Allocated(h)
      /\ \A b : b # NULL => (Pointed(g, b) <=> b = x \/ Pointed(h, b))
      /\ Chains(g, H, E)
  BY <1>0, <1>2, <1>3, <1>4, BackedForest
<1>6. \A b \in Cells : /\ g[b].next = h[b].next
                       /\ g[b].child = IF b = p THEN x ELSE h[b].child
                       /\ g[b].prev = IF b = x THEN x ELSE h[b].prev
  BY <1>1, <1>3 DEF Parented, Backed
<1>7. \A b \in Cells : h[b].child \in Cells /\ h[b].child # x
  BY <1>0, FieldsAre DEF Pointed
<1>8. E[x] = x
  BY <1>0 DEF Chains
<1>9. Closed(g, E)
  BY <1>0, <1>6, <1>7, <1>8 DEF Closed
<1>10. \A y : Alone(h, y) => g[y].next = NULL
  BY <1>6, AllocatedAreCells DEF Alone
<1>11. g[p].child = x /\ g[x].prev = x
  BY <1>0, <1>6
<1>12. \A b \in Cells : b # p /\ h[b].child # NULL => g[h[b].child].prev = h[h[b].child].prev
  BY <1>6, <1>7
<1>13. QED
  BY <1>0, <1>5, <1>6, <1>9, <1>10, <1>11, <1>12 DEF Joined, Memory

LEMMA NextIsJoined ==
  ASSUME NEW h, NEW H, NEW E, Memory(h, H, E), NEW p \in Allocated(h), NEW x, Alone(h, x),
         h[p].child # NULL, h[h[p].child].prev < x,
         NEW g, g = add_item_to_array(h, p, x)
  PROVE  Joined(h, g, p, x) /\ \E H2, E2 : Memory(g, H2, E2)
<1> DEFINE c == h[p].child
           z == h[c].prev
           g1 == suffix_object(h, z, x)
           H2 == [H EXCEPT ![x] = H[z]]
           E2 == [b \in Cells |-> IF E[b] = z THEN x ELSE E[b]]
<1>0. /\ Forest(h) /\ Chains(h, H, E) /\ Closed(h, E) /\ TypedHeap(h)
      /\ x \in Allocated(h) /\ ~Pointed(h, x) /\ h[x].next = NULL
      /\ p \in Cells /\ p \in Addresses /\ p # NULL
      /\ x \in Cells /\ x \in Addresses /\ x # NULL
  BY AllocatedAreCells DEF Memory, Alone, Forest
<1>2. /\ c \in Allocated(h) /\ c \in Cells /\ c \in Addresses /\ c # NULL /\ c # x
      /\ z = E[c] /\ \A a \in Cells : h[a].next # c
  BY <1>0, AllocatedAreCells DEF Forest, Closed, Pointed
<1>3. z \in Allocated(h) /\ z \in Cells /\ z \in Addresses /\ z # NULL /\ h[z].next = NULL /\ z < x
  BY <1>0, <1>2, EndIsAllocated, AllocatedAreCells DEF Chains
<1>4. Pointed(h, z)
  BY <1>0, <1>2, <1>3, EndIsPointed DEF Pointed
<1>5. Suffixed(h, g1, z, x)
  BY <1>0, <1>3, SuffixIsSuffixed
<1>a. g = [g1 EXCEPT ![c].prev = x]
  BY <1>2, <1>3 DEF add_item_to_array
<1> HIDE DEF g1
<1>6. /\ Forest(g1) /\ Allocated(g1) = Allocated(h)
      /\ \A b : Pointed(g1, b) <=> b = x \/ Pointed(h, b)
      /\ Chains(g1, H2, E2)
  <2>1. Longer(H, E, z, x, H2, E2)
    BY <1>0, <1>3 DEF Chains, Longer
  <2> HIDE DEF z, H2, E2
  <2>2. QED
    BY <1>0, <1>3, <1>5, <2>1, SuffixedForest
<1>8. Backed(g1, g, c, x)
  <2>1. TypedHeap(g1)
    BY <1>5 DEF Suffixed
  <2>2. QED
    BY <1>0, <1>2, <1>a, <2>1 DEF Backed, TypedHeap, HeapType, Cells
<1>9. \A a \in Cells : g1[a].next # c
  BY <1>2, <1>5 DEF Suffixed
<1>10. /\ Forest(g) /\ Allocated(g) = Allocated(h)
       /\ \A b : Pointed(g, b) <=> b = x \/ Pointed(h, b)
       /\ Chains(g, H2, E2)
  BY <1>2, <1>6, <1>8, <1>9, BackedForest, ZenonT(30)
<1>11. \A b \in Cells : /\ g[b].next = IF b = z THEN x ELSE h[b].next
                        /\ g[b].child = h[b].child
                        /\ g[b].prev = IF b = c THEN x ELSE IF b = x THEN z ELSE h[b].prev
  BY <1>5, <1>8 DEF Suffixed, Backed
<1>12. ASSUME NEW b \in Cells, h[b].child # NULL, b # p
       PROVE  /\ g[h[b].child].prev = h[h[b].child].prev
              /\ E2[h[b].child] = E[h[b].child]
  <2> DEFINE d == h[b].child
  <2>1. d \in Cells /\ d # c /\ d # x /\ \A a \in Cells : h[a].next # d
    BY <1>0, <1>12, FieldsAre DEF Forest, Pointed
  <2>2. E[d] # z
    BY <1>0, <1>2, <2>1, EndsAre
  <2> HIDE DEF d
  <2>3. g[d].prev = h[d].prev /\ E2[d] = E[d]
    BY <1>11, <2>1, <2>2
  <2>4. QED
    BY <2>3 DEF d
<1>13. E2[c] = x /\ g[c].prev = x
  BY <1>2, <1>11
<1>14. Closed(g, E2)
  <2>1. SUFFICES ASSUME NEW b \in Cells, g[b].child # NULL
                 PROVE  g[g[b].child].prev = E2[g[b].child]
    BY DEF Closed
  <2>2. g[b].child = h[b].child
    BY <1>11
  <2> HIDE DEF c, E2
  <2>3. CASE b = p
    BY <1>13, <2>2, <2>3 DEF c
  <2>4. CASE b # p
    BY <1>0, <1>12, <2>1, <2>2, <2>4 DEF Closed
  <2>5. QED
    BY <2>3, <2>4
<1>15. ASSUME NEW y, Alone(h, y) PROVE g[y].next = NULL
  <2>1. y \in Cells /\ y # z /\ h[y].next = NULL
    BY <1>4, <1>15, AllocatedAreCells DEF Alone
  <2>2. QED
    BY <1>11, <2>1
<1>16. g[p].child = c
  BY <1>0, <1>11
<1>17. Joined(h, g, p, x)
  <2> HIDE DEF c, E2, H2
  <2>1. \A b \in Cells : b # p => g[b].child = h[b].child
    BY <1>11
  <2>2. QED
    BY <1>2, <1>10, <1>12, <1>13, <1>15, <1>16, <2>1 DEF Joined
<1>18. Memory(g, H2, E2)
  BY <1>10, <1>14 DEF Memory
<1>19. QED
  BY <1>17, <1>18

LEMMA AddedIsJoined ==
  ASSUME NEW h, NEW H, NEW E, Memory(h, H, E), NEW p \in Allocated(h), NEW x, Alone(h, x),
         p < x, h[p].child # NULL => h[h[p].child].prev < x,
         NEW g, g = add_item_to_array(h, p, x)
  PROVE  Joined(h, g, p, x) /\ \E H2, E2 : Memory(g, H2, E2)
BY FirstIsJoined, NextIsJoined

-----------------------------------------------------------------------------
(***************************************************************************)
(* cJSON_New_Item and cJSON_Delete.                                        *)
(***************************************************************************)

\* While nothing is deleted the lowest free address is above all that are
\* used.
Consecutive(h) == \A a, b \in Addresses : b \in Allocated(h) /\ a < b => a \in Allocated(h)

ItemType == [type : Types \cup {"free"}, key : Keys, value : Int,
             next : Cells, prev : Cells, child : Cells]

LEMMA HeapIs == \A h : TypedHeap(h) <=> h \in [Cells -> ItemType]
BY DEF TypedHeap, HeapType, Cells, Keys, ItemType

LEMMA BlankIs ==
  /\ Blank \in ItemType /\ Blank.next = NULL /\ Blank.prev = NULL /\ Blank.child = NULL
  /\ Free \in ItemType /\ Free.next = NULL /\ Free.prev = NULL /\ Free.child = NULL
  /\ Free.type = "free"
  /\ \A type \in Types, value \in Int :
       LET r == [Blank EXCEPT !.type = type, !.value = value]
       IN r \in ItemType /\ r.type = type /\ r.next = NULL /\ r.prev = NULL /\ r.child = NULL
<1>1. Blank \in ItemType /\ Blank.next = NULL /\ Blank.prev = NULL /\ Blank.child = NULL
  <2>1. "invalid" \in Types /\ NULL \in Cells /\ 0 \in Int /\ NoKey \in Keys
    BY DEF Types, Cells, Keys
  <2>2. Blank \in [type : Types \cup {"free"}, key : Keys, value : Int,
                   next : Cells, prev : Cells, child : Cells]
    BY <2>1 DEF Blank
  <2>3. QED
    BY <2>2 DEF ItemType, Blank
<1>2. /\ Free \in ItemType /\ Free.next = NULL /\ Free.prev = NULL /\ Free.child = NULL
      /\ Free.type = "free"
  BY <1>1 DEF Free, ItemType
<1>3. ASSUME NEW type \in Types, NEW value \in Int
      PROVE  LET r == [Blank EXCEPT !.type = type, !.value = value]
             IN r \in ItemType /\ r.type = type /\ r.next = NULL /\ r.prev = NULL /\ r.child = NULL
  BY <1>1 DEF ItemType
<1>4. QED
  BY <1>1, <1>2, <1>3

LEMMA NewAddressIs ==
  ASSUME NEW h, HasRoom(h)
  PROVE  /\ NewAddress(h) \in Addresses \ Allocated(h)
         /\ \A b \in Addresses \ Allocated(h) : NewAddress(h) <= b
<1> DEFINE S == Addresses \ Allocated(h)
           P == Cells \ S
<1>1. S # {} /\ S \subseteq Addresses
  BY DEF HasRoom, Allocated
<1>2. ASSUME \A a \in S : \E b \in S : ~(a <= b) PROVE FALSE
  <2>1. ASSUME NEW a \in Cells, \A b \in Cells : b < a => b \in P PROVE a \in P
    <3>1. SUFFICES ASSUME a \in S PROVE FALSE
      OBVIOUS
    <3>2. PICK b \in S : ~(a <= b)
      BY <1>2, <3>1
    <3>3. a \in Cells /\ b \in Cells
      BY <1>1 DEF Cells
    <3>4. b < a
      BY <3>2, <3>3, CellsAre
    <3>5. QED
      BY <2>1, <3>3, <3>4
  <2>2. Cells \subseteq P
    <3> HIDE DEF P
    <3> QED BY <2>1, Upward
  <2>3. QED
    BY <1>1, <2>2 DEF Cells
<1>3. \E a \in S : \A b \in S : a <= b
  BY <1>2
<1>4. QED
  BY <1>3 DEF NewAddress

\* There is one more item, which is alone and empty; it is the youngest.
Extended(h, g, x) ==
  /\ Relabelled(h, g) /\ Allocated(g) = Allocated(h) \cup {x}
  /\ x \in Addresses /\ x \notin Allocated(h) /\ Alone(g, x) /\ g[x].child = NULL
  /\ \A a \in Cells : a # x => g[a] = h[a]
  /\ Consecutive(h) => Consecutive(g) /\ \A b \in Allocated(h) : b < x

\* cJSON_New_Item.
LEMMA NewItemExtends ==
  ASSUME NEW h, Forest(h), HasRoom(h), NEW type \in Types, NEW value \in Int
  PROVE  Extended(h, cJSON_New_Item(h, type, value), NewAddress(h))
<1> DEFINE x == NewAddress(h)
           r == [Blank EXCEPT !.type = type, !.value = value]
           g == cJSON_New_Item(h, type, value)
<1>1. /\ x \in Addresses /\ x \notin Allocated(h) /\ x \in Cells /\ x # NULL
      /\ \A b \in Addresses \ Allocated(h) : x <= b
  BY NewAddressIs DEF Cells, Addresses, NULL
<1>2. g = [h EXCEPT ![x] = r]
  BY DEF cJSON_New_Item
<1>3. /\ r \in ItemType /\ r.type = type /\ type # "free"
      /\ r.next = NULL /\ r.prev = NULL /\ r.child = NULL
  <2>1. type # "free"
    BY DEF Types
  <2>2. QED
    BY <2>1, BlankIs
<1> HIDE DEF x, r, g
<1>4. TypedHeap(h) /\ h[x] = Free /\ h[NULL] = Free
  BY <1>1 DEF Forest, Allocated
<1>5. TypedHeap(g)
  BY <1>2, <1>3, <1>4, HeapIs
<1>6. /\ g[x] = r /\ \A a \in Cells : a # x => g[a] = h[a]
  BY <1>1, <1>2, <1>4 DEF TypedHeap, HeapType, Cells
<1>7. /\ h[x].next = NULL /\ h[x].prev = NULL /\ h[x].child = NULL
      /\ r.next = NULL /\ r.prev = NULL /\ r.child = NULL
  BY <1>3, <1>4, BlankIs
<1>8. Allocated(g) = Allocated(h) \cup {x}
  BY <1>1, <1>3, <1>6 DEF Allocated, Cells
<1>9. Relabelled(h, g)
  <2>1. g[NULL] = Free
    BY <1>1, <1>4, <1>6 DEF Cells
  <2>2. \A a \in Cells : /\ g[a].next = h[a].next /\ g[a].prev = h[a].prev
                         /\ g[a].child = h[a].child
    BY <1>6, <1>7
  <2>3. \A a \in Cells : g[a].type = "free" => g[a] = Free
    BY <1>3, <1>6 DEF Forest
  <2>4. QED
    BY <1>5, <1>8, <2>1, <2>2, <2>3 DEF Relabelled
<1>10. ~Pointed(h, x)
  BY <1>1 DEF Pointed, Forest
<1>11. Alone(g, x) /\ g[x].child = NULL
  BY <1>6, <1>7, <1>8, <1>9, <1>10, RelabelledForest DEF Alone
<1>12. ASSUME Consecutive(h) PROVE Consecutive(g) /\ \A b \in Allocated(h) : b < x
  <2>1. ASSUME NEW b \in Allocated(h) PROVE b < x
    <3>1. b \in Addresses /\ x \in Nat /\ b \in Nat
      BY <1>1, AllocatedAreCells, CellsAre
    <3>2. ~(x < b)
      BY <1>1, <1>12, <3>1 DEF Consecutive
    <3>3. b # x
      BY <1>1
    <3>4. QED
      BY <3>1, <3>2, <3>3
  <2>2. ASSUME NEW a \in Addresses, NEW b \in Addresses, b \in Allocated(g), a < b
        PROVE  a \in Allocated(g)
    <3>1. CASE b \in Allocated(h)
      BY <1>8, <1>12, <2>2, <3>1 DEF Consecutive
    <3>2. CASE b = x
      <4>1. a \in Nat /\ x \in Nat
        BY <1>1, CellsAre DEF Cells
      <4>2. ~(x <= a)
        BY <2>2, <3>2, <4>1
      <4>3. QED
        BY <1>1, <1>8, <4>2
    <3>3. QED
      BY <1>8, <2>2, <3>1, <3>2
  <2>3. QED
    BY <2>1, <2>2 DEF Consecutive
<1>13. QED
  BY <1>1, <1>6, <1>8, <1>9, <1>11, <1>12 DEF Extended, x, g

\* What a owned is free, all else as before.
Deleted(h, g, a) ==
  /\ Forest(g) /\ Allocated(g) = Allocated(h) \ Owned(h, a)
  /\ \A b \in Cells : g[b] = IF b \in Owned(h, a) THEN Free ELSE h[b]
  /\ \A b \in Cells \ Owned(h, a) : b # NULL => (Pointed(g, b) <=> Pointed(h, b))

\* cJSON_Delete of an item that nothing points to leaves a memory.
LEMMA DeleteDeletes ==
  ASSUME NEW h, NEW H, NEW E, Memory(h, H, E), NEW a, a # NULL => a \in Allocated(h) /\ ~Pointed(h, a),
         NEW g, g = cJSON_Delete(h, a)
  PROVE  Deleted(h, g, a) /\ \E H2, E2 : Memory(g, H2, E2)
<1> DEFINE O == Owned(h, a)
           H2 == [b \in Cells |-> IF b \in O THEN b ELSE H[b]]
           E2 == [b \in Cells |-> IF b \in O THEN b ELSE E[b]]
<1>1. /\ Forest(h) /\ Chains(h, H, E) /\ Closed(h, E) /\ TypedHeap(h) /\ h[NULL] = Free
      /\ DOMAIN h = Cells /\ ForwardIs(h)
      /\ H \in [Cells -> Cells] /\ E \in [Cells -> Cells]
  BY ForestIsForward DEF Memory, Forest, Chains
<1>2. O \subseteq Allocated(h) /\ a \in Cells
  BY <1>1, OwnedIsAllocated
<1>3. Complete(h, O)
  BY <1>1, <1>2, OwnedIsComplete
<1>4. \A b \in O : b # a => \E p \in O : h[p].next = b \/ h[p].child = b
  BY <1>1, <1>2, OwnedIsPointed
<1>5. \A b \in O : b \in Cells /\ b \in Addresses /\ b # NULL
  BY <1>2, AllocatedAreCells
<1>6. \A b \in Cells : g[b] = IF b \in O THEN Free ELSE h[b]
  BY <1>1 DEF cJSON_Delete
<1>7. TypedHeap(g)
  <2>2. g = [b \in DOMAIN h |-> IF b \in O THEN Free ELSE h[b]]
    BY DEF cJSON_Delete
  <2> HIDE DEF O
  <2>3. QED
    BY <1>1, <2>2, BlankIs, HeapIs
<1> HIDE DEF O
<1>8. /\ Free.type = "free" /\ Free.next = NULL /\ Free.child = NULL
  BY DEF Free, Blank
\* Nothing that is left points to what is deleted.
<1>9. ASSUME NEW b \in Cells, b \notin O
      PROVE  h[b].next \notin O /\ h[b].child \notin O
  <2>1. ASSUME NEW c \in O, h[b].next = c \/ h[b].child = c PROVE FALSE
    <3>1. c # NULL
      BY <1>5
    <3>2. c # a
      BY <1>5, <2>1 DEF Pointed
    <3>3. PICK p \in O : h[p].next = c \/ h[p].child = c
      BY <1>4, <3>2
    <3>4. p \in Cells /\ p # b
      BY <1>5, <1>9
    <3>5. h[b].next = c /\ h[p].next = c => p = b
      BY <1>1, <3>1, <3>4 DEF Forest
    <3>6. QED
      BY <1>1, <2>1, <3>1, <3>3, <3>4, <3>5 DEF Forest
  <2>2. QED
    BY <2>1
<1>10. Allocated(g) = Allocated(h) \ O
  BY <1>6, <1>8 DEF Allocated, Cells
<1>11. Forest(g)
  <2>1. g[NULL] = Free /\ \A b \in Cells : g[b].type = "free" => g[b] = Free
    BY <1>1, <1>6 DEF Forest, Cells
  <2>2. ASSUME NEW b \in Cells, g[b].next # NULL
        PROVE  b < g[b].next /\ g[b].next \in Allocated(g) /\ g[g[b].next].prev = b
    <3>1. b \notin O /\ g[b] = h[b]
      BY <1>6, <1>8, <2>2
    <3>2. h[b].next \notin O /\ h[b].next \in Cells
      BY <1>1, <1>9, <3>1 DEF ForwardIs
    <3>3. g[h[b].next] = h[h[b].next]
      BY <1>6, <3>2
    <3>4. QED
      BY <1>1, <1>10, <2>2, <3>1, <3>2, <3>3 DEF Forest
  <2>3. ASSUME NEW b \in Cells, g[b].child # NULL
        PROVE  b < g[b].child /\ g[b].child \in Allocated(g)
    <3>1. b \notin O /\ g[b] = h[b]
      BY <1>6, <1>8, <2>3
    <3>2. h[b].child \notin O /\ h[b].child \in Cells
      BY <1>1, <1>9, <3>1 DEF ForwardIs
    <3>3. QED
      BY <1>1, <1>10, <2>3, <3>1, <3>2 DEF Forest
  <2>4. \A b, c \in Cells : g[b].next # NULL => g[b].next # g[c].child
    BY <1>1, <1>6, <1>8 DEF Forest
  <2>5. \A b, c \in Cells : g[b].child # NULL /\ g[b].child = g[c].child => b = c
    BY <1>1, <1>6, <1>8 DEF Forest
  <2>6. QED
    BY <1>7, <2>1, <2>2, <2>3, <2>4, <2>5 DEF Forest
<1>12. ASSUME NEW b \in Cells \ O, b # NULL PROVE Pointed(g, b) <=> Pointed(h, b)
  <2>1. Pointed(g, b) => Pointed(h, b)
    BY <1>6, <1>8, <1>12 DEF Pointed
  <2>2. ASSUME NEW p \in Cells, h[p].next = b \/ h[p].child = b PROVE Pointed(g, b)
    <3>1. p \notin O
      BY <1>3, <1>12, <2>2 DEF Complete
    <3>2. QED
      BY <1>6, <2>2, <3>1 DEF Pointed
  <2>3. QED
    BY <2>1, <2>2 DEF Pointed
<1>13. \A b \in Cells : b \notin O => E[b] \notin O
  <2> DEFINE P == {b \in Cells : b \notin O => E[b] \notin O}
  <2>1. ASSUME NEW b \in Cells, \A d \in Cells : b < d => d \in P PROVE b \in P
    <3>1. SUFFICES ASSUME b \notin O PROVE E[b] \notin O
      OBVIOUS
    <3>2. CASE h[b].next = NULL
      BY <1>1, <3>1, <3>2 DEF Chains
    <3>3. CASE h[b].next # NULL
      <4>1. h[b].next \in Cells /\ b < h[b].next /\ E[h[b].next] = E[b]
        BY <1>1, <3>3 DEF Chains, ForwardIs
      <4>2. h[b].next \notin O
        BY <1>9, <3>1
      <4>3. QED
        BY <2>1, <4>1, <4>2
    <3>4. QED
      BY <3>2, <3>3
  <2>2. Cells \subseteq P
    <3> HIDE DEF P
    <3> QED BY <2>1, Downward
  <2>3. QED
    BY <2>2
<1>14. /\ H2 \in [Cells -> Cells] /\ E2 \in [Cells -> Cells]
       /\ \A b \in Cells : H2[b] = IF b \in O THEN b ELSE H[b]
       /\ \A b \in Cells : E2[b] = IF b \in O THEN b ELSE E[b]
  BY <1>1
<1> HIDE DEF H2, E2
<1>15. Chains(g, H2, E2)
  <2>1. ASSUME NEW b \in Cells
        PROVE  H2[b] <= b /\ b <= E2[b] /\ g[E2[b]].next = NULL /\ H2[E2[b]] = H2[b]
    <3>1. CASE b \in O
      <4>1. b <= b
        BY CellsAre
      <4>2. H2[b] = b /\ E2[b] = b /\ g[b].next = NULL
        BY <1>6, <1>8, <1>14, <3>1
      <4>3. QED
        BY <4>1, <4>2
    <3>2. CASE b \notin O
      <4>1. E[b] \in Cells /\ E[b] \notin O
        BY <1>1, <1>13, <3>2
      <4>2. H[b] <= b /\ b <= E[b] /\ h[E[b]].next = NULL /\ H[E[b]] = H[b]
        BY <1>1 DEF Chains
      <4>3. QED
        BY <1>6, <1>14, <3>2, <4>1, <4>2
    <3>3. QED
      BY <3>1, <3>2
  <2>2. ASSUME NEW b \in Cells, g[b].next = NULL PROVE E2[b] = b
    BY <1>1, <1>6, <1>14, <2>2 DEF Chains
  <2>3. ASSUME NEW b \in Cells, g[b].next # NULL
        PROVE  E2[g[b].next] = E2[b] /\ H2[g[b].next] = H2[b]
    <3>1. b \notin O /\ g[b] = h[b]
      BY <1>6, <1>8, <2>3
    <3>2. h[b].next \notin O /\ h[b].next \in Cells
      BY <1>1, <1>9, <3>1 DEF ForwardIs
    <3>3. E[h[b].next] = E[b] /\ H[h[b].next] = H[b]
      BY <1>1, <2>3, <3>1 DEF Chains
    <3>4. QED
      BY <1>14, <3>1, <3>2, <3>3
  <2>4. ASSUME NEW b \in Cells, \A c \in Cells : g[c].next # b PROVE H2[b] = b
    <3>1. CASE b \in O
      BY <1>14, <3>1
    <3>2. CASE b \notin O
      <4>1. CASE b = NULL
        <5>1. H[b] <= b /\ H[b] \in Cells
          BY <1>1 DEF Chains
        <5>2. H[b] = b
          BY <4>1, <5>1, CellsAre
        <5>3. QED
          BY <1>14, <3>2, <5>2
      <4>2. CASE b # NULL
        <5>1. \A c \in Cells : h[c].next # b
          BY <1>3, <1>6, <2>4, <3>2, <4>2 DEF Complete
        <5>2. QED
          BY <1>1, <1>14, <3>2, <5>1 DEF Chains
      <4>3. QED
        BY <4>1, <4>2
    <3>3. QED
      BY <3>1, <3>2
  <2>5. QED
    BY <1>14, <2>1, <2>2, <2>3, <2>4 DEF Chains
<1>16. Closed(g, E2)
  <2>1. SUFFICES ASSUME NEW b \in Cells, g[b].child # NULL
                 PROVE  g[g[b].child].prev = E2[g[b].child]
    BY DEF Closed
  <2>2. b \notin O /\ g[b] = h[b]
    BY <1>6, <1>8, <2>1
  <2>3. h[b].child \notin O /\ h[b].child \in Cells
    BY <1>1, <1>9, <2>2 DEF ForwardIs
  <2>4. h[h[b].child].prev = E[h[b].child]
    BY <1>1, <2>1, <2>2 DEF Closed
  <2>5. QED
    BY <1>6, <1>14, <2>2, <2>3, <2>4
<1>17. Memory(g, H2, E2) /\ Deleted(h, g, a)
  BY <1>6, <1>10, <1>11, <1>12, <1>15, <1>16 DEF Memory, Deleted, O
<1>18. QED
  BY <1>17

-----------------------------------------------------------------------------
(***************************************************************************)
(* The calls of federatedLearningToJSON. An item is made, and added to     *)
(* another before its variable is used again; and between the making of    *)
(* an item and its being added, the item around it is neither made anew    *)
(* nor given another element. Both is shown of the pieces of the sequence  *)
(* of calls, which are then joined.                                        *)
(***************************************************************************)

\* The calls; which of them make the item of v, or add something to that of
\* w.
CallSet ==
  [call : {"create"}, var : Pointers, type : Types, value : Int]
  \cup [call : {"add"}, to : Pointers, name : Names, var : Pointers]
  \cup [call : {"append"}, to : Pointers, var : Pointers]

Creates(c, v) == c.call = "create" /\ c.var = v
Adds(c, w) == c.call # "create" /\ c.to = w
\* Of the first n calls the last about the item v created it, and since then
\* the item w was neither made anew nor added to.
Since(s, n, v, w) ==
  \E c \in 1 .. n : /\ Creates(s[c], v)
                    /\ \A d \in c + 1 .. n : s[d].var # v /\ ~Creates(s[d], w) /\ ~Adds(s[d], w)
\* The item of v was made and is not yet added.
Pending(s, n, v) == \E c \in 1 .. n : Creates(s[c], v) /\ \A d \in c + 1 .. n : s[d].var # v
\* The order of the calls.
Ordered(s) ==
  \A m \in 1 .. Len(s) :
    IF s[m].call = "create" THEN ~Pending(s, m - 1, s[m].var)
    ELSE s[m].to # s[m].var /\ Since(s, m - 1, s[m].var, s[m].to)
\* A piece of the calls: it makes and adds items of the variables V, adds to
\* those of T, and at its end none but those of P are to be added.
Block(s, V, T, P) ==
  /\ s \in Seq(CallSet) /\ Ordered(s)
  /\ \A m \in 1 .. Len(s) : s[m].var \in V /\ (s[m].call # "create" => s[m].to \in T)
  /\ \A v : Pending(s, Len(s), v) => v \in P

\* u is s, then t.
Join(s, t, u) ==
  /\ u \in Seq(CallSet) /\ Len(u) = Len(s) + Len(t) /\ Len(s) \in Nat /\ Len(t) \in Nat
  /\ \A i \in 1 .. Len(s) : u[i] = s[i]
  /\ \A i \in 1 .. Len(t) : u[Len(s) + i] = t[i]
  /\ \A i \in Len(s) + 1 .. Len(u) : u[i] = t[i - Len(s)]

LEMMA JoinIs ==
  ASSUME NEW s \in Seq(CallSet), NEW t \in Seq(CallSet)
  PROVE  Join(s, t, s \o t)
BY DEF Join

\* What the first of two pieces did, and then what both did.
LEMMA BeforeJoin ==
  ASSUME NEW s, NEW t, NEW u, Join(s, t, u),
         NEW m \in 0 .. Len(s), NEW v, NEW w
  PROVE  /\ Pending(u, m, v) <=> Pending(s, m, v)
         /\ Since(u, m, v, w) <=> Since(s, m, v, w)
<1>1. Len(s) \in Nat /\ \A i \in 1 .. m : u[i] = s[i]
  BY DEF Join
<1>2. \A c \in 1 .. m : c \in 1 .. m /\ \A d \in c + 1 .. m : d \in 1 .. m
  BY <1>1
<1>3. Pending(u, m, v) <=> Pending(s, m, v)
  BY <1>1, <1>2 DEF Pending, Creates
<1>4. Since(u, m, v, w) <=> Since(s, m, v, w)
  BY <1>1, <1>2 DEF Since, Creates, Adds
<1>5. QED
  BY <1>3, <1>4

LEMMA AfterJoin ==
  ASSUME NEW s, NEW t, NEW u, Join(s, t, u),
         NEW m \in 0 .. Len(t), NEW v, NEW w
  PROVE  /\ Pending(u, Len(s) + m, v) =>
              \/ Pending(t, m, v)
              \/ Pending(s, Len(s), v) /\ \A d \in 1 .. m : t[d].var # v
         /\ Since(t, m, v, w) => Since(u, Len(s) + m, v, w)
         /\ /\ Since(s, Len(s), v, w)
            /\ \A d \in 1 .. m : t[d].var # v /\ ~Creates(t[d], w) /\ ~Adds(t[d], w)
            => Since(u, Len(s) + m, v, w)
<1> DEFINE n == Len(s)
<1>1. /\ n \in Nat /\ m \in Nat /\ m <= Len(t)
      /\ \A i \in 1 .. n : u[i] = s[i]
      /\ \A i \in 1 .. m : u[n + i] = t[i]
      /\ \A i \in n + 1 .. n + m : u[i] = t[i - n]
  BY SMTT(30) DEF Join
<1> HIDE DEF n
<1>2. ASSUME Pending(u, n + m, v), ~Pending(t, m, v)
      PROVE  Pending(s, n, v) /\ \A d \in 1 .. m : t[d].var # v
  <2>1. PICK c \in 1 .. n + m : Creates(u[c], v) /\ \A d \in c + 1 .. n + m : u[d].var # v
    BY <1>2 DEF Pending
  <2>2. CASE c > n
    <3>1. c - n \in 1 .. m /\ u[c] = t[c - n]
      BY <1>1, <2>1, <2>2
    <3>2. \A d \in c - n + 1 .. m : n + d \in c + 1 .. n + m /\ u[n + d] = t[d]
      BY <1>1, <2>1, <2>2
    <3>3. Pending(t, m, v)
      BY <2>1, <3>1, <3>2 DEF Pending
    <3>4. QED
      BY <1>2, <3>3
  <2>3. CASE c <= n
    <3>1. c \in 1 .. n /\ u[c] = s[c]
      BY <1>1, <2>1, <2>3
    <3>2. \A d \in c + 1 .. n : d \in c + 1 .. n + m /\ u[d] = s[d]
      BY <1>1, <2>1, <2>3
    <3>3. \A d \in 1 .. m : n + d \in c + 1 .. n + m /\ u[n + d] = t[d]
      BY <1>1, <2>1, <2>3
    <3>4. Pending(s, n, v)
      BY <2>1, <3>1, <3>2 DEF Pending
    <3>5. QED
      BY <2>1, <3>3, <3>4
  <2>4. QED
    BY <1>1, <2>1, <2>2, <2>3
<1>3. ASSUME Since(t, m, v, w) PROVE Since(u, n + m, v, w)
  <2>1. PICK c \in 1 .. m :
          /\ Creates(t[c], v)
          /\ \A d \in c + 1 .. m : t[d].var # v /\ ~Creates(t[d], w) /\ ~Adds(t[d], w)
    BY <1>3 DEF Since
  <2>2. n + c \in 1 .. n + m /\ u[n + c] = t[c]
    BY <1>1
  <2>3. \A d \in n + c + 1 .. n + m : d - n \in c + 1 .. m /\ u[d] = t[d - n]
    BY <1>1
  <2>4. QED
    BY <2>1, <2>2, <2>3 DEF Since
<1>4. ASSUME Since(s, n, v, w),
             \A d \in 1 .. m : t[d].var # v /\ ~Creates(t[d], w) /\ ~Adds(t[d], w)
      PROVE  Since(u, n + m, v, w)
  <2>1. PICK c \in 1 .. n :
          /\ Creates(s[c], v)
          /\ \A d \in c + 1 .. n : s[d].var # v /\ ~Creates(s[d], w) /\ ~Adds(s[d], w)
    BY <1>4 DEF Since
  <2>2. c \in 1 .. n + m /\ u[c] = s[c]
    BY <1>1
  <2>3. ASSUME NEW d \in c + 1 .. n + m
        PROVE  u[d].var # v /\ ~Creates(u[d], w) /\ ~Adds(u[d], w)
    <3>1. CASE d <= n
      <4>1. d \in c + 1 .. n /\ u[d] = s[d]
        BY <1>1, <2>3, <3>1
      <4>2. QED
        BY <2>1, <4>1
    <3>2. CASE d > n
      <4>1. d - n \in 1 .. m /\ u[d] = t[d - n]
        BY <1>1, <2>3, <3>2
      <4>2. QED
        BY <1>4, <4>1
    <3>3. QED
      BY <1>1, <2>3, <3>1, <3>2
  <2>4. QED
    BY <2>1, <2>2, <2>3 DEF Since
<1>5. QED
  BY <1>2, <1>3, <1>4 DEF n

LEMMA PendingAfterJoin ==
  ASSUME NEW s, NEW t, NEW u, Join(s, t, u),
         NEW m \in 0 .. Len(t), NEW v, Pending(u, Len(s) + m, v)
  PROVE  \/ Pending(t, m, v)
         \/ (Pending(s, Len(s), v) /\ \A d \in 1 .. m : t[d].var # v)
<1>1. \A w : Pending(u, Len(s) + m, v) =>
              \/ Pending(t, m, v)
              \/ (Pending(s, Len(s), v) /\ \A d \in 1 .. m : t[d].var # v)
  BY AfterJoin
<1>2. QED
  BY <1>1

\* Two pieces may follow each other when the second leaves alone what the
\* first has pending.
LEMMA BlocksJoin ==
  ASSUME NEW s, NEW V, NEW T, NEW P, Block(s, V, T, P),
         NEW t, NEW V2, NEW T2, NEW P2, Block(t, V2, T2, P2), P \cap V2 = {}
  PROVE  Block(s \o t, V \cup V2, T \cup T2, P \cup P2)
<1> DEFINE u == s \o t
           n == Len(s)
<1>1. s \in Seq(CallSet) /\ t \in Seq(CallSet) /\ Join(s, t, u)
  BY JoinIs DEF Block
<1> HIDE DEF u
<1>2. /\ u \in Seq(CallSet) /\ Len(u) = n + Len(t) /\ n \in Nat /\ Len(t) \in Nat
      /\ \A i \in 1 .. n : u[i] = s[i]
      /\ \A i \in 1 .. Len(t) : u[n + i] = t[i]
      /\ \A i \in n + 1 .. Len(u) : u[i] = t[i - n]
  BY <1>1 DEF Join
<1>3. ASSUME NEW i \in 1 .. Len(u)
      PROVE  /\ i <= n => i \in 1 .. n /\ u[i] = s[i]
             /\ i > n => i - n \in 1 .. Len(t) /\ u[i] = t[i - n]
  BY <1>2
<1>4. \A i \in 1 .. Len(u) : u[i].var \in V \cup V2 /\ (u[i].call # "create" => u[i].to \in T \cup T2)
  <2>1. SUFFICES ASSUME NEW i \in 1 .. Len(u)
                 PROVE  u[i].var \in V \cup V2 /\ (u[i].call # "create" => u[i].to \in T \cup T2)
    OBVIOUS
  <2>2. CASE i <= n
    BY <1>3, <2>2 DEF Block
  <2>3. CASE i > n
    BY <1>3, <2>3 DEF Block
  <2>4. QED
    BY <1>2, <2>2, <2>3
<1>5. ASSUME NEW v, Pending(u, Len(u), v) PROVE v \in P \cup P2
  <2>1. Len(t) \in 0 .. Len(t)
    BY <1>2
  <2>2. Pending(u, Len(s) + Len(t), v)
    BY <1>2, <1>5
  <2>3. \A w : Pending(u, Len(s) + Len(t), v) => Pending(t, Len(t), v) \/ Pending(s, Len(s), v)
    BY <1>1, <2>1, AfterJoin
  <2>4. QED
    BY <2>2, <2>3 DEF Block
<1>6. ASSUME NEW m \in 1 .. Len(u)
      PROVE  IF u[m].call = "create" THEN ~Pending(u, m - 1, u[m].var)
             ELSE u[m].to # u[m].var /\ Since(u, m - 1, u[m].var, u[m].to)
  <2>1. CASE m <= n
    <3>1. m \in 1 .. n /\ u[m] = s[m] /\ m - 1 \in 0 .. n
      BY <1>2, <1>3, <2>1
    <3>2. IF s[m].call = "create" THEN ~Pending(s, m - 1, s[m].var)
          ELSE s[m].to # s[m].var /\ Since(s, m - 1, s[m].var, s[m].to)
      BY <3>1 DEF Block, Ordered
    <3>3. /\ Pending(u, m - 1, s[m].var) <=> Pending(s, m - 1, s[m].var)
          /\ Since(u, m - 1, s[m].var, s[m].to) <=> Since(s, m - 1, s[m].var, s[m].to)
      BY <1>1, <3>1, BeforeJoin
    <3>4. QED
      BY <3>1, <3>2, <3>3
  <2>2. CASE m > n
    <3> DEFINE k == m - n
    <3>1. k \in 1 .. Len(t) /\ u[m] = t[k] /\ k - 1 \in 0 .. Len(t) /\ m - 1 = n + (k - 1)
      BY <1>2, <1>3, <2>2
    <3> HIDE DEF k
    <3>2. IF t[k].call = "create" THEN ~Pending(t, k - 1, t[k].var)
          ELSE t[k].to # t[k].var /\ Since(t, k - 1, t[k].var, t[k].to)
      BY <3>1 DEF Block, Ordered
    <3>3. ~Pending(s, n, t[k].var)
      BY <3>1 DEF Block
    <3>4. /\ Pending(u, m - 1, t[k].var) =>
               Pending(t, k - 1, t[k].var) \/ Pending(s, n, t[k].var)
          /\ Since(t, k - 1, t[k].var, t[k].to) => Since(u, m - 1, t[k].var, t[k].to)
      BY <1>1, <3>1, AfterJoin
    <3>5. QED
      BY <3>1, <3>2, <3>3, <3>4
  <2>3. QED
    BY <1>2, <2>1, <2>2
<1>7. QED
  BY <1>2, <1>4, <1>5, <1>6 DEF Block, Ordered, u

LEMMA EmptyBlock == \A V, T, P : Block(<<>>, V, T, P)
BY DEF Block, Ordered, Pending

LEMMA WiderBlock ==
  ASSUME NEW s, NEW V, NEW T, NEW P, Block(s, V, T, P),
         NEW V2, NEW T2, NEW P2, V \subseteq V2, T \subseteq T2, P \subseteq P2
  PROVE  Block(s, V2, T2, P2)
BY DEF Block

LEMMA CreateBlock ==
  ASSUME NEW v \in Pointers, NEW type \in Types, NEW value \in Int
  PROVE  Block(Create(v, type, value), {v}, {}, {v})
<1> DEFINE c == [call |-> "create", var |-> v, type |-> type, value |-> value]
<1>1. c \in CallSet /\ c.call = "create" /\ c.var = v
  BY DEF CallSet
<1>2. Create(v, type, value) = <<c>>
  BY DEF Create
<1> HIDE DEF c
<1>3. <<c>> \in Seq(CallSet) /\ Len(<<c>>) = 1 /\ <<c>>[1] = c
  BY <1>1
<1>4. ASSUME NEW s, s \in Seq(CallSet), Len(s) = 1, s[1] = c PROVE Block(s, {v}, {}, {v})
  BY <1>1, <1>4 DEF Block, Ordered, Pending, Creates
<1>5. QED
  BY <1>2, <1>3, <1>4

LEMMA SinceCreate ==
  ASSUME NEW s, s \in Seq(CallSet), NEW v \in Pointers, NEW type \in Types, NEW value \in Int, NEW w, w # v
  PROVE  LET u == s \o Create(v, type, value) IN Since(u, Len(u), v, w)
<1> DEFINE t == Create(v, type, value)
           u == s \o t
<1>1. t \in Seq(CallSet) /\ Len(t) = 1 /\ Creates(t[1], v)
  <2>1. Block(t, {v}, {}, {v})
    BY CreateBlock
  <2>2. QED
    BY <2>1 DEF Block, Create, Creates
<1>2. Join(s, t, u)
  BY <1>1, JoinIs
<1> HIDE DEF t, u
<1>3. Since(t, 1, v, w)
  BY <1>1 DEF Since
<1>4. 1 \in 0 .. Len(t) /\ Len(u) = Len(s) + 1
  BY <1>1, <1>2 DEF Join
<1>5. Since(u, Len(s) + 1, v, w)
  BY <1>2, <1>3, <1>4, AfterJoin
<1>6. QED
  BY <1>4, <1>5 DEF u, t

LEMMA SinceKept ==
  ASSUME NEW s, s \in Seq(CallSet), NEW v, NEW w, Since(s, Len(s), v, w),
         NEW t, NEW V, NEW T, NEW P, Block(t, V, T, P), v \notin V, w \notin V, w \notin T
  PROVE  Since(s \o t, Len(s \o t), v, w)
<1> DEFINE u == s \o t
<1>1. Join(s, t, u)
  BY JoinIs DEF Block
<1> HIDE DEF u
<1>2. Len(t) \in 0 .. Len(t) /\ Len(u) = Len(s) + Len(t)
  BY <1>1 DEF Join
<1>3. \A d \in 1 .. Len(t) : t[d].var # v /\ ~Creates(t[d], w) /\ ~Adds(t[d], w)
  BY DEF Block, Creates, Adds
<1>4. Since(u, Len(s) + Len(t), v, w)
  BY <1>1, <1>2, <1>3, AfterJoin
<1>5. QED
  BY <1>2, <1>4 DEF u

\* A piece may end by adding an item, if nothing came between.
LEMMA AddedBlock ==
  ASSUME NEW s, NEW V, NEW T, NEW P, Block(s, V, T, P),
         NEW c \in CallSet, c.call # "create", c.to # c.var, Since(s, Len(s), c.var, c.to)
  PROVE  Block(s \o <<c>>, V \cup {c.var}, T \cup {c.to}, P \ {c.var})
<1> DEFINE t == <<c>>
           u == s \o t
           n == Len(s)
<1>1. t \in Seq(CallSet) /\ Len(t) = 1 /\ t[1] = c /\ s \in Seq(CallSet)
  BY DEF Block
<1>2. Join(s, t, u)
  BY <1>1, JoinIs
<1> HIDE DEF t, u
<1>3. /\ u \in Seq(CallSet) /\ Len(u) = n + 1 /\ n \in Nat /\ u[n + 1] = c
      /\ \A i \in 1 .. n : u[i] = s[i]
  BY <1>1, <1>2 DEF Join
<1> HIDE DEF n
<1>4. ASSUME NEW i \in 1 .. Len(u)
      PROVE  u[i].var \in V \cup {c.var} /\ (u[i].call # "create" => u[i].to \in T \cup {c.to})
  <2>1. CASE i \in 1 .. n
    BY <1>3, <2>1 DEF Block, n
  <2>2. CASE i = n + 1
    BY <1>3, <2>2
  <2>3. QED
    BY <1>3, <2>1, <2>2
<1>5. ASSUME NEW v, Pending(u, Len(u), v) PROVE v \in P \ {c.var}
  <2>1. 1 \in 0 .. Len(t) /\ Len(u) = Len(s) + 1
    BY <1>1, <1>3 DEF n
  <2>6. Pending(u, Len(s) + 1, v)
    BY <1>5, <2>1
  <2>8. PICK k \in 0 .. Len(t) : k = 1
    BY <2>1
  <2>9. Pending(u, Len(s) + k, v)
    BY <2>6, <2>8
  <2>7. Pending(t, k, v) \/ (Pending(s, Len(s), v) /\ \A d \in 1 .. k : t[d].var # v)
    BY <1>2, <2>9, PendingAfterJoin
  <2>2. Pending(t, 1, v) \/ (Pending(s, Len(s), v) /\ \A d \in 1 .. 1 : t[d].var # v)
    BY <2>7, <2>8
  <2>3. ~Pending(t, 1, v)
    BY <1>1 DEF Pending, Creates
  <2>4. v # c.var /\ Pending(s, Len(s), v)
    BY <1>1, <2>2, <2>3
  <2>5. QED
    BY <2>4 DEF Block
<1>6. ASSUME NEW m \in 1 .. Len(u)
      PROVE  IF u[m].call = "create" THEN ~Pending(u, m - 1, u[m].var)
             ELSE u[m].to # u[m].var /\ Since(u, m - 1, u[m].var, u[m].to)
  <2>1. CASE m \in 1 .. n
    <3>1. m \in 1 .. Len(s) /\ u[m] = s[m] /\ m - 1 \in 0 .. Len(s)
      BY <1>3, <2>1 DEF n
    <3>2. IF s[m].call = "create" THEN ~Pending(s, m - 1, s[m].var)
          ELSE s[m].to # s[m].var /\ Since(s, m - 1, s[m].var, s[m].to)
      BY <3>1 DEF Block, Ordered
    <3>3. /\ Pending(u, m - 1, s[m].var) <=> Pending(s, m - 1, s[m].var)
          /\ Since(u, m - 1, s[m].var, s[m].to) <=> Since(s, m - 1, s[m].var, s[m].to)
      BY <1>2, <3>1, BeforeJoin
    <3>4. QED
      BY <3>1, <3>2, <3>3
  <2>2. CASE m = n + 1
    <3>1. u[m] = c /\ m - 1 = Len(s) /\ Len(s) \in 0 .. Len(s)
      BY <1>3, <2>2 DEF n
    <3>2. Since(u, Len(s), c.var, c.to)
      BY <1>2, <3>1, BeforeJoin
    <3>3. QED
      BY <3>1, <3>2
  <2>3. QED
    BY <1>3, <2>1, <2>2
<1>7. QED
  BY <1>3, <1>4, <1>5, <1>6 DEF Block, Ordered, u, t

\* FlattenSeq, by its recursion.
Flattened(ss, n, f) == f = [i \in 1 .. n |-> IF i = 1 THEN ss[i] ELSE f[i - 1] \o ss[i]]

LEMMA FlattenedExists ==
  ASSUME NEW ss
  PROVE  \A n \in Nat : \E f : Flattened(ss, n, f)
<1> DEFINE P == {n \in Nat : \E f : Flattened(ss, n, f)}
<1>1. 0 \in P
  <2>1. Flattened(ss, 0, [i \in 1 .. 0 |-> 0])
    BY DEF Flattened
  <2>2. QED
    BY <2>1
<1>2. ASSUME NEW n \in Nat, n \in P PROVE n + 1 \in P
  <2>1. PICK f : Flattened(ss, n, f)
    BY <1>2
  <2> DEFINE g == [i \in 1 .. n + 1 |-> IF i = n + 1 THEN IF i = 1 THEN ss[i] ELSE f[n] \o ss[i] ELSE f[i]]
  <2>2. ASSUME NEW i \in 1 .. n + 1 PROVE g[i] = IF i = 1 THEN ss[i] ELSE g[i - 1] \o ss[i]
    <3>1. CASE i = n + 1
      <4>1. i # 1 => n \in 1 .. n + 1 /\ g[n] = f[n] /\ i - 1 = n
        BY <3>1
      <4>2. QED
        BY <3>1, <4>1
    <3>2. CASE i # n + 1
      <4>1. i \in 1 .. n /\ g[i] = f[i]
        BY <3>2
      <4>2. f[i] = IF i = 1 THEN ss[i] ELSE f[i - 1] \o ss[i]
        BY <2>1, <4>1 DEF Flattened
      <4>3. i # 1 => i - 1 \in 1 .. n + 1 /\ g[i - 1] = f[i - 1]
        BY <3>2
      <4> HIDE DEF g
      <4>4. QED
        BY <4>1, <4>2, <4>3
    <3>3. QED
      BY <3>1, <3>2
  <2>3. g = [i \in 1 .. n + 1 |-> g[i]]
    OBVIOUS
  <2> HIDE DEF g
  <2>4. Flattened(ss, n + 1, g)
    BY <2>2, <2>3 DEF Flattened
  <2>5. QED
    BY <2>4
<1>3. Nat \subseteq P
  <2> HIDE DEF P
  <2> QED BY <1>1, <1>2, SetInduction
<1>4. QED
  BY <1>3

LEMMA FlattenIs ==
  ASSUME NEW ss, Len(ss) \in Nat \ {0}
  PROVE  \E f : Flattened(ss, Len(ss), f) /\ FlattenSeq(ss) = f[Len(ss)]
<1> DEFINE f == CHOOSE f : Flattened(ss, Len(ss), f)
<1>1. Flattened(ss, Len(ss), f)
  BY FlattenedExists
<1>2. f = CHOOSE flatten : flatten = [i \in 1 .. Len(ss) |-> IF i = 1 THEN ss[i] ELSE flatten[i - 1] \o ss[i]]
  BY DEF Flattened
<1>3. FlattenSeq(ss) = f[Len(ss)]
  BY <1>2 DEF FlattenSeq
<1>4. QED
  BY <1>1, <1>3

\* Pieces that leave nothing pending may follow each other, however many.
LEMMA FlattenBlock ==
  ASSUME NEW ss, NEW N \in Nat, Len(ss) = N, N = 0 => ss = <<>>,
         NEW V, NEW T, \A i \in 1 .. N : Block(ss[i], V, T, {})
  PROVE  Block(FlattenSeq(ss), V, T, {})
<1>1. CASE N = 0
  <2>1. FlattenSeq(ss) = <<>>
    BY <1>1 DEF FlattenSeq
  <2>2. QED
    BY <2>1, EmptyBlock
<1>2. CASE N # 0
  <2>1. PICK f : Flattened(ss, N, f) /\ FlattenSeq(ss) = f[N]
    BY <1>2, FlattenIs
  <2> DEFINE P == {n \in Nat : n = 0 \/ n > N \/ Block(f[n], V, T, {})}
  <2>2. 0 \in P
    OBVIOUS
  <2>3. ASSUME NEW n \in Nat, n \in P PROVE n + 1 \in P
    <3>1. SUFFICES ASSUME n + 1 <= N PROVE Block(f[n + 1], V, T, {})
      OBVIOUS
    <3>2. n + 1 \in 1 .. N /\ Block(ss[n + 1], V, T, {})
      BY <3>1
    <3>3. f[n + 1] = IF n = 0 THEN ss[n + 1] ELSE f[n] \o ss[n + 1]
      <4>1. f[n + 1] = IF n + 1 = 1 THEN ss[n + 1] ELSE f[(n + 1) - 1] \o ss[n + 1]
        BY <2>1, <3>2 DEF Flattened
      <4>2. (n + 1) - 1 = n /\ (n + 1 = 1 <=> n = 0)
        OBVIOUS
      <4>3. QED
        BY <4>1, <4>2
    <3>4. CASE n = 0
      BY <3>2, <3>3, <3>4
    <3>5. CASE n # 0
      <4>1. Block(f[n], V, T, {})
        BY <2>3, <3>1, <3>5
      <4>2. Block(f[n] \o ss[n + 1], V \cup V, T \cup T, {} \cup {})
        BY <3>2, <4>1, BlocksJoin
      <4>3. V \cup V = V /\ T \cup T = T /\ {} \cup {} = {}
        OBVIOUS
      <4>4. Block(f[n] \o ss[n + 1], V, T, {})
        BY <4>2, <4>3
      <4>5. QED
        BY <3>3, <3>5, <4>4
    <3>6. QED
      BY <3>4, <3>5
  <2>4. Nat \subseteq P
    <3> HIDE DEF P
    <3> QED BY <2>2, <2>3, SetInduction
  <2>5. QED
    BY <1>2, <2>1, <2>4
<1>3. QED
  BY <1>1, <1>2
-----------------------------------------------------------------------------
LEMMA NamesAre == Names = {"globalmodelstatus", "trainingscounter", "epoch", "alpha", "regularization", "lambda",
                   "percentualtraining", "lossfunctiontype", "layers", "activationfunctiontype", "neurons",
                   "neurontype", "weights", "bias", "neuralnetwork", "layersArray", "neuronsArray", "weightsArray"}
<1>1. ToSet(RootFields) = {"globalmodelstatus", "trainingscounter"}
  BY DEF ToSet, RootFields
<1>2. ToSet(NetworkFields) = {"epoch", "alpha", "regularization", "lambda",
                   "percentualtraining", "lossfunctiontype", "layers"}
  BY DEF ToSet, NetworkFields
<1>3. ToSet(LayerFields) = {"activationfunctiontype", "neurons"}
  BY DEF ToSet, LayerFields
<1>4. ToSet(NeuronFields) = {"neurontype", "weights", "bias"}
  BY DEF ToSet, NeuronFields
<1>5. QED
  BY <1>1, <1>2, <1>3, <1>4 DEF Names

LEMMA ValueIs ==
  ASSUME NEW name, NEW i \in Int, NEW j \in Int, NEW k \in Int
  PROVE  Value(name, i, j, k) \in Int
BY DEF Value, Place, NaN

\* An item made, then added.
LEMMA MadeAndAdded ==
  ASSUME NEW v \in Pointers, NEW type \in Types, NEW value \in Int,
         NEW c \in CallSet, c.call # "create", c.var = v, c.to # v
  PROVE  Block(Create(v, type, value) \o <<c>>, {v}, {c.to}, {})
<1> DEFINE s == Create(v, type, value)
<1>1. Block(s, {v}, {}, {v})
  BY CreateBlock
<1>2. Since(<<>> \o s, Len(<<>> \o s), v, c.to)
  <2>1. <<>> \in Seq(CallSet)
    OBVIOUS
  <2>2. QED
    BY <2>1, SinceCreate
<1>3. <<>> \o s = s
  BY <1>1 DEF Block
<1> HIDE DEF s
<1>4. Since(s, Len(s), c.var, c.to)
  BY <1>2, <1>3
<1>5. Block(s \o <<c>>, {v} \cup {c.var}, {} \cup {c.to}, {v} \ {c.var})
  BY <1>1, <1>4, AddedBlock
<1>6. {v} \cup {c.var} = {v} /\ {} \cup {c.to} = {c.to} /\ {v} \ {c.var} = {}
  OBVIOUS
<1>7. QED
  BY <1>5, <1>6 DEF s

LEMMA AddIs ==
  ASSUME NEW to \in Pointers, NEW name \in Names, NEW var \in Pointers
  PROVE  \E c \in CallSet : c.call = "add" /\ c.to = to /\ c.var = var /\ Add(to, name, var) = <<c>>
BY DEF Add, CallSet

LEMMA AppendIs ==
  ASSUME NEW to \in Pointers, NEW var \in Pointers
  PROVE  \E c \in CallSet : c.call = "append" /\ c.to = to /\ c.var = var /\ AppendTo(to, var) = <<c>>
BY DEF AppendTo, CallSet

LEMMA SinceKeptByAdd ==
  ASSUME NEW s, s \in Seq(CallSet), NEW v, NEW w, Since(s, Len(s), v, w),
         NEW c \in CallSet, c.call # "create", c.var # v, c.to # w
  PROVE  Since(s \o <<c>>, Len(s \o <<c>>), v, w)
<1> DEFINE t == <<c>>
           u == s \o t
<1>1. t \in Seq(CallSet) /\ Len(t) = 1 /\ t[1] = c
  OBVIOUS
<1>2. Join(s, t, u)
  BY <1>1, JoinIs
<1> HIDE DEF u, t
<1>3. PICK k \in 0 .. Len(t) : k = 1
  BY <1>1
<1>4. Len(u) = Len(s) + k
  BY <1>1, <1>2, <1>3 DEF Join
<1>5. \A d \in 1 .. k : t[d].var # v /\ ~Creates(t[d], w) /\ ~Adds(t[d], w)
  BY <1>1, <1>3 DEF Creates, Adds
<1>6. Since(u, Len(s) + k, v, w)
  BY <1>2, <1>5, AfterJoin
<1>7. QED
  BY <1>4, <1>6 DEF u, t

\* The functions whose domain is 1 .. n, as sequences.
LEMMA ListLength ==
  ASSUME NEW n \in Nat, NEW ss, ss = [k \in 1 .. n |-> ss[k]]
  PROVE  Len(ss) = n /\ (n = 0 => ss = <<>>)
<1>1. Len(ss) = n
  OBVIOUS
<1>2. CASE n = 0
  <2>1. 1 .. n = {}
    BY <1>2
  <2>2. <<>> = [k \in {} |-> ss[k]]
    OBVIOUS
  <2>3. QED
    BY <1>1, <2>1, <2>2
<1>3. QED
  BY <1>1, <1>2

\* AddFields is a piece, which leaves nothing pending.
LEMMA FieldsBlock ==
  ASSUME NEW object \in Pointers \ {"item"}, NEW names,
         names = [n \in 1 .. Len(names) |-> names[n]], Len(names) \in Nat,
         \A n \in 1 .. Len(names) : names[n] \in Names,
         NEW i \in Int, NEW j \in Int
  PROVE  Block(AddFields(object, names, i, j), {"item"}, {object}, {})
<1> DEFINE field(name) ==
             Create("item", IF name = "neurontype" THEN "string" ELSE "number",
                    Value(name, i, j, 0)) \o Add(object, name, "item")
           ss == [n \in DOMAIN names |-> IF names[n] \in Represented THEN field(names[n]) ELSE <<>>]
<1>1. ASSUME NEW name \in Names PROVE Block(field(name), {"item"}, {object}, {})
  <2>1. "item" \in Pointers /\ object \in Pointers /\ object # "item"
    BY DEF Pointers
  <2>2. PICK c \in CallSet : c.call = "add" /\ c.to = object /\ c.var = "item" /\ Add(object, name, "item") = <<c>>
    BY <2>1, AddIs
  <2>3. PICK type \in Types : type = IF name = "neurontype" THEN "string" ELSE "number"
    BY DEF Types
  <2>4. PICK value \in Int : value = Value(name, i, j, 0)
    BY ValueIs
  <2>5. c.call # "create"
    BY <2>2
  <2>6. Block(Create("item", type, value) \o <<c>>, {"item"}, {c.to}, {})
    BY <2>1, <2>2, <2>5, MadeAndAdded
  <2>7. QED
    BY <2>2, <2>3, <2>4, <2>6
<1>2. DOMAIN names = 1 .. Len(names)
  OBVIOUS
<1> HIDE DEF field
<1>3. ASSUME NEW n \in 1 .. Len(names) PROVE Block(ss[n], {"item"}, {object}, {})
  BY <1>1, <1>2, EmptyBlock
<1>4. ss = [n \in 1 .. Len(names) |-> ss[n]]
  BY <1>2
<1>5. AddFields(object, names, i, j) = FlattenSeq(ss)
  BY DEF AddFields, field
<1> HIDE DEF ss
<1>6. Len(ss) = Len(names) /\ (Len(names) = 0 => ss = <<>>)
  BY <1>4, ListLength
<1>7. QED
  BY <1>3, <1>5, <1>6, FlattenBlock

LEMMA FieldListsAre ==
  ASSUME NEW names \in {RootFields, NetworkFields, LayerFields, NeuronFields}
  PROVE  /\ names = [n \in 1 .. Len(names) |-> names[n]] /\ Len(names) \in Nat
         /\ \A n \in 1 .. Len(names) : names[n] \in Names
<1>1. CASE names = RootFields
  BY <1>1, NamesAre DEF RootFields
<1>2. CASE names = NetworkFields
  BY <1>2, NamesAre DEF NetworkFields
<1>3. CASE names = LayerFields
  BY <1>3, NamesAre DEF LayerFields
<1>4. CASE names = NeuronFields
  BY <1>4, NamesAre DEF NeuronFields
<1>5. QED
  BY <1>1, <1>2, <1>3, <1>4

LEMMA SinceCreated ==
  ASSUME NEW v \in Pointers, NEW type \in Types, NEW w, w # v
  PROVE  LET u == Create(v, type, 0) IN Since(u, Len(u), v, w)
<1> DEFINE u == Create(v, type, 0)
<1>1. u \in Seq(CallSet)
  BY CreateBlock DEF Block
<1>2. <<>> \in Seq(CallSet) /\ <<>> \o u = u /\ 0 \in Int
  BY <1>1
<1>3. Since(<<>> \o u, Len(<<>> \o u), v, w)
  BY <1>2, SinceCreate
<1>4. QED
  BY <1>2, <1>3

NeuronVars == {"neuronObject", "item", "weightsArray"}
\* The calls for a neuron are a piece.
LEMMA NeuronBlock ==
  ASSUME net \in Networks, NEW i \in 1 .. Len(net), NEW j \in Nat
  PROVE  Block(NeuronCalls(i, j), NeuronVars, {"neuronObject", "weightsArray", "neuronsArray"}, {})
<1> DEFINE O == "neuronObject"
           W == "weightsArray"
           A == "neuronsArray"
           s1 == Create(O, "object", 0)
           f == AddFields(O, NeuronFields, i, j)
           s2 == s1 \o f
           w == Create(W, "array", 0)
           s3 == s2 \o w
           ws == [k \in 1 .. WeightsOf(i) |->
                    Create("item", "number", Value("weight", i, j, k)) \o AppendTo(W, "item")]
           g == FlattenSeq(ws)
           s4 == s3 \o g
           s5 == s4 \o Add(O, W, W)
           s6 == s5 \o AppendTo(A, O)
<1>0. /\ O \in Pointers /\ W \in Pointers /\ A \in Pointers /\ "item" \in Pointers
      /\ "object" \in Types /\ "array" \in Types /\ "number" \in Types
      /\ 0 \in Int /\ i \in Int /\ j \in Int /\ W \in Names
      /\ NeuronFields \in {RootFields, NetworkFields, LayerFields, NeuronFields}
  BY NamesAre DEF Pointers, Types
<1>1. Block(s1, {O}, {}, {O}) /\ Since(s1, Len(s1), O, A)
  BY <1>0, CreateBlock, SinceCreated
<1>2. Block(f, {"item"}, {O}, {})
  BY <1>0, FieldListsAre, FieldsBlock
<1>3. Block(w, {W}, {}, {W})
  BY <1>0, CreateBlock
<1>4. Block(g, {"item"}, {W}, {})
  <2>1. WeightsOf(i) \in Nat
    <3>1. net \in Seq(Nat \ {0})
      BY NetworksAssumption
    <3>2. QED
      BY <3>1 DEF WeightsOf
  <2>2. ASSUME NEW k \in 1 .. WeightsOf(i) PROVE Block(ws[k], {"item"}, {W}, {})
    <3>1. PICK c \in CallSet : c.call = "append" /\ c.to = W /\ c.var = "item" /\ AppendTo(W, "item") = <<c>>
      BY <1>0, AppendIs
    <3>2. PICK value \in Int : value = Value("weight", i, j, k)
      BY <1>0, <2>1, ValueIs
    <3>3. Block(Create("item", "number", value) \o <<c>>, {"item"}, {c.to}, {})
      BY <1>0, <3>1, MadeAndAdded
    <3>4. QED
      BY <2>1, <3>1, <3>2, <3>3
  <2>3. ws = [k \in 1 .. WeightsOf(i) |-> ws[k]]
    OBVIOUS
  <2> HIDE DEF ws
  <2>4. Len(ws) = WeightsOf(i) /\ (WeightsOf(i) = 0 => ws = <<>>)
    BY <2>1, <2>3, ListLength
  <2>5. QED
    BY <2>1, <2>2, <2>4, FlattenBlock
<1>5. PICK a \in CallSet : a.call = "add" /\ a.to = O /\ a.var = W /\ Add(O, W, W) = <<a>>
  BY <1>0, AddIs
<1>6. PICK b \in CallSet : b.call = "append" /\ b.to = A /\ b.var = O /\ AppendTo(A, O) = <<b>>
  BY <1>0, AppendIs
<1>7. NeuronCalls(i, j) = s6
  BY DEF NeuronCalls
<1> HIDE DEF s1, f, w, g
<1>8. Block(s2, {O, "item"}, {O}, {O}) /\ Since(s2, Len(s2), O, A)
  <2>1. Block(s2, {O} \cup {"item"}, {} \cup {O}, {O} \cup {})
    BY <1>1, <1>2, BlocksJoin
  <2>2. s1 \in Seq(CallSet) /\ O \notin {"item"} /\ A \notin {"item"} /\ A \notin {O}
    BY <1>1 DEF Block
  <2>3. Since(s2, Len(s2), O, A)
    BY <1>1, <1>2, <2>2, SinceKept
  <2>4. {O} \cup {"item"} = {O, "item"} /\ {} \cup {O} = {O} /\ {O} \cup {} = {O}
    OBVIOUS
  <2>5. QED
    BY <2>1, <2>3, <2>4
<1> HIDE DEF s2
<1>9. Block(s3, {O, "item", W}, {O}, {O, W}) /\ Since(s3, Len(s3), O, A) /\ Since(s3, Len(s3), W, O)
  <2>1. Block(s3, {O, "item"} \cup {W}, {O} \cup {}, {O} \cup {W})
    BY <1>3, <1>8, BlocksJoin
  <2>2. s2 \in Seq(CallSet) /\ O \notin {W} /\ A \notin {W} /\ A \notin {}
    BY <1>8 DEF Block
  <2>3. Since(s3, Len(s3), O, A)
    BY <1>3, <1>8, <2>2, SinceKept
  <2>4. Since(s3, Len(s3), W, O)
    BY <1>0, <2>2, SinceCreate DEF w
  <2>5. {O, "item"} \cup {W} = {O, "item", W} /\ {O} \cup {} = {O} /\ {O} \cup {W} = {O, W}
    OBVIOUS
  <2>6. QED
    BY <2>1, <2>3, <2>4, <2>5
<1> HIDE DEF s3
<1>10. Block(s4, {O, "item", W}, {O, W}, {O, W}) /\ Since(s4, Len(s4), O, A) /\ Since(s4, Len(s4), W, O)
  <2>1. Block(s4, {O, "item", W} \cup {"item"}, {O} \cup {W}, {O, W} \cup {})
    BY <1>4, <1>9, BlocksJoin
  <2>2. /\ s3 \in Seq(CallSet) /\ O \notin {"item"} /\ A \notin {"item"} /\ W \notin {"item"}
        /\ A \notin {W} /\ O \notin {W}
    BY <1>9 DEF Block
  <2>3. Since(s4, Len(s4), O, A)
    BY <1>4, <1>9, <2>2, SinceKept
  <2>4. Since(s4, Len(s4), W, O)
    BY <1>4, <1>9, <2>2, SinceKept
  <2>5. {O, "item", W} \cup {"item"} = {O, "item", W} /\ {O} \cup {W} = {O, W} /\ {O, W} \cup {} = {O, W}
    OBVIOUS
  <2>6. QED
    BY <2>1, <2>3, <2>4, <2>5
<1> HIDE DEF s4
<1>11. Block(s5, {O, "item", W}, {O, W}, {O}) /\ Since(s5, Len(s5), O, A)
  <2>1. s5 = s4 \o <<a>> /\ s4 \in Seq(CallSet) /\ a.call # "create" /\ a.to # a.var /\ a.to # A /\ a.var # O
    BY <1>5, <1>10 DEF Block
  <2>2. Since(s4, Len(s4), a.var, a.to)
    BY <1>5, <1>10
  <2>3. Block(s4 \o <<a>>, {O, "item", W} \cup {a.var}, {O, W} \cup {a.to}, {O, W} \ {a.var})
    BY <1>10, <2>1, <2>2, AddedBlock
  <2>4. Since(s4 \o <<a>>, Len(s4 \o <<a>>), O, A)
    BY <1>10, <2>1, SinceKeptByAdd
  <2>5. {O, "item", W} \cup {a.var} = {O, "item", W} /\ {O, W} \cup {a.to} = {O, W} /\ {O, W} \ {a.var} = {O}
    BY <1>5
  <2>6. QED
    BY <2>1, <2>3, <2>4, <2>5
<1> HIDE DEF s5
<1>12. Block(s6, {O, "item", W}, {O, W, A}, {})
  <2>1. s6 = s5 \o <<b>> /\ b.call # "create" /\ b.to # b.var
    BY <1>6
  <2>2. Since(s5, Len(s5), b.var, b.to)
    BY <1>6, <1>11
  <2>3. Block(s5 \o <<b>>, {O, "item", W} \cup {b.var}, {O, W} \cup {b.to}, {O} \ {b.var})
    BY <1>11, <2>1, <2>2, AddedBlock
  <2>4. {O, "item", W} \cup {b.var} = {O, "item", W} /\ {O, W} \cup {b.to} = {O, W, A} /\ {O} \ {b.var} = {}
    BY <1>6
  <2>5. QED
    BY <2>1, <2>3, <2>4
<1>13. QED
  BY <1>7, <1>12 DEF NeuronVars

LayerVars == {"layerObject", "neuronsArray"} \cup NeuronVars
\* The calls for a layer are a piece.
LEMMA LayerBlock ==
  ASSUME net \in Networks, NEW i \in 1 .. Len(net)
  PROVE  Block(LayerCalls(i), LayerVars, LayerVars \cup {"layersArray"}, {})
<1> DEFINE O == "layerObject"
           W == "neuronsArray"
           A == "layersArray"
           NT == {"neuronObject", "weightsArray", "neuronsArray"}
           s1 == Create(O, "object", 0)
           f == AddFields(O, LayerFields, i, 0)
           s2 == s1 \o f
           w == Create(W, "array", 0)
           s3 == s2 \o w
           ws == [j \in 1 .. net[i] |-> NeuronCalls(i, j)]
           g == FlattenSeq(ws)
           s4 == s3 \o g
           s5 == s4 \o Add(O, W, W)
           s6 == s5 \o AppendTo(A, O)
           V3 == {O, "item", W}
           V4 == V3 \cup NeuronVars
           T4 == {O} \cup NT
<1>0. /\ O \in Pointers /\ W \in Pointers /\ A \in Pointers
      /\ "object" \in Types /\ "array" \in Types
      /\ 0 \in Int /\ i \in Int /\ W \in Names /\ O \in Pointers \ {"item"}
      /\ LayerFields \in {RootFields, NetworkFields, LayerFields, NeuronFields}
  BY NamesAre DEF Pointers, Types
<1>1. Block(s1, {O}, {}, {O}) /\ Since(s1, Len(s1), O, A)
  BY <1>0, CreateBlock, SinceCreated
<1>2. Block(f, {"item"}, {O}, {})
  BY <1>0, FieldListsAre, FieldsBlock
<1>3. Block(w, {W}, {}, {W})
  BY <1>0, CreateBlock
<1>4. Block(g, NeuronVars, NT, {})
  <2>1. net[i] \in Nat
    BY NetworksAssumption
  <2>2. ASSUME NEW j \in 1 .. net[i] PROVE Block(ws[j], NeuronVars, NT, {})
    BY <2>1, NeuronBlock
  <2>3. ws = [j \in 1 .. net[i] |-> ws[j]]
    OBVIOUS
  <2> HIDE DEF ws
  <2>4. Len(ws) = net[i] /\ (net[i] = 0 => ws = <<>>)
    BY <2>1, <2>3, ListLength
  <2>5. QED
    BY <2>1, <2>2, <2>4, FlattenBlock
<1>5. PICK a \in CallSet : a.call = "add" /\ a.to = O /\ a.var = W /\ Add(O, W, W) = <<a>>
  BY <1>0, AddIs
<1>6. PICK b \in CallSet : b.call = "append" /\ b.to = A /\ b.var = O /\ AppendTo(A, O) = <<b>>
  BY <1>0, AppendIs
<1>7. LayerCalls(i) = s6
  BY DEF LayerCalls
<1> HIDE DEF s1, f, w, g
<1>8. Block(s2, {O, "item"}, {O}, {O}) /\ Since(s2, Len(s2), O, A)
  <2>1. Block(s2, {O} \cup {"item"}, {} \cup {O}, {O} \cup {})
    BY <1>1, <1>2, BlocksJoin
  <2>2. s1 \in Seq(CallSet) /\ O \notin {"item"} /\ A \notin {"item"} /\ A \notin {O}
    BY <1>1 DEF Block
  <2>3. Since(s2, Len(s2), O, A)
    BY <1>1, <1>2, <2>2, SinceKept
  <2>4. {O} \cup {"item"} = {O, "item"} /\ {} \cup {O} = {O} /\ {O} \cup {} = {O}
    OBVIOUS
  <2>5. QED
    BY <2>1, <2>3, <2>4
<1> HIDE DEF s2
<1>9. Block(s3, V3, {O}, {O, W}) /\ Since(s3, Len(s3), O, A) /\ Since(s3, Len(s3), W, O)
  <2>1. Block(s3, {O, "item"} \cup {W}, {O} \cup {}, {O} \cup {W})
    BY <1>3, <1>8, BlocksJoin
  <2>2. s2 \in Seq(CallSet) /\ O \notin {W} /\ A \notin {W} /\ A \notin {}
    BY <1>8 DEF Block
  <2>3. Since(s3, Len(s3), O, A)
    BY <1>3, <1>8, <2>2, SinceKept
  <2>4. Since(s3, Len(s3), W, O)
    BY <1>0, <2>2, SinceCreate DEF w
  <2>5. {O, "item"} \cup {W} = V3 /\ {O} \cup {} = {O} /\ {O} \cup {W} = {O, W}
    OBVIOUS
  <2>6. QED
    BY <2>1, <2>3, <2>4, <2>5
<1> HIDE DEF s3
<1>10. Block(s4, V4, T4, {O, W}) /\ Since(s4, Len(s4), O, A) /\ Since(s4, Len(s4), W, O)
  <2>1. {O, W} \cap NeuronVars = {} /\ A \notin NeuronVars /\ A \notin NT /\ O \notin NT
    BY DEF NeuronVars
  <2>2. Block(s4, V4, T4, {O, W} \cup {})
    BY <1>4, <1>9, <2>1, BlocksJoin
  <2>3. s3 \in Seq(CallSet) /\ O \notin NeuronVars /\ W \notin NeuronVars
    BY <1>9, <2>1 DEF Block
  <2>4. Since(s4, Len(s4), O, A)
    BY <1>4, <1>9, <2>1, <2>3, SinceKept
  <2>5. Since(s4, Len(s4), W, O)
    BY <1>4, <1>9, <2>1, <2>3, SinceKept
  <2>6. {O, W} \cup {} = {O, W}
    OBVIOUS
  <2>7. QED
    BY <2>2, <2>4, <2>5, <2>6
<1> HIDE DEF s4
<1>11. Block(s5, V4, T4, {O}) /\ Since(s5, Len(s5), O, A)
  <2>1. s5 = s4 \o <<a>> /\ s4 \in Seq(CallSet) /\ a.call # "create" /\ a.to # a.var /\ a.to # A /\ a.var # O
    BY <1>5, <1>10 DEF Block
  <2>2. Since(s4, Len(s4), a.var, a.to)
    BY <1>5, <1>10
  <2>3. Block(s4 \o <<a>>, V4 \cup {a.var}, T4 \cup {a.to}, {O, W} \ {a.var})
    BY <1>10, <2>1, <2>2, AddedBlock
  <2>4. Since(s4 \o <<a>>, Len(s4 \o <<a>>), O, A)
    BY <1>10, <2>1, SinceKeptByAdd
  <2>5. V4 \cup {a.var} = V4 /\ T4 \cup {a.to} = T4 /\ {O, W} \ {a.var} = {O}
    BY <1>5
  <2>6. QED
    BY <2>1, <2>3, <2>4, <2>5
<1> HIDE DEF s5
<1>12. Block(s6, V4, T4 \cup {A}, {})
  <2>1. s6 = s5 \o <<b>> /\ b.call # "create" /\ b.to # b.var
    BY <1>6
  <2>2. Since(s5, Len(s5), b.var, b.to)
    BY <1>6, <1>11
  <2>3. Block(s5 \o <<b>>, V4 \cup {b.var}, T4 \cup {b.to}, {O} \ {b.var})
    BY <1>11, <2>1, <2>2, AddedBlock
  <2>4. V4 \cup {b.var} = V4 /\ T4 \cup {b.to} = T4 \cup {A} /\ {O} \ {b.var} = {}
    BY <1>6
  <2>5. QED
    BY <2>1, <2>3, <2>4
<1>13. V4 = LayerVars /\ T4 \cup {A} \subseteq LayerVars \cup {"layersArray"}
  BY DEF LayerVars, NeuronVars
<1>14. QED
  BY <1>7, <1>12, <1>13, WiderBlock

\* All of the calls are a piece, at the end of which only the root is not
\* added.
LEMMA CallsBlock ==
  ASSUME net \in Networks
  PROVE  Block(Calls, Pointers, Pointers, {"root"}) /\ Pending(Calls, Len(Calls), "root")
<1> DEFINE R == "root"
           J == "jsonNeuralNetwork"
           A == "layersArray"
           LT == LayerVars \cup {A}
           s1 == Create(R, "object", 0)
           f == AddFields(R, RootFields, 0, 0)
           s2 == s1 \o f
           j == Create(J, "object", 0)
           s3 == s2 \o j
           s4 == s3 \o Add(R, "neuralnetwork", J)
           h == AddFields(J, NetworkFields, 0, 1)
           s5 == s4 \o h
           w == Create(A, "array", 0)
           s6 == s5 \o w
           ws == [i \in DOMAIN net |-> LayerCalls(i)]
           g == FlattenSeq(ws)
           none == "none"
           s7 == s6 \o g
           s8 == s7 \o Add(J, A, A)
<1>0. /\ R \in Pointers /\ J \in Pointers /\ A \in Pointers /\ LT \subseteq Pointers
      /\ R # "item" /\ J # "item" /\ R \notin LT /\ J \notin LT
      /\ LayerVars \subseteq Pointers /\ R \notin LayerVars /\ J \notin LayerVars /\ A \notin LayerVars
      /\ "object" \in Types /\ "array" \in Types
      /\ 0 \in Int /\ 1 \in Int /\ A \in Names /\ "neuralnetwork" \in Names
      /\ RootFields \in {RootFields, NetworkFields, LayerFields, NeuronFields}
      /\ NetworkFields \in {RootFields, NetworkFields, LayerFields, NeuronFields}
      /\ {"item"} \subseteq Pointers /\ {R} \subseteq Pointers /\ {J} \subseteq Pointers /\ {} \subseteq Pointers
      /\ {A} \subseteq Pointers /\ none \notin Pointers /\ none # R
  BY NamesAre DEF Pointers, Types, LayerVars, NeuronVars
<1> DEFINE Made(s, P) == Block(s, Pointers, Pointers, P) /\ Since(s, Len(s), R, none)
<1>1. Made(s1, {R})
  <2>1. Block(s1, {R}, {}, {R})
    BY <1>0, CreateBlock
  <2>2. Since(s1, Len(s1), R, none)
    BY <1>0, SinceCreated
  <2> HIDE DEF s1
  <2>3. {R} \subseteq {R}
    OBVIOUS
  <2>4. QED
    BY <1>0, <2>1, <2>2, <2>3, WiderBlock
<1>2. Block(f, {"item"}, {R}, {}) /\ Block(h, {"item"}, {J}, {})
  BY <1>0, FieldListsAre, FieldsBlock
<1>3. Block(j, {J}, {}, {J}) /\ Block(w, {A}, {}, {A})
  BY <1>0, CreateBlock
<1>4. Block(g, LayerVars, LT, {})
  <2>1. net \in Seq(Nat \ {0}) /\ DOMAIN net = 1 .. Len(net) /\ Len(net) \in Nat
    BY NetworksAssumption
  <2>2. ASSUME NEW i \in 1 .. Len(net) PROVE Block(ws[i], LayerVars, LT, {})
    BY <2>1, LayerBlock
  <2>3. ws = [i \in 1 .. Len(net) |-> ws[i]]
    BY <2>1
  <2> HIDE DEF ws
  <2>4. Len(ws) = Len(net) /\ (Len(net) = 0 => ws = <<>>)
    BY <2>1, <2>3, ListLength
  <2>5. QED
    BY <2>1, <2>2, <2>4, FlattenBlock
<1>5. PICK a \in CallSet : a.call = "add" /\ a.to = R /\ a.var = J /\ Add(R, "neuralnetwork", J) = <<a>>
  BY <1>0, AddIs
<1>6. PICK b \in CallSet : b.call = "add" /\ b.to = J /\ b.var = A /\ Add(J, A, A) = <<b>>
  BY <1>0, AddIs
<1>7. Calls = s8
  BY DEF Calls
<1>8. ASSUME NEW s, NEW P, Made(s, P), NEW t, NEW V, NEW T, NEW P2, Block(t, V, T, P2),
             V \subseteq Pointers, T \subseteq Pointers, P \cap V = {}, R \notin V
      PROVE  Made(s \o t, P \cup P2)
  <2>1. Block(s \o t, Pointers \cup V, Pointers \cup T, P \cup P2)
    BY <1>8, BlocksJoin
  <2>2. Pointers \cup V = Pointers /\ Pointers \cup T = Pointers /\ none \notin V /\ none \notin T
    BY <1>0, <1>8
  <2>3. s \in Seq(CallSet)
    BY <1>8 DEF Block
  <2>4. Since(s \o t, Len(s \o t), R, none)
    BY <1>8, <2>2, <2>3, SinceKept
  <2>5. QED
    BY <2>1, <2>2, <2>4
<1>9. ASSUME NEW s, NEW P, Made(s, P), NEW c \in CallSet, c.call # "create",
             c.to \in Pointers, c.var \in Pointers, c.to # c.var, Since(s, Len(s), c.var, c.to), c.var # R
      PROVE  Made(s \o <<c>>, P \ {c.var})
  <2>1. Block(s \o <<c>>, Pointers \cup {c.var}, Pointers \cup {c.to}, P \ {c.var})
    BY <1>9, AddedBlock
  <2>2. Pointers \cup {c.var} = Pointers /\ Pointers \cup {c.to} = Pointers /\ c.to # none
    BY <1>0, <1>9
  <2>3. s \in Seq(CallSet)
    BY <1>9 DEF Block
  <2>4. Since(s \o <<c>>, Len(s \o <<c>>), R, none)
    BY <1>9, <2>2, <2>3, SinceKeptByAdd
  <2>5. QED
    BY <2>1, <2>2, <2>4
<1> HIDE DEF s1, f, j, h, w, g, Made
<1>10. Made(s2, {R} \cup {})
  BY <1>0, <1>1, <1>2, <1>8
<1> HIDE DEF s2
<1>11. Made(s3, {R, J}) /\ Since(s3, Len(s3), J, R)
  <2>1. Made(s2, {R})
    BY <1>10
  <2>2. Made(s3, {R} \cup {J})
    BY <1>0, <1>3, <1>8, <2>1
  <2>3. s2 \in Seq(CallSet)
    BY <2>1 DEF Made, Block
  <2>4. Since(s3, Len(s3), J, R)
    BY <1>0, <2>3, SinceCreate DEF j
  <2>5. QED
    BY <2>2, <2>4
<1> HIDE DEF s3
<1>12. Made(s4, {R})
  <2>1. Made(s3 \o <<a>>, {R, J} \ {a.var})
    BY <1>0, <1>5, <1>9, <1>11
  <2>2. {R, J} \ {a.var} = {R}
    BY <1>5
  <2>3. QED
    BY <1>5, <2>1, <2>2
<1> HIDE DEF s4
<1>13. Made(s5, {R} \cup {})
  BY <1>0, <1>2, <1>8, <1>12
<1> HIDE DEF s5
<1>14. Made(s6, {R, A}) /\ Since(s6, Len(s6), A, J)
  <2>1. Made(s5, {R})
    BY <1>13
  <2>2. Made(s6, {R} \cup {A})
    BY <1>0, <1>3, <1>8, <2>1
  <2>3. s5 \in Seq(CallSet)
    BY <2>1 DEF Made, Block
  <2>4. Since(s6, Len(s6), A, J)
    BY <1>0, <2>3, SinceCreate DEF w
  <2>5. QED
    BY <2>2, <2>4
<1> HIDE DEF s6
<1>15. Made(s7, {R, A}) /\ Since(s7, Len(s7), A, J)
  <2>1. Made(s7, {R, A} \cup {})
    BY <1>0, <1>4, <1>8, <1>14
  <2>2. s6 \in Seq(CallSet)
    BY <1>14 DEF Made, Block
  <2>3. Since(s7, Len(s7), A, J)
    BY <1>0, <1>4, <1>14, <2>2, SinceKept
  <2>4. QED
    BY <2>1, <2>3
<1> HIDE DEF s7
<1>16. Made(s8, {R})
  <2>1. Made(s7 \o <<b>>, {R, A} \ {b.var})
    BY <1>0, <1>6, <1>9, <1>15
  <2>2. {R, A} \ {b.var} = {R}
    BY <1>6
  <2>3. QED
    BY <1>6, <2>1, <2>2
<1> HIDE DEF s8
<1>17. Block(s8, Pointers, Pointers, {R}) /\ Since(s8, Len(s8), R, none)
  BY <1>16 DEF Made
<1>18. Pending(s8, Len(s8), R)
  BY <1>17 DEF Since, Pending
<1>19. QED
  BY <1>7, <1>17, <1>18

-----------------------------------------------------------------------------
(***************************************************************************)
(* The tree while it is built, after n of the calls s: what the variables  *)
(* l point to, and what is lost (lo). A variable whose item is not added   *)
(* yet has it alone, and it is younger than the item it will be added to   *)
(* and all that this one has.                                              *)
(***************************************************************************)

\* What one more call makes of what is pending.
LEMMA PendingStep ==
  ASSUME NEW s, NEW n \in Nat, NEW c, s[n + 1] = c, NEW v
  PROVE  Pending(s, n + 1, v) <=> Creates(c, v) \/ (Pending(s, n, v) /\ c.var # v)
<1>1. ASSUME Pending(s, n + 1, v) PROVE Creates(c, v) \/ (Pending(s, n, v) /\ c.var # v)
  <2>1. PICK d \in 1 .. n + 1 : Creates(s[d], v) /\ \A e \in d + 1 .. n + 1 : s[e].var # v
    BY <1>1 DEF Pending
  <2>2. CASE d = n + 1
    BY <2>1, <2>2
  <2>3. CASE d # n + 1
    <3>1. d \in 1 .. n /\ n + 1 \in d + 1 .. n + 1 /\ \A e \in d + 1 .. n : e \in d + 1 .. n + 1
      BY <2>3
    <3>2. QED
      BY <2>1, <3>1 DEF Pending
  <2>4. QED
    BY <2>2, <2>3
<1>2. ASSUME Creates(c, v) PROVE Pending(s, n + 1, v)
  <2>1. n + 1 \in 1 .. n + 1 /\ \A d \in (n + 1) + 1 .. n + 1 : FALSE
    OBVIOUS
  <2>2. QED
    BY <1>2, <2>1 DEF Pending
<1>3. ASSUME Pending(s, n, v), c.var # v PROVE Pending(s, n + 1, v)
  <2>1. PICK d \in 1 .. n : Creates(s[d], v) /\ \A e \in d + 1 .. n : s[e].var # v
    BY <1>3 DEF Pending
  <2>2. d \in 1 .. n + 1 /\ \A e \in d + 1 .. n + 1 : e \in d + 1 .. n \/ e = n + 1
    OBVIOUS
  <2>3. QED
    BY <1>3, <2>1, <2>2 DEF Pending
<1>4. QED
  BY <1>1, <1>2, <1>3

LEMMA SinceStep ==
  ASSUME NEW s, NEW n \in Nat, NEW c, s[n + 1] = c, NEW v, NEW w, Since(s, n + 1, v, w)
  PROVE  \/ Creates(c, v)
         \/ Since(s, n, v, w) /\ c.var # v /\ ~Creates(c, w) /\ ~Adds(c, w)
<1>1. PICK d \in 1 .. n + 1 :
        /\ Creates(s[d], v)
        /\ \A e \in d + 1 .. n + 1 : s[e].var # v /\ ~Creates(s[e], w) /\ ~Adds(s[e], w)
  BY DEF Since
<1>2. CASE d = n + 1
  BY <1>1, <1>2
<1>3. CASE d # n + 1
  <2>1. d \in 1 .. n /\ n + 1 \in d + 1 .. n + 1 /\ \A e \in d + 1 .. n : e \in d + 1 .. n + 1
    BY <1>3
  <2>2. QED
    BY <1>1, <2>1 DEF Since
<1>4. QED
  BY <1>2, <1>3

LEMMA SinceIsPending ==
  ASSUME NEW s, NEW n, NEW v, NEW w, Since(s, n, v, w)
  PROVE  Pending(s, n, v)
BY DEF Since, Pending
-----------------------------------------------------------------------------
\* What the variables point to is used and different; nothing else is without
\* an item around it but what is lost.
Known(h, l, lo) ==
  /\ \A v \in Pointers : l[v] = NULL \/ l[v] \in Allocated(h)
  /\ \A v, w \in Pointers : v # w /\ l[v] # NULL => l[v] # l[w]
  /\ lo \subseteq Allocated(h) /\ \A b \in lo : ~Pointed(h, b)
  /\ \A b \in Allocated(h) : b \in lo \/ (\E v \in Pointers : b = l[v]) \/ Pointed(h, b)
\* A variable has its item alone until it is added; items are added in the
\* order of their making.
Timely(s, n, h, l, lo) ==
  /\ \A v \in Pointers : l[v] # NULL /\ Pending(s, n, v) => Alone(h, l[v]) /\ l[v] \notin lo
  /\ \A v \in Pointers : l[v] # NULL /\ ~Pending(s, n, v) => Pointed(h, l[v]) \/ l[v] \in lo
  /\ \A v, w \in Pointers : v # w /\ l[v] # NULL /\ l[w] # NULL /\ Since(s, n, v, w) =>
       l[w] < l[v] /\ (h[l[w]].child # NULL => h[h[l[w]].child].prev < l[v])
Building(s, n, h, l, lo) ==
  /\ \E H, E : Memory(h, H, E)
  /\ Consecutive(h) /\ Known(h, l, lo) /\ Timely(s, n, h, l, lo)

\* What is at the end of a list of an item was allocated.
LEMMA LastIsAllocated ==
  ASSUME NEW h, NEW H, NEW E, Memory(h, H, E), NEW a \in Cells, h[a].child # NULL
  PROVE  h[h[a].child].prev \in Allocated(h)
<1>1. h[a].child \in Allocated(h) /\ h[h[a].child].prev = E[h[a].child]
  BY DEF Memory, Forest, Closed
<1>2. QED
  BY <1>1, EndIsAllocated DEF Memory

LEMMA ExtendedMemory ==
  ASSUME NEW h, NEW H, NEW E, Memory(h, H, E), NEW g, NEW x, Extended(h, g, x)
  PROVE  Memory(g, H, E) /\ \A b : Pointed(g, b) <=> Pointed(h, b)
<1>1. Relabelled(h, g) /\ E \in [Cells -> Cells]
  BY DEF Extended, Memory, Chains
<1>2. QED
  BY <1>1, RelabelledForest DEF Memory

\* cJSON_Create... succeeds.
LEMMA CreatedIsBuilding ==
  ASSUME NEW s \in Seq(CallSet), Ordered(s), NEW n \in Nat, n + 1 \in 1 .. Len(s),
         NEW c \in CallSet, s[n + 1] = c, c.call = "create",
         NEW h, NEW l \in [Pointers -> Cells], NEW lo, Building(s, n, h, l, lo), HasRoom(h),
         NEW g, g = cJSON_New_Item(h, c.type, c.value),
         NEW k, k = [l EXCEPT ![c.var] = NewAddress(h)]
  PROVE  Building(s, n + 1, g, k, lo)
<1> DEFINE x == NewAddress(h)
<1>1. PICK H, E : Memory(h, H, E)
  BY DEF Building
<1>2. c.var \in Pointers /\ c.type \in Types /\ c.value \in Int
  BY DEF CallSet
<1>3. Extended(h, g, x)
  BY <1>1, <1>2, NewItemExtends DEF Memory
<1>4. Memory(g, H, E) /\ \A b : Pointed(g, b) <=> Pointed(h, b)
  BY <1>1, <1>3, ExtendedMemory
<1>5. /\ Consecutive(g) /\ \A b \in Allocated(h) : b < x
      /\ Allocated(g) = Allocated(h) \cup {x} /\ x \notin Allocated(h) /\ x # NULL
      /\ \A a \in Cells : a # x => g[a] = h[a]
      /\ Alone(g, x) /\ g[x].child = NULL
  BY <1>3 DEF Extended, Building, Addresses, NULL
<1>6. /\ k[c.var] = x /\ \A v \in Pointers : v # c.var => k[v] = l[v]
  BY <1>2
<1> HIDE DEF x
<1>7. Known(h, l, lo) /\ Timely(s, n, h, l, lo)
  BY DEF Building
<1>8. \A v \in Pointers : v # c.var => k[v] # x
  BY <1>5, <1>6, <1>7 DEF Known
<1>9. ~Pending(s, n, c.var)
  <2>1. (n + 1) - 1 = n
    OBVIOUS
  <2>2. QED
    BY <2>1 DEF Ordered
<1>10. Known(g, k, lo)
  <2>1. \A v \in Pointers : k[v] = NULL \/ k[v] \in Allocated(g)
    BY <1>5, <1>6, <1>7 DEF Known
  <2>2. \A v, w \in Pointers : v # w /\ k[v] # NULL => k[v] # k[w]
    BY <1>6, <1>7, <1>8 DEF Known
  <2>3. lo \subseteq Allocated(g) /\ \A b \in lo : ~Pointed(g, b)
    BY <1>4, <1>5, <1>7 DEF Known
  <2>4. ASSUME NEW b \in Allocated(g)
        PROVE  b \in lo \/ (\E v \in Pointers : b = k[v]) \/ Pointed(g, b)
    <3>1. CASE b = x
      BY <1>2, <1>6, <3>1
    <3>2. CASE b # x /\ b # l[c.var]
      BY <1>4, <1>5, <1>6, <1>7, <3>2 DEF Known
    <3>3. CASE b # x /\ b = l[c.var]
      <4>1. l[c.var] # NULL
        BY <1>5, <3>3, AllocatedAreCells
      <4>2. Pointed(h, b) \/ b \in lo
        BY <1>2, <1>7, <1>9, <3>3, <4>1 DEF Timely
      <4>3. QED
        BY <1>4, <4>2
    <3>4. QED
      BY <3>1, <3>2, <3>3
  <2>5. QED
    BY <2>1, <2>2, <2>3, <2>4 DEF Known
<1>11. \A v \in Pointers : Pending(s, n + 1, v) <=> v = c.var \/ Pending(s, n, v)
  <2>1. \A v : Pending(s, n + 1, v) <=> Creates(c, v) \/ (Pending(s, n, v) /\ c.var # v)
    BY PendingStep
  <2>2. QED
    BY <2>1 DEF Creates
<1>12. \A v \in Pointers : l[v] \in Cells
  OBVIOUS
<1>13. ASSUME NEW y \in Cells, Alone(h, y) PROVE Alone(g, y)
  <2>1. y # x
    BY <1>5, <1>13 DEF Alone
  <2>2. QED
    BY <1>4, <1>5, <1>13, <2>1 DEF Alone
<1>14. ASSUME NEW v \in Pointers, k[v] # NULL, Pending(s, n + 1, v)
       PROVE  Alone(g, k[v]) /\ k[v] \notin lo
  <2>1. CASE v = c.var
    BY <1>5, <1>6, <1>7, <2>1 DEF Known
  <2>2. CASE v # c.var
    BY <1>6, <1>7, <1>11, <1>12, <1>13, <1>14, <2>2 DEF Timely
  <2>3. QED
    BY <2>1, <2>2
<1>15. ASSUME NEW v \in Pointers, k[v] # NULL, ~Pending(s, n + 1, v)
       PROVE  Pointed(g, k[v]) \/ k[v] \in lo
  BY <1>4, <1>6, <1>7, <1>11, <1>15 DEF Timely
<1>16. ASSUME NEW v \in Pointers, NEW w \in Pointers, v # w, k[v] # NULL, k[w] # NULL, Since(s, n + 1, v, w)
       PROVE  k[w] < k[v] /\ (g[k[w]].child # NULL => g[g[k[w]].child].prev < k[v])
  <2>1. Creates(c, v) \/ (Since(s, n, v, w) /\ c.var # v /\ ~Creates(c, w))
    BY <1>16, SinceStep
  <2>2. w # c.var
    BY <1>16, <2>1 DEF Creates
  <2>3. /\ k[w] = l[w] /\ l[w] \in Allocated(h) /\ l[w] \in Cells /\ l[w] # x
        /\ g[l[w]] = h[l[w]]
    BY <1>5, <1>6, <1>7, <1>12, <1>16, <2>2 DEF Known
  <2>4. h[l[w]].child # NULL =>
          /\ g[h[l[w]].child] = h[h[l[w]].child] /\ h[h[l[w]].child].prev \in Allocated(h)
    <3>1. SUFFICES ASSUME h[l[w]].child # NULL
                   PROVE  /\ g[h[l[w]].child] = h[h[l[w]].child]
                          /\ h[h[l[w]].child].prev \in Allocated(h)
      OBVIOUS
    <3>2. h[l[w]].child \in Allocated(h)
      BY <1>1, <2>3, <3>1 DEF Memory, Forest
    <3>3. QED
      BY <1>1, <1>5, <2>3, <3>1, <3>2, AllocatedAreCells, LastIsAllocated
  <2>5. CASE v = c.var
    BY <1>5, <1>6, <2>3, <2>4, <2>5
  <2>6. CASE v # c.var
    <3>1. k[v] = l[v] /\ Since(s, n, v, w)
      BY <1>6, <2>1, <2>6 DEF Creates
    <3>2. l[w] < l[v] /\ (h[l[w]].child # NULL => h[h[l[w]].child].prev < l[v])
      BY <1>7, <1>16, <2>3, <3>1 DEF Timely
    <3>3. QED
      BY <2>3, <2>4, <3>1, <3>2
  <2>7. QED
    BY <2>5, <2>6
<1>17. Timely(s, n + 1, g, k, lo)
  BY <1>14, <1>15, <1>16 DEF Timely
<1>18. QED
  BY <1>4, <1>5, <1>10, <1>17 DEF Building

-----------------------------------------------------------------------------
(***************************************************************************)
(* A call that fails to make an item, or to add one, and one that adds     *)
(* it.                                                                     *)
(***************************************************************************)

\* cJSON_Create... fails.
LEMMA NotCreatedIsBuilding ==
  ASSUME NEW s \in Seq(CallSet), Ordered(s), NEW n \in Nat, n + 1 \in 1 .. Len(s),
         NEW c \in CallSet, s[n + 1] = c, c.call = "create",
         NEW h, NEW l \in [Pointers -> Cells], NEW lo, Building(s, n, h, l, lo),
         NEW k, k = [l EXCEPT ![c.var] = NULL]
  PROVE  Building(s, n + 1, h, k, lo)
<1>1. PICK H, E : Memory(h, H, E)
  BY DEF Building
<1>2. c.var \in Pointers
  BY DEF CallSet
<1>3. k[c.var] = NULL /\ \A v \in Pointers : v # c.var => k[v] = l[v]
  BY <1>2
<1>4. Known(h, l, lo) /\ Timely(s, n, h, l, lo) /\ Consecutive(h)
  BY DEF Building
<1>5. ~Pending(s, n, c.var)
  <2>1. (n + 1) - 1 = n
    OBVIOUS
  <2>2. QED
    BY <2>1 DEF Ordered
<1>6. Known(h, k, lo)
  <2>1. \A v \in Pointers : k[v] = NULL \/ k[v] \in Allocated(h)
    BY <1>3, <1>4 DEF Known
  <2>2. \A v, w \in Pointers : v # w /\ k[v] # NULL => k[v] # k[w]
    BY <1>3, <1>4 DEF Known
  <2>3. ASSUME NEW b \in Allocated(h)
        PROVE  b \in lo \/ (\E v \in Pointers : b = k[v]) \/ Pointed(h, b)
    <3>1. CASE b = l[c.var]
      BY <1>2, <1>4, <1>5, <3>1, AllocatedAreCells DEF Timely
    <3>2. CASE b # l[c.var]
      BY <1>3, <1>4, <3>2 DEF Known
    <3>3. QED
      BY <3>1, <3>2
  <2>4. QED
    BY <1>4, <2>1, <2>2, <2>3 DEF Known
<1>7. \A v \in Pointers : v # c.var => (Pending(s, n + 1, v) <=> Pending(s, n, v))
  <2>1. \A v : Pending(s, n + 1, v) <=> Creates(c, v) \/ (Pending(s, n, v) /\ c.var # v)
    BY PendingStep
  <2>2. QED
    BY <2>1 DEF Creates
<1>8. ASSUME NEW v \in Pointers, NEW w \in Pointers, v # w, k[v] # NULL, k[w] # NULL, Since(s, n + 1, v, w)
      PROVE  k[w] < k[v] /\ (h[k[w]].child # NULL => h[h[k[w]].child].prev < k[v])
  <2>1. v # c.var /\ w # c.var /\ k[v] = l[v] /\ k[w] = l[w]
    BY <1>3, <1>8
  <2>2. Since(s, n, v, w)
    BY <1>8, <2>1, SinceStep DEF Creates
  <2>3. QED
    BY <1>4, <1>8, <2>1, <2>2 DEF Timely
<1>9. Timely(s, n + 1, h, k, lo)
  BY <1>3, <1>4, <1>7, <1>8 DEF Timely
<1>10. QED
  BY <1>1, <1>4, <1>6, <1>9 DEF Building

LEMMA CallAdds ==
  ASSUME NEW s \in Seq(CallSet), Ordered(s), NEW n \in Nat, n + 1 \in 1 .. Len(s),
         NEW c \in CallSet, s[n + 1] = c, c.call # "create"
  PROVE  c.var \in Pointers /\ c.to \in Pointers /\ c.var # c.to /\ Since(s, n, c.var, c.to)
<1>1. c.var \in Pointers /\ c.to \in Pointers
  BY DEF CallSet
<1>2. (n + 1) - 1 = n
  OBVIOUS
<1>3. c.var # c.to /\ Since(s, n, c.var, c.to)
  BY <1>2 DEF Ordered
<1>4. QED
  BY <1>1, <1>3

LEMMA AddIsNotPending ==
  ASSUME NEW s \in Seq(CallSet), Ordered(s), NEW n \in Nat, n + 1 \in 1 .. Len(s),
         NEW c \in CallSet, s[n + 1] = c, c.call # "create"
  PROVE  /\ \A v \in Pointers : Pending(s, n + 1, v) <=> Pending(s, n, v) /\ v # c.var
         /\ \A v, w \in Pointers : Since(s, n + 1, v, w) => Since(s, n, v, w) /\ w # c.to
<1>1. \A v : Pending(s, n + 1, v) <=> Creates(c, v) \/ (Pending(s, n, v) /\ c.var # v)
  BY PendingStep
<1>2. \A v, w : Since(s, n + 1, v, w) =>
           Creates(c, v) \/ (Since(s, n, v, w) /\ c.var # v /\ ~Creates(c, w) /\ ~Adds(c, w))
  BY SinceStep
<1>3. QED
  BY <1>1, <1>2 DEF Creates, Adds

\* Before an item is added it is alone, and younger than all in the list.
LEMMA ItemIsReady ==
  ASSUME NEW s \in Seq(CallSet), Ordered(s), NEW n \in Nat, n + 1 \in 1 .. Len(s),
         NEW c \in CallSet, s[n + 1] = c, c.call # "create",
         NEW h, NEW l \in [Pointers -> Cells], NEW lo, Building(s, n, h, l, lo)
  PROVE  /\ l[c.var] # NULL => Alone(h, l[c.var]) /\ l[c.var] \notin lo
         /\ l[c.var] # NULL /\ l[c.to] # NULL =>
              /\ l[c.to] < l[c.var] /\ l[c.to] \in Allocated(h) /\ l[c.to] # l[c.var]
              /\ h[l[c.to]].child # NULL => h[h[l[c.to]].child].prev < l[c.var]
<1>1. c.var \in Pointers /\ c.to \in Pointers /\ c.var # c.to /\ Since(s, n, c.var, c.to)
  BY CallAdds
<1>2. Pending(s, n, c.var)
  BY <1>1, SinceIsPending
<1>3. Known(h, l, lo) /\ Timely(s, n, h, l, lo)
  BY DEF Building
<1>4. l[c.var] # NULL => Alone(h, l[c.var]) /\ l[c.var] \notin lo
  BY <1>1, <1>2, <1>3 DEF Timely
<1>5. l[c.var] # NULL /\ l[c.to] # NULL =>
              /\ l[c.to] < l[c.var] /\ l[c.to] \in Allocated(h) /\ l[c.to] # l[c.var]
              /\ h[l[c.to]].child # NULL => h[h[l[c.to]].child].prev < l[c.var]
  BY <1>1, <1>3 DEF Timely, Known
<1>6. QED
  BY <1>4, <1>5

\* Nothing is added.
LEMMA NotAddedIsBuilding ==
  ASSUME NEW s \in Seq(CallSet), Ordered(s), NEW n \in Nat, n + 1 \in 1 .. Len(s),
         NEW c \in CallSet, s[n + 1] = c, c.call # "create",
         NEW h, NEW l \in [Pointers -> Cells], NEW lo, Building(s, n, h, l, lo),
         NEW lo2, lo2 = lo \cup ({l[c.var]} \ {NULL})
  PROVE  Building(s, n + 1, h, l, lo2)
<1>1. PICK H, E : Memory(h, H, E)
  BY DEF Building
<1>2. Known(h, l, lo) /\ Timely(s, n, h, l, lo) /\ Consecutive(h)
  BY DEF Building
<1>3. /\ c.var \in Pointers /\ c.to \in Pointers /\ c.var # c.to
      /\ l[c.var] # NULL => Alone(h, l[c.var]) /\ l[c.var] \notin lo
      /\ \A v \in Pointers : Pending(s, n + 1, v) <=> Pending(s, n, v) /\ v # c.var
      /\ \A v, w \in Pointers : Since(s, n + 1, v, w) => Since(s, n, v, w)
  <2>1. c.var \in Pointers /\ c.to \in Pointers /\ c.var # c.to
    BY CallAdds
  <2>2. ASSUME l[c.var] # NULL PROVE Alone(h, l[c.var]) /\ l[c.var] \notin lo
    <3>1. Pending(s, n, c.var)
      BY CallAdds, SinceIsPending
    <3>2. QED
      BY <1>2, <2>1, <2>2, <3>1 DEF Timely
  <2>3. QED
    BY <2>1, <2>2, AddIsNotPending
<1>4. Known(h, l, lo2)
  BY <1>2, <1>3 DEF Known, Alone
<1>5. ASSUME NEW v \in Pointers, l[v] # NULL, Pending(s, n + 1, v)
      PROVE  Alone(h, l[v]) /\ l[v] \notin lo2
  <2>1. v # c.var /\ Pending(s, n, v) /\ l[v] # l[c.var]
    BY <1>2, <1>3, <1>5 DEF Known
  <2>2. QED
    BY <1>2, <1>5, <2>1 DEF Timely
<1>6. ASSUME NEW v \in Pointers, l[v] # NULL, ~Pending(s, n + 1, v)
      PROVE  Pointed(h, l[v]) \/ l[v] \in lo2
  BY <1>2, <1>3, <1>6 DEF Timely
<1>7. Timely(s, n + 1, h, l, lo2)
  BY <1>2, <1>3, <1>5, <1>6 DEF Timely
<1>8. QED
  BY <1>1, <1>2, <1>4, <1>7 DEF Building

\* An item is added.
LEMMA AddedIsBuilding ==
  ASSUME NEW s \in Seq(CallSet), Ordered(s), NEW n \in Nat, n + 1 \in 1 .. Len(s),
         NEW c \in CallSet, s[n + 1] = c, c.call # "create",
         NEW h, NEW l \in [Pointers -> Cells], NEW lo, Building(s, n, h, l, lo),
         l[c.var] # NULL, l[c.to] # NULL,
         NEW f, Relabelled(h, f), Allocated(f) = Allocated(h),
         NEW g, g = add_item_to_array(f, l[c.to], l[c.var])
  PROVE  Building(s, n + 1, g, l, lo)
<1> DEFINE p == l[c.to]
           x == l[c.var]
<1>1. PICK H, E : Memory(h, H, E)
  BY DEF Building
<1>2. Known(h, l, lo) /\ Timely(s, n, h, l, lo) /\ Consecutive(h)
  BY DEF Building
<1>3. /\ c.var \in Pointers /\ c.to \in Pointers /\ c.var # c.to
      /\ Alone(h, x) /\ x \notin lo
      /\ p < x /\ p \in Allocated(h) /\ p # x
      /\ h[p].child # NULL => h[h[p].child].prev < x
      /\ \A v \in Pointers : Pending(s, n + 1, v) <=> Pending(s, n, v) /\ v # c.var
      /\ \A v, w \in Pointers : Since(s, n + 1, v, w) => Since(s, n, v, w) /\ w # c.to
  <2>1. c.var \in Pointers /\ c.to \in Pointers /\ c.var # c.to
    BY CallAdds
  <2>2. /\ Alone(h, x) /\ x \notin lo
        /\ p < x /\ p \in Allocated(h) /\ p # x
        /\ h[p].child # NULL => h[h[p].child].prev < x
    BY ItemIsReady
  <2>3. QED
    BY <2>1, <2>2, AddIsNotPending
<1>4. /\ Memory(f, H, E) /\ \A b : Pointed(f, b) <=> Pointed(h, b)
      /\ \A a \in Cells : f[a].next = h[a].next /\ f[a].child = h[a].child /\ f[a].prev = h[a].prev
  <2>1. E \in [Cells -> Cells]
    BY <1>1 DEF Memory, Chains
  <2>2. QED
    BY <1>1, <2>1, RelabelledForest DEF Memory, Relabelled
<1>5. \A y : Alone(h, y) => Alone(f, y)
  BY <1>4, AllocatedAreCells DEF Alone
<1>6. p \in Cells /\ \A a \in Cells : f[a].child \in Cells
  BY <1>3, <1>4, AllocatedAreCells, FieldsAre DEF Memory, Forest
<1> HIDE DEF p, x
<1>7. PICK H2, E2 : Joined(f, g, p, x) /\ Memory(g, H2, E2)
  <2>1. p \in Allocated(f) /\ Alone(f, x) /\ (f[p].child # NULL => f[f[p].child].prev < x)
    BY <1>3, <1>4, <1>5, <1>6
  <2>2. g = add_item_to_array(f, p, x)
    BY DEF p, x
  <2>3. QED
    BY <1>3, <1>4, <2>1, <2>2, AddedIsJoined
<1>8. /\ Allocated(g) = Allocated(h)
      /\ \A b : b # NULL => (Pointed(g, b) <=> b = x \/ Pointed(h, b))
  BY <1>4, <1>7 DEF Joined
<1>9. \A b \in Allocated(h) : b # NULL
  BY AllocatedAreCells
<1>10. Consecutive(g)
  BY <1>2, <1>8 DEF Consecutive
<1>11. Known(g, l, lo)
  <2>1. \A b \in lo : b # x /\ ~Pointed(g, b)
    BY <1>2, <1>3, <1>8, <1>9 DEF Known
  <2>2. \A b \in Allocated(g) : b \in lo \/ (\E v \in Pointers : b = l[v]) \/ Pointed(g, b)
    BY <1>2, <1>8, <1>9 DEF Known
  <2>3. QED
    BY <1>2, <1>8, <2>1, <2>2 DEF Known
<1>12. ASSUME NEW v \in Pointers, l[v] # NULL, Pending(s, n + 1, v)
       PROVE  Alone(g, l[v]) /\ l[v] \notin lo
  <2>1. Pending(s, n, v) /\ l[v] # x
    BY <1>2, <1>3, <1>12 DEF Known, x
  <2>2. Alone(h, l[v]) /\ l[v] \notin lo
    BY <1>2, <1>12, <2>1 DEF Timely
  <2>3. g[l[v]].next = NULL
    BY <1>5, <1>7, <2>2 DEF Joined
  <2>4. QED
    BY <1>8, <1>12, <2>1, <2>2, <2>3 DEF Alone
<1>13. ASSUME NEW v \in Pointers, l[v] # NULL, ~Pending(s, n + 1, v)
       PROVE  Pointed(g, l[v]) \/ l[v] \in lo
  BY <1>2, <1>3, <1>8, <1>13 DEF Timely, x
<1>14. ASSUME NEW v \in Pointers, NEW w \in Pointers, v # w, l[v] # NULL, l[w] # NULL, Since(s, n + 1, v, w)
       PROVE  l[w] < l[v] /\ (g[l[w]].child # NULL => g[g[l[w]].child].prev < l[v])
  <2>1. Since(s, n, v, w) /\ w # c.to /\ l[w] \in Cells /\ l[w] # p
    BY <1>2, <1>3, <1>14 DEF Known, p
  <2>2. l[w] < l[v] /\ (h[l[w]].child # NULL => h[h[l[w]].child].prev < l[v])
    BY <1>2, <1>14, <2>1 DEF Timely
  <2>3. /\ g[l[w]].child = f[l[w]].child
        /\ f[l[w]].child # NULL => g[f[l[w]].child].prev = f[f[l[w]].child].prev
    BY <1>7, <2>1 DEF Joined
  <2>4. f[l[w]].child = h[l[w]].child /\ f[f[l[w]].child].prev = h[h[l[w]].child].prev
    BY <1>4, <1>6, <2>1
  <2>5. QED
    BY <2>2, <2>3, <2>4
<1>15. Timely(s, n + 1, g, l, lo)
  BY <1>12, <1>13, <1>14 DEF Timely
<1>16. QED
  BY <1>7, <1>10, <1>11, <1>15 DEF Building

-----------------------------------------------------------------------------
(***************************************************************************)
(* The memory of the parser. Until the end of a list is read only the      *)
(* frame knows it; so the frames, and the item of the whole text, are all  *)
(* that nothing points to.                                                 *)
(***************************************************************************)

\* A frame, when the parser is within a text, and what it parses into.
FrameType == [of : Cells, kind : {"array", "object"}, head : Cells, current : Cells]
Parsing(st) == st \notin {"idle", "fail", "parsed"}
TargetOf(it, fs) == IF fs = <<>> THEN it ELSE fs[Len(fs)].current

\* What the parser knows is all that nothing in the memory points to.
Held(h, it, fs) ==
  /\ it # NULL => it \in Allocated(h) /\ ~Pointed(h, it)
  /\ \A k \in 1 .. Len(fs) : fs[k].head # NULL =>
       fs[k].head \in Allocated(h) /\ ~Pointed(h, fs[k].head) /\ fs[k].head # it
  /\ \A j, k \in 1 .. Len(fs) : j # k /\ fs[j].head # NULL => fs[j].head # fs[k].head
  /\ \A b \in Allocated(h) : b = it \/ (\E k \in 1 .. Len(fs) : b = fs[k].head) \/ Pointed(h, b)

\* The lists of the frames: each after its item, each known from end to end.
FrameIs(h, E, f) ==
  /\ f.of \in Allocated(h) /\ h[f.of].child = NULL
  /\ f.head = NULL <=> f.current = NULL
  /\ f.head # NULL => f.of < f.head /\ E[f.head] = f.current
\* The frames are nested: each is of an item younger than that of the frame
\* around it.
Nest(h, E, it, fs) ==
  /\ Consecutive(h) /\ it \in Allocated(h)
  /\ \A k \in 1 .. Len(fs) : FrameIs(h, E, fs[k])
  /\ \A j, k \in 1 .. Len(fs) : j < k => fs[j].of < fs[k].of /\ fs[j].head # NULL

LEMMA RelabelParse ==
  ASSUME NEW h, NEW H, NEW E, Memory(h, H, E), NEW it, NEW fs, Held(h, it, fs),
         NEW g, Relabelled(h, g), Allocated(g) = Allocated(h)
  PROVE  Memory(g, H, E) /\ Held(g, it, fs) /\ (Nest(h, E, it, fs) => Nest(g, E, it, fs))
<1>1. E \in [Cells -> Cells]
  BY DEF Memory, Chains
<1>2. Memory(g, H, E) /\ \A b : Pointed(g, b) <=> Pointed(h, b)
  BY <1>1, RelabelledForest DEF Memory
<1>3. Held(g, it, fs)
  BY <1>2 DEF Held
<1>4. ASSUME Nest(h, E, it, fs) PROVE Nest(g, E, it, fs)
  <2>1. \A a \in Allocated(h) : g[a].child = h[a].child
    BY AllocatedAreCells DEF Relabelled
  <2>2. \A k \in 1 .. Len(fs) : FrameIs(g, E, fs[k])
    BY <1>4, <2>1 DEF Nest, FrameIs
  <2>3. QED
    BY <1>4, <2>2 DEF Nest, Consecutive
<1>5. QED
  BY <1>2, <1>3, <1>4

LEMMA FramesAre ==
  ASSUME NEW fs \in Seq(FrameType)
  PROVE  /\ Len(fs) \in Nat /\ \A k \in 1 .. Len(fs) : fs[k] \in FrameType
         /\ fs # <<>> => Len(fs) \in 1 .. Len(fs)
OBVIOUS

\* What is parsed into is the youngest of its list.
LEMMA TargetIs ==
  ASSUME NEW h, NEW H, NEW E, Memory(h, H, E), NEW it, NEW fs \in Seq(FrameType),
         Held(h, it, fs), Nest(h, E, it, fs),
         fs # <<>> => fs[Len(fs)].head # NULL
  PROVE  /\ TargetOf(it, fs) \in Allocated(h)
         /\ fs # <<>> => h[TargetOf(it, fs)].next = NULL /\ fs[Len(fs)].of < TargetOf(it, fs)
<1>1. CASE fs = <<>>
  BY <1>1 DEF TargetOf, Nest
<1>2. CASE fs # <<>>
  <2> DEFINE f == fs[Len(fs)]
  <2>1. FrameIs(h, E, f) /\ f \in FrameType
    BY <1>2, FramesAre DEF Nest
  <2>2. f.head \in Cells /\ f.head # NULL /\ f.current # NULL /\ f.current \in Cells /\ f.of \in Cells
    BY <1>2, <2>1 DEF FrameIs, FrameType
  <2>3. E[f.head] = f.current /\ f.of < f.head
    BY <2>1, <2>2 DEF FrameIs
  <2>4. f.head <= f.current /\ h[f.current].next = NULL
    BY <2>2, <2>3 DEF Memory, Chains
  <2>5. f.of < f.current
    BY <2>2, <2>3, <2>4, CellsAre
  <2>6. f.head \in Allocated(h)
    BY <1>2, <2>2, FramesAre DEF Held
  <2>7. f.current \in Allocated(h)
    BY <2>3, <2>6, EndIsAllocated DEF Memory
  <2>8. QED
    BY <1>2, <2>4, <2>5, <2>7 DEF TargetOf
<1>3. QED
  BY <1>1, <1>2

\* The item at an address is given another type, value or name.
LEMMA LabelIsRelabelled ==
  ASSUME NEW h, Forest(h), NEW a \in Allocated(h), NEW r \in ItemType, r.type # "free",
         r.next = h[a].next, r.prev = h[a].prev, r.child = h[a].child,
         NEW g, g = [h EXCEPT ![a] = r]
  PROVE  Relabelled(h, g) /\ Allocated(g) = Allocated(h)
<1>1. h \in [Cells -> ItemType] /\ h[NULL] = Free /\ a \in Cells /\ a # NULL /\ NULL \in Cells
  BY HeapIs, AllocatedAreCells DEF Forest, Cells
<1>2. /\ g \in [Cells -> ItemType] /\ g[a] = r
      /\ \A b \in Cells : b # a => g[b] = h[b]
  BY <1>1
<1>3. Allocated(g) = Allocated(h)
  BY <1>1, <1>2 DEF Allocated, Cells
<1>4. TypedHeap(g)
  BY <1>2, HeapIs
<1>5. \A b \in Cells : /\ g[b].next = h[b].next /\ g[b].prev = h[b].prev
                       /\ g[b].child = h[b].child
                       /\ g[b].type = "free" => g[b] = Free
  BY <1>1, <1>2 DEF Forest
<1>6. QED
  BY <1>1, <1>2, <1>3, <1>4, <1>5 DEF Relabelled

LEMMA LabelsAre ==
  ASSUME NEW h, Forest(h), NEW a \in Allocated(h),
         NEW g, \E type \in Types, value \in Int, key \in Keys :
                  \/ g = [h EXCEPT ![a].type = type, ![a].value = value]
                  \/ g = [h EXCEPT ![a].key = key, ![a].type = type]
                  \/ g = [h EXCEPT ![a].key = key]
  PROVE  Relabelled(h, g) /\ Allocated(g) = Allocated(h)
<1> PICK type \in Types, value \in Int, key \in Keys :
      \/ g = [h EXCEPT ![a].type = type, ![a].value = value]
      \/ g = [h EXCEPT ![a].key = key, ![a].type = type]
      \/ g = [h EXCEPT ![a].key = key]
  OBVIOUS
<1>1. h \in [Cells -> ItemType] /\ a \in Cells /\ h[a].type # "free" /\ h[a] \in ItemType
  BY HeapIs, AllocatedAreCells DEF Forest
<1>2. type # "free"
  BY DEF Types
<1> DEFINE r1 == [h[a] EXCEPT !.type = type, !.value = value]
           r2 == [h[a] EXCEPT !.key = key, !.type = type]
           r3 == [h[a] EXCEPT !.key = key]
<1>3. /\ r1 \in ItemType /\ r1.type # "free"
      /\ r1.next = h[a].next /\ r1.prev = h[a].prev /\ r1.child = h[a].child
  BY <1>1, <1>2 DEF ItemType
<1>4. /\ r2 \in ItemType /\ r2.type # "free"
      /\ r2.next = h[a].next /\ r2.prev = h[a].prev /\ r2.child = h[a].child
  BY <1>1, <1>2 DEF ItemType
<1>5. /\ r3 \in ItemType /\ r3.type # "free"
      /\ r3.next = h[a].next /\ r3.prev = h[a].prev /\ r3.child = h[a].child
  BY <1>1, <1>2 DEF ItemType
<1>6. /\ [h EXCEPT ![a].type = type, ![a].value = value] = [h EXCEPT ![a] = r1]
      /\ [h EXCEPT ![a].key = key, ![a].type = type] = [h EXCEPT ![a] = r2]
      /\ [h EXCEPT ![a].key = key] = [h EXCEPT ![a] = r3]
  BY <1>1
<1> HIDE DEF r1, r2, r3
<1>7. \A r \in ItemType :
        r.type # "free" /\ r.next = h[a].next /\ r.prev = h[a].prev /\ r.child = h[a].child =>
          Relabelled(h, [h EXCEPT ![a] = r]) /\ Allocated([h EXCEPT ![a] = r]) = Allocated(h)
  BY LabelIsRelabelled
<1>8. QED
  BY <1>3, <1>4, <1>5, <1>6, <1>7

-----------------------------------------------------------------------------
(***************************************************************************)
(* The frames: the innermost is replaced, left or entered.                 *)
(***************************************************************************)

LEMMA PrefixIs ==
  ASSUME NEW S, NEW s \in Seq(S), NEW m \in Nat, m <= Len(s)
  PROVE  LET t == SubSeq(s, 1, m)
         IN t \in Seq(S) /\ Len(t) = m /\ \A k \in 1 .. m : t[k] = s[k]
<1> DEFINE t == SubSeq(s, 1, m)
<1>1. \A i \in 1 .. m : s[i] \in S
  OBVIOUS
<1>2. /\ t \in Seq(S)
      /\ Len(t) = IF 1 <= m THEN m - 1 + 1 ELSE 0
      /\ \A i \in 1 .. m - 1 + 1 : t[i] = s[1 + i - 1]
  BY <1>1, SubSeqProperties
<1> HIDE DEF t
<1>3. Len(t) = m
  BY <1>2
<1>4. \A i \in 1 .. m : i \in 1 .. m - 1 + 1 /\ 1 + i - 1 = i
  OBVIOUS
<1>5. \A i \in 1 .. m : t[i] = s[i]
  BY <1>2, <1>4
<1>6. QED
  BY <1>2, <1>3, <1>5 DEF t

LEMMA InnerReplaced ==
  ASSUME NEW fs \in Seq(FrameType), fs # <<>>, NEW f \in FrameType,
         NEW gs, gs = Append(SubSeq(fs, 1, Len(fs) - 1), f)
  PROVE  /\ gs \in Seq(FrameType) /\ Len(gs) = Len(fs) /\ gs[Len(fs)] = f /\ gs # <<>>
         /\ \A k \in 1 .. Len(fs) : k # Len(fs) => gs[k] = fs[k]
<1> DEFINE o == SubSeq(fs, 1, Len(fs) - 1)
<1>1. Len(fs) \in Nat /\ Len(fs) >= 1
  OBVIOUS
<1>2. o \in Seq(FrameType) /\ Len(o) = Len(fs) - 1 /\ \A k \in 1 .. Len(fs) - 1 : o[k] = fs[k]
  <2>1. Len(fs) - 1 \in Nat /\ Len(fs) - 1 <= Len(fs)
    BY <1>1
  <2>2. QED
    BY <2>1, PrefixIs
<1> HIDE DEF o
<1>3. gs = Append(o, f)
  BY DEF o
<1>4. gs \in Seq(FrameType) /\ Len(gs) = Len(o) + 1 /\ gs[Len(o) + 1] = f /\ \A k \in 1 .. Len(o) : gs[k] = o[k]
  BY <1>2, <1>3
<1>5. Len(o) + 1 = Len(fs)
  BY <1>1, <1>2
<1>6. gs # <<>>
  BY <1>1, <1>4, <1>5
<1>7. \A k \in 1 .. Len(fs) : k # Len(fs) => k \in 1 .. Len(o) /\ k \in 1 .. Len(fs) - 1
  BY <1>1, <1>2
<1>8. QED
  BY <1>2, <1>4, <1>5, <1>6, <1>7

LEMMA OuterIs ==
  ASSUME NEW fs \in Seq(FrameType), fs # <<>>, NEW gs, gs = SubSeq(fs, 1, Len(fs) - 1)
  PROVE  /\ gs \in Seq(FrameType) /\ Len(gs) = Len(fs) - 1 /\ Len(gs) \in Nat
         /\ \A k \in 1 .. Len(gs) : gs[k] = fs[k] /\ k \in 1 .. Len(fs) /\ k < Len(fs)
         /\ Len(fs) \in 1 .. Len(fs)
         /\ \A k \in 1 .. Len(fs) : k \in 1 .. Len(gs) \/ k = Len(fs)
<1>1. Len(fs) \in Nat /\ Len(fs) >= 1
  OBVIOUS
<1>2. Len(fs) - 1 \in Nat /\ Len(fs) - 1 <= Len(fs)
  BY <1>1
<1>3. gs \in Seq(FrameType) /\ Len(gs) = Len(fs) - 1 /\ \A k \in 1 .. Len(fs) - 1 : gs[k] = fs[k]
  BY <1>2, PrefixIs
<1>4. QED
  BY <1>1, <1>2, <1>3

\* parse_array and parse_object begin.
LEMMA EnterNest ==
  ASSUME NEW h, NEW H, NEW E, Memory(h, H, E), NEW it, NEW fs \in Seq(FrameType),
         Held(h, it, fs), Nest(h, E, it, fs), fs # <<>> => fs[Len(fs)].head # NULL,
         NEW a, a = TargetOf(it, fs), h[a].child = NULL, NEW kind \in {"array", "object"},
         NEW gs, gs = Append(fs, [of |-> a, kind |-> kind, head |-> NULL, current |-> NULL])
  PROVE  gs \in Seq(FrameType) /\ Held(h, it, gs) /\ Nest(h, E, it, gs)
<1> DEFINE f == [of |-> a, kind |-> kind, head |-> NULL, current |-> NULL]
           n == Len(fs)
<1>1. a \in Allocated(h) /\ a \in Cells /\ (fs # <<>> => fs[n].of < a)
  BY TargetIs, AllocatedAreCells
<1>2. f \in FrameType /\ f.of = a /\ f.head = NULL /\ f.current = NULL
  BY <1>1 DEF FrameType, Cells
<1> HIDE DEF f
<1>3. /\ gs \in Seq(FrameType) /\ Len(gs) = n + 1 /\ n \in Nat /\ gs[n + 1] = f
      /\ \A k \in 1 .. n : gs[k] = fs[k]
  BY <1>2 DEF f
<1>4. \A k \in 1 .. n : fs[k] \in FrameType
  OBVIOUS
<1> HIDE DEF n
<1>5. Held(h, it, gs)
  <2>1. \A k \in 1 .. Len(gs) : k = n + 1 \/ k \in 1 .. n
    BY <1>3
  <2>2. \A k \in 1 .. n : k \in 1 .. Len(gs)
    BY <1>3
  <2>3. \A k \in 1 .. Len(gs) : gs[k].head # NULL => k \in 1 .. n /\ gs[k] = fs[k]
    BY <1>2, <1>3, <2>1
  <2>4. ASSUME NEW j \in 1 .. Len(gs), NEW k \in 1 .. Len(gs), j # k, gs[j].head # NULL
        PROVE  gs[j].head # gs[k].head
    BY <1>2, <1>3, <2>3, <2>4 DEF Held, n
  <2>5. \A k \in 1 .. Len(gs) : gs[k].head # NULL =>
          gs[k].head \in Allocated(h) /\ ~Pointed(h, gs[k].head) /\ gs[k].head # it
    BY <2>3 DEF Held, n
  <2>6. \A b \in Allocated(h) : b = it \/ (\E k \in 1 .. Len(gs) : b = gs[k].head) \/ Pointed(h, b)
    BY <1>3, <2>2 DEF Held, n
  <2>7. QED
    BY <2>4, <2>5, <2>6 DEF Held
<1>6. \A k \in 1 .. Len(gs) : FrameIs(h, E, gs[k])
  <2>1. FrameIs(h, E, f)
    BY <1>1, <1>2 DEF FrameIs
  <2>2. \A k \in 1 .. n : FrameIs(h, E, fs[k])
    BY DEF Nest, n
  <2>3. QED
    BY <1>3, <2>1, <2>2
<1>7. ASSUME NEW j \in 1 .. Len(gs), NEW k \in 1 .. Len(gs), j < k
      PROVE  gs[j].of < gs[k].of /\ gs[j].head # NULL
  <2>1. j \in 1 .. n /\ gs[j] = fs[j] /\ n \in 1 .. n /\ fs # <<>>
    BY <1>3, <1>7 DEF n
  <2>2. CASE k \in 1 .. n
    BY <1>3, <1>7, <2>1, <2>2 DEF Nest, n
  <2>3. CASE k = n + 1
    <3>1. gs[k].of = a /\ fs[n].of < a /\ fs[n].head # NULL
      BY <1>1, <1>2, <1>3, <2>1, <2>3 DEF n
    <3>2. CASE j = n
      BY <2>1, <3>1, <3>2
    <3>3. CASE j # n
      <4>1. j < n
        BY <1>3, <2>1, <3>3
      <4>2. fs[j].of < fs[n].of /\ fs[j].head # NULL
        BY <2>1, <4>1 DEF Nest, n
      <4>3. fs[j].of \in Int /\ fs[n].of \in Int /\ a \in Int
        BY <1>1, <1>4, <2>1, CellsAre, SMTT(30) DEF FrameType
      <4>4. QED
        BY <2>1, <3>1, <4>2, <4>3
    <3>4. QED
      BY <3>2, <3>3
  <2>4. QED
    BY <1>3, <2>2, <2>3
<1>8. QED
  BY <1>3, <1>5, <1>6, <1>7 DEF Nest

-----------------------------------------------------------------------------
(***************************************************************************)
(* A list has its first element, or one more.                              *)
(***************************************************************************)

\* There is a new last element, which is empty.
Grown(g, it, gs) ==
  /\ \E H, E : Memory(g, H, E) /\ Nest(g, E, it, gs)
  /\ gs \in Seq(FrameType) /\ Held(g, it, gs)
  /\ gs # <<>> /\ gs[Len(gs)].head # NULL /\ g[TargetOf(it, gs)].child = NULL

\* The first element of a list.
LEMMA FirstNest ==
  ASSUME NEW h, NEW H, NEW E, Memory(h, H, E), NEW it, NEW fs \in Seq(FrameType), fs # <<>>,
         Held(h, it, fs), Nest(h, E, it, fs), fs[Len(fs)].head = NULL, HasRoom(h),
         NEW g, g = cJSON_New_Item(h, "invalid", 0), NEW x, x = NewAddress(h),
         NEW gs, gs = Append(SubSeq(fs, 1, Len(fs) - 1), [fs[Len(fs)] EXCEPT !.head = x, !.current = x])
  PROVE  Grown(g, it, gs)
<1> DEFINE n == Len(fs)
           f == [fs[Len(fs)] EXCEPT !.head = x, !.current = x]
<1>1. Extended(h, g, x)
  <2>1. "invalid" \in Types /\ 0 \in Int
    BY DEF Types
  <2>2. QED
    BY <2>1, NewItemExtends DEF Memory
<1>2. Memory(g, H, E) /\ \A b : Pointed(g, b) <=> Pointed(h, b)
  BY <1>1, ExtendedMemory
<1>3. /\ Consecutive(g) /\ \A b \in Allocated(h) : b < x
      /\ Allocated(g) = Allocated(h) \cup {x} /\ x \notin Allocated(h) /\ x # NULL /\ x \in Cells
      /\ \A a \in Cells : a # x => g[a] = h[a]
      /\ Alone(g, x) /\ g[x].child = NULL
  BY <1>1 DEF Extended, Nest, Addresses, NULL, Cells
<1>4. n \in Nat /\ n \in 1 .. n /\ \A k \in 1 .. n : fs[k] \in FrameType
  BY FramesAre
<1>5. f \in FrameType /\ f.head = x /\ f.current = x /\ f.of = fs[n].of
  BY <1>3, <1>4 DEF FrameType
<1> HIDE DEF f
<1>6. /\ gs \in Seq(FrameType) /\ Len(gs) = n /\ gs[n] = f /\ gs # <<>>
      /\ \A k \in 1 .. n : k # n => gs[k] = fs[k]
  <2>1. gs = Append(SubSeq(fs, 1, Len(fs) - 1), f)
    BY DEF f
  <2>2. gs \in Seq(FrameType)
    BY <1>5, <2>1, InnerReplaced
  <2>3. Len(gs) = Len(fs)
    BY <1>5, <2>1, InnerReplaced
  <2>4. gs[Len(fs)] = f /\ gs # <<>>
    BY <1>5, <2>1, InnerReplaced, ZenonT(30)
  <2>5. \A k \in 1 .. Len(fs) : k # Len(fs) => gs[k] = fs[k]
    BY <1>5, <2>1, InnerReplaced
  <2>6. QED
    BY <2>2, <2>3, <2>4, <2>5
<1> HIDE DEF n
<1>7. \A k \in 1 .. n : fs[k].of \in Allocated(h) /\ FrameIs(h, E, fs[k])
  BY DEF Nest, FrameIs, n
<1>8. \A b \in Allocated(h) : b \in Cells /\ b # x /\ g[b] = h[b]
  BY <1>3, AllocatedAreCells
<1>9. E[x] = x
  <2>1. g[x].next = NULL
    BY <1>3 DEF Alone
  <2>2. QED
    BY <1>2, <1>3, <2>1 DEF Memory, Chains
<1>10. \A k \in 1 .. n : FrameIs(g, E, gs[k])
  <2>1. FrameIs(g, E, f)
    BY <1>3, <1>4, <1>5, <1>7, <1>8, <1>9 DEF FrameIs
  <2>2. \A k \in 1 .. n : FrameIs(g, E, fs[k])
    BY <1>3, <1>7, <1>8 DEF FrameIs
  <2>3. QED
    BY <1>6, <2>1, <2>2
<1>11. ASSUME NEW j \in 1 .. n, NEW k \in 1 .. n, j < k
       PROVE  gs[j].of < gs[k].of /\ gs[j].head # NULL
  <2>1. fs[j].of < fs[k].of /\ fs[j].head # NULL
    BY <1>11 DEF Nest, n
  <2>2. j # n
    BY <1>4, <1>11
  <2>3. QED
    BY <1>5, <1>6, <2>1, <2>2
<1>12. Nest(g, E, it, gs)
  BY <1>3, <1>6, <1>10, <1>11 DEF Nest
<1>13. \A k \in 1 .. n : fs[k].head # NULL => fs[k].head \in Allocated(h) /\ ~Pointed(h, fs[k].head) /\ fs[k].head # it
  BY DEF Held, n
<1>14. it \in Allocated(h) /\ ~Pointed(h, it) /\ it # x
  BY <1>8, AllocatedAreCells DEF Held, Nest
<1>15. Held(g, it, gs)
  <2>1. it # NULL => it \in Allocated(g) /\ ~Pointed(g, it)
    BY <1>2, <1>3, <1>14
  <2>2. \A k \in 1 .. n : gs[k].head # NULL =>
          gs[k].head \in Allocated(g) /\ ~Pointed(g, gs[k].head) /\ gs[k].head # it
    BY <1>2, <1>3, <1>5, <1>6, <1>13, <1>14 DEF Alone
  <2>3. ASSUME NEW j \in 1 .. n, NEW k \in 1 .. n, j # k, gs[j].head # NULL
        PROVE  gs[j].head # gs[k].head
    <3>1. CASE j # n /\ k # n
      BY <1>6, <2>3, <3>1 DEF Held, n
    <3>2. CASE j = n \/ k = n
      BY <1>3, <1>5, <1>6, <1>8, <1>13, <2>3, <3>2
    <3>3. QED
      BY <3>1, <3>2
  <2>4. ASSUME NEW b \in Allocated(g)
        PROVE  b = it \/ (\E k \in 1 .. n : b = gs[k].head) \/ Pointed(g, b)
    <3>1. CASE b = x
      BY <1>4, <1>5, <1>6, <3>1
    <3>2. CASE b # x
      <4>1. b \in Allocated(h) /\ b # NULL
        BY <1>3, <3>2, AllocatedAreCells
      <4>2. b = it \/ (\E k \in 1 .. n : b = fs[k].head) \/ Pointed(g, b)
        BY <1>2, <4>1 DEF Held, n
      <4>3. \A k \in 1 .. n : b = fs[k].head => k # n
        BY <4>1 DEF n
      <4>4. QED
        BY <1>6, <4>2, <4>3
    <3>3. QED
      BY <3>1, <3>2
  <2>5. QED
    BY <1>6, <2>1, <2>2, <2>3, <2>4 DEF Held
<1>16. TargetOf(it, gs) = x
  BY <1>5, <1>6 DEF TargetOf
<1>17. QED
  BY <1>2, <1>3, <1>5, <1>6, <1>12, <1>15, <1>16 DEF Grown

\* One more element of a list.
LEMMA NextNest ==
  ASSUME NEW h, NEW H, NEW E, Memory(h, H, E), NEW it, NEW fs \in Seq(FrameType), fs # <<>>,
         Held(h, it, fs), Nest(h, E, it, fs), fs[Len(fs)].head # NULL, HasRoom(h),
         NEW h1, h1 = cJSON_New_Item(h, "invalid", 0), NEW x, x = NewAddress(h),
         NEW g, g = suffix_object(h1, fs[Len(fs)].current, x),
         NEW gs, gs = Append(SubSeq(fs, 1, Len(fs) - 1), [fs[Len(fs)] EXCEPT !.current = x])
  PROVE  Grown(g, it, gs)
<1> DEFINE n == Len(fs)
           f == [fs[Len(fs)] EXCEPT !.current = x]
           z == fs[Len(fs)].current
           c == fs[Len(fs)].head
           H2 == [H EXCEPT ![x] = H[z]]
           E2 == [b \in Cells |-> IF E[b] = z THEN x ELSE E[b]]
<1>1. Extended(h, h1, x)
  <2>1. "invalid" \in Types /\ 0 \in Int
    BY DEF Types
  <2>2. QED
    BY <2>1, NewItemExtends DEF Memory
<1>2. Memory(h1, H, E) /\ \A b : Pointed(h1, b) <=> Pointed(h, b)
  BY <1>1, ExtendedMemory
<1>3. /\ Consecutive(h1) /\ \A b \in Allocated(h) : b < x
      /\ Allocated(h1) = Allocated(h) \cup {x} /\ x \notin Allocated(h) /\ x # NULL /\ x \in Cells
      /\ \A a \in Cells : a # x => h1[a] = h[a]
      /\ Alone(h1, x) /\ h1[x].child = NULL
  BY <1>1 DEF Extended, Nest, Addresses, NULL, Cells
<1>4. n \in Nat /\ n \in 1 .. n /\ \A k \in 1 .. n : fs[k] \in FrameType
  BY FramesAre
<1>5. z \in Allocated(h) /\ h[z].next = NULL /\ z \in Cells /\ z \in Addresses
  BY TargetIs, AllocatedAreCells DEF TargetOf
<1>6. E[c] = z /\ c \in Cells /\ c # NULL /\ c \in Allocated(h) /\ ~Pointed(h, c)
  BY <1>4, AllocatedAreCells DEF Nest, FrameIs, Held
<1>7. f \in FrameType /\ f.head = c /\ f.current = x /\ f.of = fs[n].of
  BY <1>3, <1>4 DEF FrameType
<1> HIDE DEF f
<1>8. /\ gs \in Seq(FrameType) /\ Len(gs) = n /\ gs[n] = f /\ gs # <<>>
      /\ \A k \in 1 .. n : k # n => gs[k] = fs[k]
  <2>1. gs = Append(SubSeq(fs, 1, Len(fs) - 1), f)
    BY DEF f
  <2>2. gs \in Seq(FrameType)
    BY <1>7, <2>1, InnerReplaced
  <2>3. Len(gs) = Len(fs)
    BY <1>7, <2>1, InnerReplaced
  <2>4. gs[Len(fs)] = f
    BY <1>7, <2>1, InnerReplaced, ZenonT(30)
  <2>7. gs # <<>>
    BY <1>7, <2>1, InnerReplaced
  <2>5. \A k \in 1 .. Len(fs) : k # Len(fs) => gs[k] = fs[k]
    BY <1>7, <2>1, InnerReplaced
  <2>6. QED
    BY <2>2, <2>3, <2>4, <2>5, <2>7
<1>9. \A k \in 1 .. n : /\ fs[k].of \in Allocated(h) /\ FrameIs(h, E, fs[k])
                        /\ fs[k].head # NULL =>
                             fs[k].head \in Allocated(h) /\ ~Pointed(h, fs[k].head) /\ fs[k].head # it
  BY DEF Nest, FrameIs, Held
<1>10. \A j, k \in 1 .. n : /\ j # k /\ fs[j].head # NULL => fs[j].head # fs[k].head
                            /\ j < k => fs[j].of < fs[k].of /\ fs[j].head # NULL
  BY DEF Held, Nest
<1>11. \A b \in Allocated(h) : b \in Cells /\ b # x /\ h1[b] = h[b] /\ b # NULL /\ b \in Allocated(h1)
  BY <1>3, AllocatedAreCells
<1>12. n = Len(fs) /\ z = fs[n].current /\ c = fs[n].head
  OBVIOUS
<1>13. g = suffix_object(h1, z, x)
  OBVIOUS
<1>14. Longer(H, E, z, x, H2, E2)
  <2>1. H \in [Cells -> Cells] /\ E \in [Cells -> Cells]
    BY DEF Memory, Chains
  <2>2. QED
    BY <1>3, <1>5, <2>1 DEF Longer
<1> HIDE DEF n, z, c, H2, E2
<1>15. Suffixed(h1, g, z, x)
  <2>1. x \in Addresses
    BY <1>3 DEF Cells
  <2>2. QED
    BY <1>2, <1>5, <1>13, <2>1, SuffixIsSuffixed DEF Memory, Forest
<1>16. /\ Forest(g) /\ Allocated(g) = Allocated(h1) /\ Chains(g, H2, E2)
       /\ \A b : Pointed(g, b) <=> b = x \/ Pointed(h1, b)
  <2>1. z \in Allocated(h1) /\ x \in Allocated(h1) /\ h1[z].next = NULL /\ z < x
    BY <1>3, <1>5, <1>11
  <2>2. ~Pointed(h1, x) /\ h1[x].next = NULL
    BY <1>3 DEF Alone
  <2>3. QED
    BY <1>2, <1>14, <1>15, <2>1, <2>2, SuffixedForest DEF Memory
<1>17. \A b \in Cells : E2[b] = IF E[b] = z THEN x ELSE E[b]
  BY <1>14 DEF Longer
\* The list that ends at z is the one of the frame.
<1>18. ASSUME NEW b \in Cells, b # c, \A a \in Cells : h1[a].next # b
       PROVE  E2[b] = E[b]
  <2>1. \A a \in Cells : h1[a].next # c
    BY <1>2, <1>6 DEF Pointed
  <2>2. E[b] # z
    BY <1>2, <1>6, <1>18, <2>1, EndsAre, SMTT(30) DEF Memory
  <2>3. QED
    BY <1>17, <2>2
<1>19. Closed(g, E2)
  <2>1. SUFFICES ASSUME NEW a \in Cells, g[a].child # NULL
                 PROVE  g[g[a].child].prev = E2[g[a].child]
    BY DEF Closed
  <2> DEFINE d == g[a].child
  <2>2. d = h1[a].child /\ d \in Cells
    BY <1>2, <1>15, <2>1, FieldsAre DEF Suffixed, Memory, Forest
  <2>3. Pointed(h1, d)
    BY <2>2 DEF Pointed
  <2>4. d # x /\ d # c
    BY <1>2, <1>3, <1>6, <2>3 DEF Alone
  <2>5. \A b \in Cells : h1[b].next # d
    BY <1>2, <2>1, <2>2 DEF Memory, Forest
  <2>6. E2[d] = E[d]
    BY <1>18, <2>2, <2>4, <2>5
  <2>7. h1[d].prev = E[d]
    BY <1>2, <2>1, <2>2 DEF Memory, Closed
  <2>8. g[d].prev = h1[d].prev
    BY <1>15, <2>2, <2>4 DEF Suffixed
  <2>9. QED
    BY <2>6, <2>7, <2>8
<1>20. \A b \in Cells : g[b].child = h1[b].child
  BY <1>15 DEF Suffixed
<1>21. \A k \in 1 .. n : FrameIs(g, E2, gs[k])
  <2>1. FrameIs(g, E2, f)
    <3>1. E2[c] = x
      BY <1>6, <1>17
    <3>2. f.of \in Allocated(g) /\ g[f.of].child = NULL
      BY <1>4, <1>7, <1>9, <1>11, <1>16, <1>20 DEF FrameIs
    <3>3. f.of < f.head
      BY <1>4, <1>6, <1>7, <1>9, <1>12 DEF FrameIs
    <3>4. QED
      BY <1>3, <1>6, <1>7, <3>1, <3>2, <3>3 DEF FrameIs
  <2>2. ASSUME NEW k \in 1 .. n, k # n PROVE FrameIs(g, E2, fs[k])
    <3>1. FrameIs(h, E, fs[k]) /\ fs[k].of \in Allocated(h)
      BY <1>9
    <3>2. fs[k].of \in Allocated(g) /\ g[fs[k].of].child = NULL
      BY <1>11, <1>16, <1>20, <3>1 DEF FrameIs
    <3>3. ASSUME fs[k].head # NULL PROVE E2[fs[k].head] = E[fs[k].head]
      <4>1. fs[k].head \in Cells /\ ~Pointed(h1, fs[k].head) /\ fs[k].head # c
        BY <1>2, <1>4, <1>9, <1>10, <1>11, <1>12, <2>2, <3>3
      <4>2. QED
        BY <1>18, <4>1 DEF Pointed
    <3>4. QED
      BY <3>1, <3>2, <3>3 DEF FrameIs
  <2>3. QED
    BY <1>8, <2>1, <2>2
<1>22. ASSUME NEW j \in 1 .. n, NEW k \in 1 .. n, j < k
       PROVE  gs[j].of < gs[k].of /\ gs[j].head # NULL
  <2>1. j # n
    BY <1>4, <1>22
  <2>2. QED
    BY <1>7, <1>8, <1>10, <1>22, <2>1
<1>23. Nest(g, E2, it, gs)
  <2>1. it \in Allocated(g) /\ Consecutive(g)
    BY <1>3, <1>16 DEF Nest, Consecutive
  <2>2. QED
    BY <1>8, <1>21, <1>22, <2>1 DEF Nest
<1>24. it \in Allocated(h) /\ ~Pointed(h, it) /\ it # x
  BY <1>11 DEF Held, Nest
<1>25. \A k \in 1 .. n : gs[k].head = fs[k].head
  BY <1>7, <1>8, <1>12
<1>26. Held(g, it, gs)
  <2>1. it # NULL => it \in Allocated(g) /\ ~Pointed(g, it)
    BY <1>2, <1>11, <1>16, <1>24
  <2>2. \A k \in 1 .. n : gs[k].head # NULL =>
          gs[k].head \in Allocated(g) /\ ~Pointed(g, gs[k].head) /\ gs[k].head # it
    BY <1>2, <1>9, <1>11, <1>16, <1>25
  <2>3. \A j, k \in 1 .. n : j # k /\ gs[j].head # NULL => gs[j].head # gs[k].head
    BY <1>10, <1>25, ZenonT(30)
  <2>4. ASSUME NEW b \in Allocated(g)
        PROVE  b = it \/ (\E k \in 1 .. n : b = gs[k].head) \/ Pointed(g, b)
    <3>1. CASE b = x
      BY <1>16, <3>1
    <3>2. CASE b # x
      <4>1. b \in Allocated(h)
        BY <1>3, <1>16, <3>2
      <4>2. b = it \/ (\E k \in 1 .. n : b = fs[k].head) \/ Pointed(h, b)
        BY <4>1 DEF Held, n
      <4>3. QED
        BY <1>2, <1>16, <1>25, <4>2
    <3>3. QED
      BY <3>1, <3>2
  <2>5. QED
    BY <1>8, <2>1, <2>2, <2>3, <2>4, SMTT(30) DEF Held
<1>27. TargetOf(it, gs) = x
  BY <1>7, <1>8 DEF TargetOf
<1>28. g[x].child = NULL
  BY <1>3, <1>20
<1>29. QED
  BY <1>6, <1>7, <1>8, <1>16, <1>19, <1>23, <1>26, <1>27, <1>28 DEF Memory, Grown

-----------------------------------------------------------------------------
(***************************************************************************)
(* The label success of parse_array and parse_object: a list becomes the   *)
(* child of its item.                                                      *)
(***************************************************************************)

\* The memory after a list f became the child of its item.
Left(h, f) ==
  [a \in DOMAIN h |->
     CASE a = f.of -> [h[a] EXCEPT !.type = f.kind, !.child = f.head]
       [] a # f.of /\ a = f.head -> [h[a] EXCEPT !.prev = f.current]
       [] OTHER -> h[a]]

LEMMA LeftCells ==
  ASSUME NEW h, Forest(h), NEW f \in FrameType, f.of \in Allocated(h),
         NEW g, g = Left(h, f)
  PROVE  /\ TypedHeap(g)
         /\ g[f.of].type = f.kind /\ g[f.of].child = f.head
         /\ g[f.of].next = h[f.of].next /\ g[f.of].prev = h[f.of].prev
         /\ \A a \in Cells : a # f.of /\ a = f.head =>
              /\ g[a].prev = f.current /\ g[a].next = h[a].next
              /\ g[a].type = h[a].type /\ g[a].child = h[a].child
              /\ h[a].prev = f.current => g[a] = h[a]
         /\ \A a \in Cells : a # f.of /\ a # f.head => g[a] = h[a]
<1>1. h \in [Cells -> ItemType] /\ f.of \in Cells
  BY HeapIs, AllocatedAreCells DEF Forest
<1>2. f.head \in Cells /\ f.current \in Cells /\ f.kind \in {"array", "object"}
  BY DEF FrameType
<1>3. f.kind \in Types
  BY <1>2 DEF Types
<1> DEFINE r(a) == [h[a] EXCEPT !.type = f.kind, !.child = f.head]
           q(a) == [h[a] EXCEPT !.prev = f.current]
<1>4. ASSUME NEW a \in Cells
      PROVE  /\ r(a) \in ItemType /\ r(a).type = f.kind /\ r(a).child = f.head
             /\ r(a).next = h[a].next /\ r(a).prev = h[a].prev
             /\ q(a) \in ItemType /\ q(a).prev = f.current /\ q(a).next = h[a].next
             /\ q(a).type = h[a].type /\ q(a).child = h[a].child
             /\ h[a].prev = f.current => q(a) = h[a]
  <2>1. h[a] \in ItemType
    BY <1>1
  <2>2. /\ r(a) \in ItemType /\ r(a).type = f.kind /\ r(a).child = f.head
        /\ r(a).next = h[a].next /\ r(a).prev = h[a].prev
    BY <1>2, <1>3, <2>1 DEF ItemType
  <2>3. /\ q(a) \in ItemType /\ q(a).prev = f.current /\ q(a).next = h[a].next
        /\ q(a).type = h[a].type /\ q(a).child = h[a].child
    BY <1>2, <2>1 DEF ItemType
  <2>4. h[a].prev = f.current => q(a) = h[a]
    BY <2>1 DEF ItemType
  <2>5. QED
    BY <2>2, <2>3, <2>4
<1>5. g = [a \in Cells |-> IF a = f.of THEN r(a) ELSE IF a = f.head THEN q(a) ELSE h[a]]
  BY <1>1 DEF Left
<1> HIDE DEF r, q
<1>6. \A a \in Cells : g[a] = IF a = f.of THEN r(a) ELSE IF a = f.head THEN q(a) ELSE h[a]
  BY <1>5
<1>7. g \in [Cells -> ItemType]
  BY <1>1, <1>4, <1>5
<1>8. TypedHeap(g)
  BY <1>7, HeapIs
<1>9. /\ g[f.of].type = f.kind /\ g[f.of].child = f.head
      /\ g[f.of].next = h[f.of].next /\ g[f.of].prev = h[f.of].prev
  BY <1>1, <1>4, <1>6
<1>10. \A a \in Cells : a # f.of /\ a = f.head =>
              /\ g[a].prev = f.current /\ g[a].next = h[a].next
              /\ g[a].type = h[a].type /\ g[a].child = h[a].child
              /\ h[a].prev = f.current => g[a] = h[a]
  BY <1>4, <1>6
<1>11. \A a \in Cells : a # f.of /\ a # f.head => g[a] = h[a]
  BY <1>6
<1>12. QED
  BY <1>8, <1>9, <1>10, <1>11

\* The frames around the innermost one keep what they hold.
LEMMA LeaveEmptyNest ==
  ASSUME NEW h, NEW H, NEW E, Memory(h, H, E), NEW it, NEW fs \in Seq(FrameType), fs # <<>>,
         Held(h, it, fs), Nest(h, E, it, fs), fs[Len(fs)].head = NULL,
         NEW g, g = Left(h, fs[Len(fs)]),
         NEW gs, gs = SubSeq(fs, 1, Len(fs) - 1)
  PROVE  /\ Memory(g, H, E) /\ gs \in Seq(FrameType) /\ Held(g, it, gs) /\ Nest(g, E, it, gs)
         /\ gs # <<>> => gs[Len(gs)].head # NULL
<1> DEFINE n == Len(fs)
           f == fs[Len(fs)]
<1>1. /\ gs \in Seq(FrameType) /\ Len(gs) = n - 1 /\ Len(gs) \in Nat
      /\ \A k \in 1 .. Len(gs) : gs[k] = fs[k] /\ k \in 1 .. n /\ k < n
      /\ n \in 1 .. n
      /\ \A k \in 1 .. n : k \in 1 .. Len(gs) \/ k = n
  <2>1. gs \in Seq(FrameType)
    BY OuterIs
  <2>2. Len(gs) = n - 1
    BY OuterIs
  <2>3. \A k \in 1 .. Len(gs) : gs[k] = fs[k] /\ k \in 1 .. n /\ k < n
    BY OuterIs
  <2>4. n \in Nat /\ Len(gs) \in Nat
    BY <2>1, FramesAre
  <2>5. QED
    BY <2>1, <2>2, <2>3, <2>4
<1>2. f \in FrameType /\ f.head = NULL /\ FrameIs(h, E, f)
  BY <1>1, FramesAre DEF Nest
<1>3. f.of \in Allocated(h) /\ f.current = NULL /\ h[f.of].child = NULL /\ f.of # NULL /\ f.of \in Cells
  BY <1>2, AllocatedAreCells DEF FrameIs
<1>4. g = Left(h, f) /\ Forest(h)
  BY DEF Memory
<1> HIDE DEF f
<1>5. /\ TypedHeap(g)
      /\ g[f.of].type = f.kind /\ g[f.of].child = f.head
      /\ g[f.of].next = h[f.of].next /\ g[f.of].prev = h[f.of].prev
  BY <1>2, <1>3, <1>4, LeftCells
<1>6. \A a \in Cells : a # f.of => g[a] = h[a]
  <2>1. h[NULL].prev = NULL
    BY <1>4 DEF Forest, Free, Blank
  <2>2. \A a \in Cells : a # f.of /\ a = f.head => (h[a].prev = f.current => g[a] = h[a])
    BY <1>2, <1>3, <1>4, LeftCells
  <2>3. \A a \in Cells : a # f.of /\ a # f.head => g[a] = h[a]
    BY <1>2, <1>3, <1>4, LeftCells
  <2>4. QED
    BY <1>2, <1>3, <2>1, <2>2, <2>3
<1>7. f.kind # "free"
  BY <1>2 DEF FrameType
<1>8. Allocated(g) = Allocated(h)
  BY <1>3, <1>5, <1>6, <1>7, AllocatedAreCells DEF Allocated, Cells
<1>9. Relabelled(h, g)
  <2>1. g[NULL] = Free
    BY <1>3, <1>4, <1>6 DEF Forest, Cells
  <2>2. \A a \in Cells : /\ g[a].next = h[a].next /\ g[a].prev = h[a].prev
                         /\ g[a].child = h[a].child
                         /\ g[a].type = "free" => g[a] = Free
    BY <1>2, <1>3, <1>4, <1>5, <1>6, <1>7 DEF Forest
  <2>3. QED
    BY <1>5, <1>8, <2>1, <2>2 DEF Relabelled
<1>10. Memory(g, H, E) /\ Held(g, it, fs) /\ Nest(g, E, it, fs)
  BY <1>8, <1>9, RelabelParse
<1> HIDE DEF n
<1>11. Nest(g, E, it, gs)
  BY <1>1, <1>10 DEF Nest, n
<1>12. Held(g, it, gs)
  <2>1. \A b \in Allocated(g) : b = it \/ (\E k \in 1 .. Len(gs) : b = gs[k].head) \/ Pointed(g, b)
    <3>1. SUFFICES ASSUME NEW b \in Allocated(g), b # it, ~Pointed(g, b)
                   PROVE  \E k \in 1 .. Len(gs) : b = gs[k].head
      OBVIOUS
    <3>2. PICK k \in 1 .. n : b = fs[k].head
      BY <1>10, <3>1 DEF Held, n
    <3>3. k # n
      BY <1>2, <3>1, <3>2, AllocatedAreCells DEF f, n
    <3>4. QED
      BY <1>1, <3>2, <3>3
  <2>2. \A k \in 1 .. Len(gs) : gs[k].head # NULL =>
          gs[k].head \in Allocated(g) /\ ~Pointed(g, gs[k].head) /\ gs[k].head # it
    BY <1>1, <1>10 DEF Held, n
  <2>3. \A j, k \in 1 .. Len(gs) : j # k /\ gs[j].head # NULL => gs[j].head # gs[k].head
    BY <1>1, <1>10 DEF Held, n
  <2>4. QED
    BY <1>10, <2>1, <2>2, <2>3 DEF Held
<1>13. gs # <<>> => gs[Len(gs)].head # NULL
  <2>1. SUFFICES ASSUME gs # <<>> PROVE gs[Len(gs)].head # NULL
    OBVIOUS
  <2>2. Len(gs) \in 1 .. Len(gs)
    BY <1>1, <2>1
  <2>3. QED
    BY <1>1, <2>2 DEF Nest, n
<1>14. QED
  BY <1>1, <1>10, <1>11, <1>12, <1>13

\* A list with elements becomes the child of its item.
LEMMA LeaveListNest ==
  ASSUME NEW h, NEW H, NEW E, Memory(h, H, E), NEW it, NEW fs \in Seq(FrameType), fs # <<>>,
         Held(h, it, fs), Nest(h, E, it, fs), fs[Len(fs)].head # NULL,
         NEW g, g = Left(h, fs[Len(fs)]),
         NEW gs, gs = SubSeq(fs, 1, Len(fs) - 1)
  PROVE  /\ Memory(g, H, E) /\ gs \in Seq(FrameType) /\ Held(g, it, gs) /\ Nest(g, E, it, gs)
         /\ gs # <<>> => gs[Len(gs)].head # NULL
<1> DEFINE n == Len(fs)
           f == fs[Len(fs)]
           c == f.head
           z == f.current
           p == f.of
           h1 == [h EXCEPT ![c].prev = z]
<1>1. /\ gs \in Seq(FrameType) /\ Len(gs) = n - 1 /\ Len(gs) \in Nat
      /\ \A k \in 1 .. Len(gs) : gs[k] = fs[k] /\ k \in 1 .. n /\ k < n
      /\ n \in 1 .. n
      /\ \A k \in 1 .. n : k \in 1 .. Len(gs) \/ k = n
  <2>1. gs \in Seq(FrameType)
    BY OuterIs
  <2>2. Len(gs) = n - 1
    BY OuterIs
  <2>3. \A k \in 1 .. Len(gs) : gs[k] = fs[k] /\ k \in 1 .. n /\ k < n
    BY OuterIs
  <2>4. n \in Nat /\ Len(gs) \in Nat
    BY <2>1, FramesAre
  <2>5. QED
    BY <2>1, <2>2, <2>3, <2>4
<1>2. f \in FrameType /\ c # NULL /\ FrameIs(h, E, f)
  BY <1>1, FramesAre DEF Nest
<1>3. /\ c \in Allocated(h) /\ ~Pointed(h, c) /\ c # it /\ c \in Cells
  BY <1>1, <1>2, AllocatedAreCells DEF Held
<1>4. /\ p \in Allocated(h) /\ h[p].child = NULL /\ p \in Cells
      /\ p < c /\ E[c] = z /\ z \in Cells
  BY <1>2, AllocatedAreCells DEF FrameIs, FrameType
<1>5. Forest(h) /\ Chains(h, H, E) /\ Closed(h, E) /\ g = Left(h, f)
  BY DEF Memory
<1>6. f = fs[n] /\ c = f.head /\ z = f.current /\ p = f.of /\ p # c
  BY <1>3, <1>4, CellsAre
<1>7. Backed(h, h1, c, z)
  <2>1. h \in [Cells -> ItemType]
    BY <1>5, HeapIs DEF Forest
  <2>2. h[c] \in ItemType
    BY <1>3, <2>1
  <2>3. h1 = [h EXCEPT ![c] = [h[c] EXCEPT !.prev = z]]
    BY <1>3, <2>1
  <2> DEFINE r == [h[c] EXCEPT !.prev = z]
  <2>4. r \in ItemType /\ r.prev = z /\ r.type = h[c].type /\ r.child = h[c].child /\ r.next = h[c].next
    BY <1>4, <2>2 DEF ItemType
  <2> HIDE DEF r, c, z
  <2>5. h1 \in [Cells -> ItemType] /\ h1[c] = r /\ \A a \in Cells : a # c => h1[a] = h[a]
    BY <1>3, <2>1, <2>3, <2>4 DEF r
  <2>6. TypedHeap(h1)
    BY <2>5, HeapIs
  <2> HIDE DEF h1
  <2>7. QED
    BY <2>4, <2>5, <2>6 DEF Backed
<1> HIDE DEF f, c, z, p, h1
<1>8. \A a \in Cells : h[a].next # c
  BY <1>3 DEF Pointed
<1>9. /\ Forest(h1) /\ Allocated(h1) = Allocated(h) /\ Chains(h1, H, E)
      /\ \A b : Pointed(h1, b) <=> Pointed(h, b)
  BY <1>3, <1>5, <1>7, <1>8, BackedForest
<1>10. /\ TypedHeap(g)
       /\ g[p].type = f.kind /\ g[p].child = c
       /\ g[p].next = h[p].next /\ g[p].prev = h[p].prev
       /\ \A a \in Cells : a # p /\ a = c =>
              /\ g[a].prev = z /\ g[a].next = h[a].next
              /\ g[a].type = h[a].type /\ g[a].child = h[a].child
              /\ h[a].prev = z => g[a] = h[a]
       /\ \A a \in Cells : a # p /\ a # c => g[a] = h[a]
  <2>1. f.of \in Allocated(h)
    BY <1>4, <1>6
  <2>2. /\ TypedHeap(g)
        /\ g[f.of].type = f.kind /\ g[f.of].child = f.head
        /\ g[f.of].next = h[f.of].next /\ g[f.of].prev = h[f.of].prev
    BY <1>2, <1>5, <2>1, LeftCells
  <2>3. \A a \in Cells : a # f.of /\ a = f.head =>
              /\ g[a].prev = f.current /\ g[a].next = h[a].next
              /\ g[a].type = h[a].type /\ g[a].child = h[a].child
              /\ h[a].prev = f.current => g[a] = h[a]
    BY <1>2, <1>5, <2>1, LeftCells
  <2>4. \A a \in Cells : a # f.of /\ a # f.head => g[a] = h[a]
    BY <1>2, <1>5, <2>1, LeftCells
  <2>5. QED
    BY <1>6, <2>2, <2>3, <2>4
<1>11. f.kind # "free"
  BY <1>2 DEF FrameType
<1>12. Parented(h1, g, p, c)
  <2>1. ASSUME NEW a \in Cells
        PROVE  /\ g[a].child = IF a = p THEN c ELSE h1[a].child
               /\ g[a].next = h1[a].next /\ g[a].prev = h1[a].prev
    <3>1. CASE a = p
      BY <1>3, <1>4, <1>6, <1>7, <1>10, <3>1 DEF Backed
    <3>2. CASE a = c
      BY <1>3, <1>6, <1>7, <1>10, <3>2 DEF Backed
    <3>3. CASE a # p /\ a # c
      BY <1>7, <1>10, <3>3 DEF Backed
    <3>4. QED
      BY <3>1, <3>2, <3>3
  <2>2. ASSUME NEW a \in Cells, a # p PROVE g[a] = h1[a]
    <3>1. CASE a # c
      BY <1>7, <1>10, <2>2, <3>1 DEF Backed
    <3>2. CASE a = c
      <4>1. g \in [Cells -> ItemType] /\ h1 \in [Cells -> ItemType] /\ h \in [Cells -> ItemType]
        BY <1>5, <1>9, <1>10, HeapIs DEF Forest
      <4>2. g[a] = [h[a] EXCEPT !.prev = z]
        BY <1>3, <1>5, <1>6, <2>2, <3>2, <4>1 DEF Left
      <4>3. h1[a] = [h[a] EXCEPT !.prev = z]
        BY <1>3, <3>2, <4>1 DEF h1
      <4>4. QED
        BY <4>2, <4>3
    <3>3. QED
      BY <3>1, <3>2
  <2>3. QED
    BY <1>10, <1>11, <2>1, <2>2 DEF Parented
<1>13. /\ Forest(g) /\ Allocated(g) = Allocated(h) /\ Chains(g, H, E)
       /\ \A b : b # NULL => (Pointed(g, b) <=> b = c \/ Pointed(h, b))
  <2>1. h1[p].child = NULL
    BY <1>4, <1>7 DEF Backed
  <2>2. p \in Allocated(h1) /\ c \in Allocated(h1) /\ ~Pointed(h1, c)
    BY <1>3, <1>4, <1>9
  <2>3. QED
    BY <1>4, <1>9, <1>12, <2>1, <2>2, ParentedForest
<1>14. Closed(g, E)
  <2>1. SUFFICES ASSUME NEW a \in Cells, g[a].child # NULL
                 PROVE  g[g[a].child].prev = E[g[a].child]
    BY DEF Closed
  <2>2. CASE a = p
    BY <1>3, <1>4, <1>6, <1>10, <2>2
  <2>3. CASE a # p
    <3> DEFINE d == h[a].child
    <3>1. g[a].child = d /\ d \in Cells
      BY <1>5, <1>7, <1>12, <2>3, FieldsAre DEF Parented, Backed, Forest
    <3>2. d # c
      BY <1>3 DEF Pointed
    <3>3. g[d].prev = h[d].prev
      BY <1>7, <1>12, <3>1, <3>2 DEF Parented, Backed
    <3>4. h[d].prev = E[d]
      BY <1>5, <2>1, <3>1 DEF Closed
    <3>5. QED
      BY <3>1, <3>3, <3>4
  <2>4. QED
    BY <2>2, <2>3
<1> HIDE DEF n
<1>15. \A k \in 1 .. Len(gs) : FrameIs(g, E, gs[k])
  <2>1. SUFFICES ASSUME NEW k \in 1 .. Len(gs) PROVE FrameIs(g, E, fs[k])
    BY <1>1
  <2>2. k \in 1 .. n /\ k < n /\ FrameIs(h, E, fs[k]) /\ fs[k].of < p /\ fs[k] \in FrameType
    BY <1>1, <1>6, FramesAre DEF Nest, n
  <2>3. fs[k].of \in Allocated(h) /\ fs[k].of \in Cells /\ fs[k].of # p
    <3>1. fs[k].of \in Allocated(h) /\ fs[k].of \in Cells
      BY <2>2, AllocatedAreCells DEF FrameIs
    <3>2. QED
      BY <1>4, <2>2, <3>1, CellsAre
  <2>4. g[fs[k].of].child = h[fs[k].of].child
    BY <1>7, <1>12, <2>3 DEF Parented, Backed
  <2>5. QED
    BY <1>13, <2>2, <2>4 DEF FrameIs
<1>16. Nest(g, E, it, gs)
  <2>1. Consecutive(g) /\ it \in Allocated(g)
    BY <1>13 DEF Nest, Consecutive
  <2>2. \A j, k \in 1 .. Len(gs) : j < k => gs[j].of < gs[k].of /\ gs[j].head # NULL
    BY <1>1 DEF Nest, n
  <2>3. QED
    BY <1>15, <2>1, <2>2 DEF Nest
<1>17. Held(g, it, gs)
  <2>1. it # NULL => it \in Allocated(g) /\ ~Pointed(g, it)
    BY <1>3, <1>13 DEF Held
  <2>2. ASSUME NEW k \in 1 .. Len(gs), gs[k].head # NULL
        PROVE  gs[k].head \in Allocated(g) /\ ~Pointed(g, gs[k].head) /\ gs[k].head # it
    <3>1. gs[k] = fs[k] /\ k \in 1 .. n /\ k # n
      BY <1>1
    <3>2. fs[k].head # c
      BY <1>1, <1>6, <2>2, <3>1 DEF Held, n
    <3>3. fs[k].head \in Allocated(h) /\ ~Pointed(h, fs[k].head) /\ fs[k].head # it
      BY <2>2, <3>1 DEF Held, n
    <3>4. QED
      BY <1>13, <2>2, <3>1, <3>2, <3>3
  <2>3. \A j, k \in 1 .. Len(gs) : j # k /\ gs[j].head # NULL => gs[j].head # gs[k].head
    BY <1>1 DEF Held, n
  <2>4. ASSUME NEW b \in Allocated(g), b # it, ~Pointed(g, b)
        PROVE  \E k \in 1 .. Len(gs) : b = gs[k].head
    <3>1. b \in Allocated(h) /\ b # NULL /\ b # c /\ ~Pointed(h, b)
      BY <1>13, <2>4, AllocatedAreCells
    <3>2. PICK k \in 1 .. n : b = fs[k].head
      BY <2>4, <3>1 DEF Held, n
    <3>3. k # n
      BY <1>6, <3>1, <3>2
    <3>4. QED
      BY <1>1, <3>2, <3>3
  <2>5. QED
    BY <2>1, <2>2, <2>3, <2>4 DEF Held
<1>18. gs # <<>> => gs[Len(gs)].head # NULL
  <2>1. SUFFICES ASSUME gs # <<>> PROVE gs[Len(gs)].head # NULL
    OBVIOUS
  <2>2. Len(gs) \in 1 .. Len(gs)
    BY <1>1, <2>1
  <2>3. QED
    BY <1>1, <2>2 DEF Nest, n
<1>19. QED
  BY <1>1, <1>13, <1>14, <1>16, <1>17, <1>18 DEF Memory

-----------------------------------------------------------------------------
(***************************************************************************)
(* The labels fail: the list of a frame is deleted, or the item of the     *)
(* whole text.                                                             *)
(***************************************************************************)

\* cJSON_Delete takes nothing away from what others hold.
LEMMA DeleteKeeps ==
  ASSUME NEW h, NEW H, NEW E, Memory(h, H, E), NEW a, a # NULL => a \in Allocated(h) /\ ~Pointed(h, a),
         NEW g, g = cJSON_Delete(h, a)
  PROVE  /\ \E H2, E2 : Memory(g, H2, E2)
         /\ \A r \in Allocated(h) : ~Pointed(h, r) /\ r # a => r \in Allocated(g) /\ ~Pointed(g, r)
         /\ \A b \in Allocated(g) : b \in Allocated(h) /\ b # a /\ (Pointed(h, b) => Pointed(g, b))
<1>1. Deleted(h, g, a) /\ \E H2, E2 : Memory(g, H2, E2)
  BY DeleteDeletes
<1>2. Forest(h) /\ DOMAIN h = Cells /\ ForwardIs(h)
  BY ForestIsForward DEF Memory
<1>3. a \in Cells /\ (a = NULL => Owned(h, a) = {}) /\ (a # NULL => a \in Owned(h, a))
  <2>1. a \in Cells
    BY AllocatedAreCells DEF Cells
  <2>2. Owned(h, NULL) = {}
    BY <1>2, OwnedStep
  <2>3. a # NULL => a \in Owned(h, a)
    BY <1>2, <2>1, OwnedIsComplete
  <2>4. QED
    BY <2>1, <2>2, <2>3
<1>4. ASSUME NEW r \in Owned(h, a), r # a PROVE Pointed(h, r)
  <2>1. PICK p \in Owned(h, a) : h[p].next = r \/ h[p].child = r
    BY <1>2, <1>3, <1>4, OwnedIsPointed
  <2>2. p \in Cells
    BY <1>2, OwnedIsAllocated, AllocatedAreCells
  <2>3. QED
    BY <2>1, <2>2 DEF Pointed
<1>5. \A r \in Allocated(h) : r \in Cells /\ r # NULL
  BY AllocatedAreCells
<1>6. ASSUME NEW r \in Allocated(h), ~Pointed(h, r), r # a
      PROVE  r \in Allocated(g) /\ ~Pointed(g, r)
  <2>1. r \notin Owned(h, a)
    BY <1>4, <1>6
  <2>2. QED
    BY <1>1, <1>5, <1>6, <2>1 DEF Deleted
<1>7. ASSUME NEW b \in Allocated(g)
      PROVE  b \in Allocated(h) /\ b # a /\ (Pointed(h, b) => Pointed(g, b))
  <2>1. b \in Allocated(h) /\ b \notin Owned(h, a)
    BY <1>1, <1>7 DEF Deleted
  <2>2. b # a
    BY <1>3, <1>5, <2>1
  <2>3. QED
    BY <1>1, <1>5, <2>1, <2>2 DEF Deleted
<1>8. QED
  BY <1>1, <1>6, <1>7

LEMMA FailListHeld ==
  ASSUME NEW h, NEW H, NEW E, Memory(h, H, E), NEW it, NEW fs \in Seq(FrameType), fs # <<>>,
         Held(h, it, fs),
         NEW g, g = cJSON_Delete(h, fs[Len(fs)].head),
         NEW gs, gs = SubSeq(fs, 1, Len(fs) - 1)
  PROVE  (\E H2, E2 : Memory(g, H2, E2)) /\ gs \in Seq(FrameType) /\ Held(g, it, gs)
<1> DEFINE n == Len(fs)
           c == fs[Len(fs)].head
<1>1. /\ gs \in Seq(FrameType) /\ Len(gs) = n - 1 /\ Len(gs) \in Nat
      /\ \A k \in 1 .. Len(gs) : gs[k] = fs[k] /\ k \in 1 .. n /\ k < n
      /\ n \in 1 .. n
      /\ \A k \in 1 .. n : k \in 1 .. Len(gs) \/ k = n
  <2>1. gs \in Seq(FrameType)
    BY OuterIs
  <2>2. Len(gs) = n - 1
    BY OuterIs
  <2>3. \A k \in 1 .. Len(gs) : gs[k] = fs[k] /\ k \in 1 .. n /\ k < n
    BY OuterIs
  <2>4. n \in Nat /\ Len(gs) \in Nat
    BY <2>1, FramesAre
  <2>5. QED
    BY <2>1, <2>2, <2>3, <2>4
<1>2. c # NULL => c \in Allocated(h) /\ ~Pointed(h, c) /\ c # it
  BY <1>1 DEF Held
<1>3. n = Len(fs) /\ c = fs[n].head /\ g = cJSON_Delete(h, c)
  OBVIOUS
<1> HIDE DEF n, c
<1>4. /\ \E H2, E2 : Memory(g, H2, E2)
      /\ \A r \in Allocated(h) : ~Pointed(h, r) /\ r # c => r \in Allocated(g) /\ ~Pointed(g, r)
      /\ \A b \in Allocated(g) : b \in Allocated(h) /\ b # c /\ (Pointed(h, b) => Pointed(g, b))
  BY <1>2, <1>3, DeleteKeeps
<1>5. it # NULL => it \in Allocated(g) /\ ~Pointed(g, it)
  <2>1. SUFFICES ASSUME it # NULL PROVE it \in Allocated(g) /\ ~Pointed(g, it)
    OBVIOUS
  <2>2. it \in Allocated(h) /\ ~Pointed(h, it) /\ it # c
    BY <1>2, <2>1 DEF Held
  <2>3. QED
    BY <1>4, <2>2
<1>6. ASSUME NEW k \in 1 .. Len(gs), gs[k].head # NULL
      PROVE  gs[k].head \in Allocated(g) /\ ~Pointed(g, gs[k].head) /\ gs[k].head # it
  <2>1. gs[k] = fs[k] /\ k \in 1 .. n /\ k # n
    BY <1>1
  <2>2. /\ fs[k].head # c /\ fs[k].head \in Allocated(h) /\ ~Pointed(h, fs[k].head)
        /\ fs[k].head # it
    BY <1>1, <1>3, <1>6, <2>1 DEF Held
  <2>3. QED
    BY <1>4, <2>1, <2>2
<1>7. \A j, k \in 1 .. Len(gs) : j # k /\ gs[j].head # NULL => gs[j].head # gs[k].head
  BY <1>1, <1>3 DEF Held
<1>8. ASSUME NEW b \in Allocated(g), b # it, ~Pointed(g, b)
      PROVE  \E k \in 1 .. Len(gs) : b = gs[k].head
  <2>1. b \in Allocated(h) /\ b # c /\ ~Pointed(h, b)
    BY <1>4, <1>8
  <2>2. PICK k \in 1 .. n : b = fs[k].head
    BY <1>3, <1>8, <2>1 DEF Held
  <2>3. k # n
    BY <1>3, <2>1, <2>2
  <2>4. QED
    BY <1>1, <2>2, <2>3
<1>9. QED
  BY <1>1, <1>4, <1>5, <1>6, <1>7, <1>8 DEF Held

LEMMA FailParseHeld ==
  ASSUME NEW h, NEW H, NEW E, Memory(h, H, E), NEW it, Held(h, it, <<>>),
         NEW g, g = cJSON_Delete(h, it)
  PROVE  (\E H2, E2 : Memory(g, H2, E2)) /\ Held(g, NULL, <<>>) /\ Allocated(g) = {}
<1>1. it # NULL => it \in Allocated(h) /\ ~Pointed(h, it)
  BY DEF Held
<1>2. \A k : k \notin 1 .. Len(<<>>)
  OBVIOUS
<1>3. \A b \in Allocated(h) : b = it \/ Pointed(h, b)
  BY <1>2 DEF Held
<1>4. PICK H2, E2 : Memory(g, H2, E2)
  BY <1>1, DeleteKeeps
<1>5. \A b \in Allocated(g) : b \in Allocated(h) /\ b # it /\ (Pointed(h, b) => Pointed(g, b))
  BY <1>1, DeleteKeeps
<1>6. \A b \in Allocated(g) : b \in {} \/ Pointed(g, b)
  BY <1>3, <1>5
<1>7. Allocated(g) = Holds(g, {})
  BY <1>4, <1>6, AllAreHeld DEF Memory
<1>8. Allocated(g) = {}
  BY <1>7 DEF Holds
<1>9. Held(g, NULL, <<>>)
  BY <1>2, <1>8 DEF Held
<1>10. QED
  BY <1>4, <1>8, <1>9

-----------------------------------------------------------------------------
(***************************************************************************)
(* The parser between two steps: what it holds, and what it is about to    *)
(* parse into is empty.                                                    *)
(***************************************************************************)

\* The steps of the parser, and the tokens.
Steps == {"idle", "value", "first", "element", "name", "colon", "after", "fail", "parsed"}
TokenType ==
  [is : {"number", "null", "string", "[", "]", "{", "}", ":", ","}, name : Keys, value : Int]

\* The invariant of the parser, for a memory h, the item it of the whole text
\* and the frames fs: what is parsed into next has no children, and the frames
\* are begun where the step says so.
Ready(st, h, it, fs) ==
  /\ st \in Steps /\ fs \in Seq(FrameType) /\ Held(h, it, fs)
  /\ \E H, E : Memory(h, H, E) /\ (Parsing(st) => Nest(h, E, it, fs))
  /\ st \in {"value", "name", "colon"} => h[TargetOf(it, fs)].child = NULL
  /\ st \in {"value", "name", "colon", "after", "element"} /\ fs # <<>> => fs[Len(fs)].head # NULL
  /\ st = "first" => fs # <<>> /\ fs[Len(fs)].head = NULL
  /\ st \in {"element", "name", "colon"} => fs # <<>>
  /\ st \in {"idle", "parsed"} => fs = <<>>

\* The memory at first.
LEMMA MemoryOfNoItems ==
  /\ \E H, E : Memory(NoItems, H, E)
  /\ Allocated(NoItems) = {} /\ HasRoom(NoItems) /\ Consecutive(NoItems)
  /\ Held(NoItems, NULL, <<>>)
<1>1. NoItems \in [Cells -> ItemType] /\ \A a \in Cells : NoItems[a] = Free
  BY BlankIs DEF NoItems, Cells
<1>2. TypedHeap(NoItems)
  BY <1>1, HeapIs
<1>3. Free.next = NULL /\ Free.child = NULL /\ Free.type = "free"
  BY BlankIs
<1>4. Allocated(NoItems) = {}
  BY <1>1, <1>3 DEF Allocated, Cells
<1>5. Forest(NoItems)
  BY <1>1, <1>2, <1>3, CellsAre DEF Forest
<1> DEFINE I == [a \in Cells |-> a]
<1>6. Chains(NoItems, I, I)
  BY <1>1, <1>3, CellsAre DEF Chains
<1>7. Closed(NoItems, I)
  BY <1>1, <1>3 DEF Closed
<1>8. Memory(NoItems, I, I)
  BY <1>5, <1>6, <1>7 DEF Memory
<1>9. HasRoom(NoItems)
  BY <1>4, CellsAre DEF HasRoom, Addresses
<1>10. Consecutive(NoItems)
  BY <1>4 DEF Consecutive
<1>11. Held(NoItems, NULL, <<>>)
  BY <1>4 DEF Held
<1>12. QED
  BY <1>4, <1>8, <1>9, <1>10, <1>11

LEMMA IdleIsReady == Ready("idle", NoItems, NULL, <<>>)
BY MemoryOfNoItems DEF Ready, Steps, Parsing

\* cJSON_ParseWithLengthOpts begins.
LEMMA BegunIsReady ==
  /\ Ready("value", cJSON_New_Item(NoItems, "invalid", 0), NewAddress(NoItems), <<>>)
  /\ Ready("fail", NoItems, NULL, <<>>)
<1> DEFINE g == cJSON_New_Item(NoItems, "invalid", 0)
           x == NewAddress(NoItems)
<1>1. PICK H, E : Memory(NoItems, H, E)
  BY MemoryOfNoItems
<1>2. Forest(NoItems)
  BY <1>1 DEF Memory
<1>3. "invalid" \in Types /\ 0 \in Int
  BY DEF Types
<1>4. Extended(NoItems, g, x)
  BY <1>2, <1>3, NewItemExtends, MemoryOfNoItems
<1> HIDE DEF g, x
<1>5. Memory(g, H, E)
  BY <1>1, <1>4, ExtendedMemory
<1>6. /\ Allocated(g) = {x} /\ Alone(g, x) /\ g[x].child = NULL /\ Consecutive(g)
      /\ x # NULL
  BY <1>4, MemoryOfNoItems, AllocatedAreCells DEF Extended
<1>7. Held(g, x, <<>>)
  BY <1>6 DEF Held, Alone
<1>8. Nest(g, E, x, <<>>)
  BY <1>6 DEF Nest
<1>9. Ready("value", g, x, <<>>)
  BY <1>5, <1>6, <1>7, <1>8 DEF Ready, Steps, TargetOf
<1>10. Ready("fail", NoItems, NULL, <<>>)
  BY MemoryOfNoItems DEF Ready, Steps, Parsing
<1>11. QED
  BY <1>9, <1>10 DEF g, x

\* From any step the parser may fail.
LEMMA GivenUpIsReady ==
  ASSUME NEW st, NEW h, NEW it, NEW fs, Ready(st, h, it, fs)
  PROVE  Ready("fail", h, it, fs)
BY DEF Ready, Steps, Parsing

\* A value or a name is stored.
LEMMA LabelledIsReady ==
  ASSUME NEW st, NEW h, NEW it, NEW fs, Ready(st, h, it, fs), st \in {"value", "name"},
         NEW type \in Types, NEW value \in Int, NEW key \in Keys,
         NEW a, a = TargetOf(it, fs)
  PROVE  /\ st = "value" => Ready("after", [h EXCEPT ![a].type = type, ![a].value = value], it, fs)
         /\ st = "name" => Ready("colon", [h EXCEPT ![a].key = key, ![a].type = type], it, fs)
<1>1. PICK H, E : Memory(h, H, E) /\ Nest(h, E, it, fs)
  BY DEF Ready, Parsing
<1>2. fs \in Seq(FrameType) /\ Held(h, it, fs) /\ (fs # <<>> => fs[Len(fs)].head # NULL)
  BY DEF Ready
<1>3. a \in Allocated(h)
  BY <1>1, <1>2, TargetIs
<1>4. Forest(h)
  BY <1>1 DEF Memory
<1>5. ASSUME NEW g, Relabelled(h, g), Allocated(g) = Allocated(h)
      PROVE  (st = "value" => Ready("after", g, it, fs)) /\ (st = "name" => Ready("colon", g, it, fs))
  <2>1. Memory(g, H, E) /\ Held(g, it, fs) /\ Nest(g, E, it, fs)
    BY <1>1, <1>2, <1>5, RelabelParse
  <2>2. a \in Cells /\ g[a].child = h[a].child
    BY <1>3, <1>5, AllocatedAreCells DEF Relabelled
  <2>3. h[a].child = NULL
    BY DEF Ready
  <2>4. st = "value" => Ready("after", g, it, fs)
    BY <1>2, <2>1 DEF Ready, Steps
  <2>5. st = "name" => Ready("colon", g, it, fs)
    BY <1>2, <2>1, <2>2, <2>3 DEF Ready, Steps
  <2>6. QED
    BY <2>4, <2>5
<1>6. ASSUME NEW g, \/ g = [h EXCEPT ![a].type = type, ![a].value = value]
                    \/ g = [h EXCEPT ![a].key = key, ![a].type = type]
      PROVE  Relabelled(h, g) /\ Allocated(g) = Allocated(h)
  BY <1>3, <1>4, <1>6, LabelsAre
<1>7. QED
  BY <1>5, <1>6

\* An array or object begins.
LEMMA EnteredIsReady ==
  ASSUME NEW h, NEW it, NEW fs, Ready("value", h, it, fs), NEW kind \in {"array", "object"},
         NEW gs, gs = Append(fs, [of |-> TargetOf(it, fs), kind |-> kind,
                                  head |-> NULL, current |-> NULL])
  PROVE  Ready("first", h, it, gs)
<1>1. PICK H, E : Memory(h, H, E) /\ Nest(h, E, it, fs)
  BY DEF Ready, Parsing
<1>2. /\ fs \in Seq(FrameType) /\ Held(h, it, fs) /\ (fs # <<>> => fs[Len(fs)].head # NULL)
      /\ h[TargetOf(it, fs)].child = NULL
  BY DEF Ready
<1>3. gs \in Seq(FrameType)
  BY <1>1, <1>2, EnterNest
<1>4. Held(h, it, gs)
  BY <1>1, <1>2, EnterNest
<1>5. Nest(h, E, it, gs)
  BY <1>1, <1>2, EnterNest
<1>6. gs # <<>> /\ gs[Len(gs)].head = NULL
  BY <1>2
<1>7. QED
  BY <1>1, <1>3, <1>4, <1>5, <1>6 DEF Ready, Steps

\* An array or object ends.
LEMMA LeftIsReady ==
  ASSUME NEW st \in {"first", "after"}, NEW h, NEW it, NEW fs, Ready(st, h, it, fs), fs # <<>>,
         NEW g, g = Left(h, fs[Len(fs)]), NEW gs, gs = SubSeq(fs, 1, Len(fs) - 1)
  PROVE  Ready("after", g, it, gs)
<1>1. PICK H, E : Memory(h, H, E) /\ Nest(h, E, it, fs)
  BY DEF Ready, Parsing
<1>2. fs \in Seq(FrameType) /\ Held(h, it, fs)
  BY DEF Ready
<1>3. /\ Memory(g, H, E) /\ gs \in Seq(FrameType) /\ Held(g, it, gs) /\ Nest(g, E, it, gs)
      /\ gs # <<>> => gs[Len(gs)].head # NULL
  <2>1. CASE fs[Len(fs)].head = NULL
    BY <2>1, <1>1, <1>2, LeaveEmptyNest
  <2>2. CASE fs[Len(fs)].head # NULL
    <3>1. Memory(g, H, E)
      BY <2>2, <1>1, <1>2, LeaveListNest
    <3>2. gs \in Seq(FrameType)
      BY <2>2, <1>1, <1>2, LeaveListNest
    <3>3. Held(g, it, gs)
      BY <2>2, <1>1, <1>2, LeaveListNest
    <3>4. Nest(g, E, it, gs)
      BY <2>2, <1>1, <1>2, LeaveListNest
    <3>5. gs # <<>> => gs[Len(gs)].head # NULL
      BY <2>2, <1>1, <1>2, LeaveListNest
    <3>6. QED
      BY <3>1, <3>2, <3>3, <3>4, <3>5
  <2>3. QED
    BY <2>1, <2>2
<1>4. QED
  BY <1>3 DEF Ready, Steps

\* The memory and the frames with one more element in the innermost list.
Prolonged(h, f) ==
  IF f.head = NULL THEN cJSON_New_Item(h, "invalid", 0)
  ELSE suffix_object(cJSON_New_Item(h, "invalid", 0), f.current, NewAddress(h))
Advanced(fs, x) ==
  Append(SubSeq(fs, 1, Len(fs) - 1),
         [fs[Len(fs)] EXCEPT !.head = IF @ = NULL THEN x ELSE @, !.current = x])

\* The next element of an array or object.
LEMMA NewIsReady ==
  ASSUME NEW st, NEW h, NEW it, NEW fs, Ready(st, h, it, fs), st \in {"first", "element"}, HasRoom(h),
         NEW st2, st2 \in {"name", "value"}
  PROVE  Ready(st2, Prolonged(h, fs[Len(fs)]), it, Advanced(fs, NewAddress(h)))
<1> DEFINE h1 == cJSON_New_Item(h, "invalid", 0)
           x == NewAddress(h)
           g == Prolonged(h, fs[Len(fs)])
           gs == Advanced(fs, NewAddress(h))
<1>0. /\ h1 = cJSON_New_Item(h, "invalid", 0) /\ x = NewAddress(h)
      /\ g = (IF fs[Len(fs)].head = NULL THEN h1 ELSE suffix_object(h1, fs[Len(fs)].current, x))
      /\ gs = Append(SubSeq(fs, 1, Len(fs) - 1),
                     [fs[Len(fs)] EXCEPT !.head = IF @ = NULL THEN x ELSE @, !.current = x])
  BY DEF Prolonged, Advanced
<1> HIDE DEF h1, x, g, gs
<1>1. PICK H, E : Memory(h, H, E) /\ Nest(h, E, it, fs)
  BY DEF Ready, Parsing
<1>2. fs \in Seq(FrameType) /\ fs # <<>> /\ Held(h, it, fs)
  BY DEF Ready
<1>3. fs[Len(fs)] \in FrameType
  BY <1>2
<1>4. Grown(g, it, gs)
  <2>1. CASE fs[Len(fs)].head = NULL
    <3>1. g = h1 /\ [fs[Len(fs)] EXCEPT !.head = IF @ = NULL THEN x ELSE @, !.current = x]
                      = [fs[Len(fs)] EXCEPT !.head = x, !.current = x]
      BY <2>1, <1>0, <1>3 DEF FrameType
    <3>2. gs = Append(SubSeq(fs, 1, Len(fs) - 1), [fs[Len(fs)] EXCEPT !.head = x, !.current = x])
      BY <1>0, <3>1
    <3>3. g = cJSON_New_Item(h, "invalid", 0) /\ fs[Len(fs)].head = NULL
      BY <1>0, <2>1, <3>1
    <3>4. QED
      BY <1>0, <1>1, <1>2, <3>2, <3>3, FirstNest
  <2>2. CASE fs[Len(fs)].head # NULL
    <3>1. /\ g = suffix_object(h1, fs[Len(fs)].current, x)
          /\ [fs[Len(fs)] EXCEPT !.head = IF @ = NULL THEN x ELSE @, !.current = x] = [fs[Len(fs)] EXCEPT !.current = x]
      BY <2>2, <1>0, <1>3 DEF FrameType
    <3>2. gs = Append(SubSeq(fs, 1, Len(fs) - 1), [fs[Len(fs)] EXCEPT !.current = x])
      BY <1>0, <3>1
    <3>3. fs[Len(fs)].head # NULL
      BY <2>2
    <3>4. ASSUME NEW g2, g2 = suffix_object(h1, fs[Len(fs)].current, x),
                 NEW gs2, gs2 = Append(SubSeq(fs, 1, Len(fs) - 1), [fs[Len(fs)] EXCEPT !.current = x])
          PROVE  Grown(g2, it, gs2)
      <4>1. h1 = cJSON_New_Item(h, "invalid", 0) /\ x = NewAddress(h) /\ HasRoom(h)
        BY <1>0
      <4>2. QED
        BY <1>1, <1>2, <3>3, <3>4, <4>1, NextNest
    <3>5. g = suffix_object(h1, fs[Len(fs)].current, x)
      BY <3>1
    <3>6. QED
      BY <3>2, <3>4, <3>5, Zenon
  <2>3. QED
    BY <2>1, <2>2
<1>5. Ready(st2, g, it, gs)
  BY <1>4 DEF Grown, Ready, Steps
<1>6. QED
  BY <1>5 DEF g, gs

\* On the way out of a failure.
LEMMA FailedIsReady ==
  ASSUME NEW h, NEW it, NEW fs, Ready("fail", h, it, fs)
  PROVE  /\ fs # <<>> => Ready("fail", cJSON_Delete(h, fs[Len(fs)].head), it, SubSeq(fs, 1, Len(fs) - 1))
         /\ fs = <<>> => Ready("parsed", cJSON_Delete(h, it), NULL, <<>>)
<1>1. PICK H, E : Memory(h, H, E)
  BY DEF Ready
<1>2. fs \in Seq(FrameType) /\ Held(h, it, fs)
  BY DEF Ready
<1>3. ASSUME fs # <<>>, NEW g, g = cJSON_Delete(h, fs[Len(fs)].head),
             NEW gs, gs = SubSeq(fs, 1, Len(fs) - 1)
      PROVE  Ready("fail", g, it, gs)
  <2>1. \E H2, E2 : Memory(g, H2, E2)
    BY <1>1, <1>2, <1>3, FailListHeld
  <2>2. gs \in Seq(FrameType)
    BY <1>1, <1>2, <1>3, FailListHeld
  <2>3. Held(g, it, gs)
    BY <1>1, <1>2, <1>3, FailListHeld
  <2>4. QED
    BY <2>1, <2>2, <2>3 DEF Ready, Steps, Parsing
<1>4. ASSUME fs = <<>>, NEW g, g = cJSON_Delete(h, it)
      PROVE  Ready("parsed", g, NULL, <<>>)
  <2>1. Held(h, it, <<>>)
    BY <1>2, <1>4
  <2>2. \E H2, E2 : Memory(g, H2, E2)
    BY <1>1, <1>4, <2>1, FailParseHeld
  <2>3. Held(g, NULL, <<>>)
    BY <1>1, <1>4, <2>1, FailParseHeld
  <2>4. QED
    BY <2>2, <2>3 DEF Ready, Steps, Parsing
<1>5. QED
  BY <1>3, <1>4

\* The tree that was converted is deleted: nothing is left.
LEMMA ConvertedIsReady ==
  ASSUME NEW h, NEW it, Ready("parsed", h, it, <<>>), NEW g, g = cJSON_Delete(h, it)
  PROVE  Ready("parsed", g, NULL, <<>>) /\ Allocated(g) = {}
<1>1. PICK H, E : Memory(h, H, E)
  BY DEF Ready
<1>2. Held(h, it, <<>>)
  BY DEF Ready
<1>3. \E H2, E2 : Memory(g, H2, E2)
  BY <1>1, <1>2, FailParseHeld
<1>4. Held(g, NULL, <<>>)
  BY <1>1, <1>2, FailParseHeld
<1>5. Allocated(g) = {}
  BY <1>1, <1>2, FailParseHeld
<1>6. QED
  BY <1>3, <1>4, <1>5 DEF Ready, Steps, Parsing

\* Where only what is read next changes.
LEMMA PassedIsReady ==
  ASSUME NEW h, NEW it, NEW fs
  PROVE  /\ Ready("colon", h, it, fs) => Ready("value", h, it, fs)
         /\ Ready("after", h, it, fs) /\ fs # <<>> => Ready("element", h, it, fs)
         /\ Ready("after", h, it, fs) /\ fs = <<>> => Ready("parsed", h, it, fs)
BY DEF Ready, Steps, Parsing

-----------------------------------------------------------------------------
(***************************************************************************)
(* Every step of the parser keeps this.                                    *)
(***************************************************************************)

\* What is to be parsed, and how far it is.
InputTyped == input \in Seq(TokenType) /\ pos \in Nat \ {0}
Receiving == Ready(step, heap, item, frames) /\ InputTyped

LEMMA SeenIsToken ==
  ASSUME InputTyped, NEW token, Sees(token)
  PROVE  input[pos].name \in Keys /\ input[pos].value \in Int
<1>1. input[pos] \in TokenType
  BY DEF InputTyped, Sees
<1>2. \A t \in TokenType : t.name \in Keys
  BY DEF TokenType
<1>3. \A t \in TokenType : t.value \in Int
  BY DEF TokenType
<1>4. QED
  BY <1>1, <1>2, <1>3

LEMMA TakenIsRead ==
  ASSUME InputTyped, NEW next, Take(next)
  PROVE  InputTyped' /\ step' = next /\ item' = item
BY DEF InputTyped, Take

LEMMA GiveUpReceives ==
  ASSUME Receiving, GiveUp
  PROVE  Receiving'
<1>1. step' = "fail" /\ heap' = heap /\ item' = item /\ frames' = frames
  BY DEF GiveUp
<1>2. Ready("fail", heap, item, frames)
  BY GivenUpIsReady DEF Receiving
<1>3. InputTyped'
  BY DEF Receiving, InputTyped, GiveUp
<1>4. QED
  BY <1>1, <1>2, <1>3 DEF Receiving

LEMMA ValueReceives ==
  ASSUME Receiving,
         ParseScalar \/ ParseString \/ (\E kind \in DOMAIN Opening : Enter(kind)) \/ NotAValue
  PROVE  Receiving'
<1>1. CASE NotAValue \/ GiveUp
  BY <1>1, GiveUpReceives DEF NotAValue
<1>2. CASE (ParseScalar \/ ParseString) /\ ~GiveUp
  <2>1. PICK type \in {"number", "null", "string"} :
          /\ step = "value" /\ Sees(type) /\ frames' = frames /\ Take("after")
          /\ heap' = [heap EXCEPT ![Target].type = type, ![Target].value = input[pos].value]
    BY <1>2 DEF ParseScalar, ParseString, Sees
  <2>2. input[pos].value \in Int /\ type \in Types
    BY <2>1, SeenIsToken DEF Receiving, Types
  <2>3. Target = TargetOf(item, frames)
    BY DEF Target, TargetOf, Inner
  <2>4. NoKey \in Keys
    BY DEF Keys
  <2>5. Ready("after", heap', item, frames)
    BY <2>1, <2>2, <2>3, <2>4, LabelledIsReady DEF Receiving
  <2>6. InputTyped' /\ step' = "after" /\ item' = item
    BY <2>1, TakenIsRead DEF Receiving
  <2>7. QED
    BY <2>1, <2>5, <2>6 DEF Receiving
<1>3. ASSUME NEW kind \in DOMAIN Opening, Enter(kind)
      PROVE  Receiving'
  <2>1. kind \in {"array", "object"}
    BY DEF Opening
  <2>2. /\ step = "value" /\ heap' = heap /\ Take("first")
        /\ frames' = Append(frames, [of |-> TargetOf(item, frames), kind |-> kind,
                                     head |-> NULL, current |-> NULL])
    BY <1>3 DEF Enter, Target, TargetOf, Inner
  <2>3. Ready("first", heap, item, frames')
    BY <2>1, <2>2, EnteredIsReady DEF Receiving
  <2>4. InputTyped' /\ step' = "first" /\ item' = item
    BY <2>2, TakenIsRead DEF Receiving
  <2>5. QED
    BY <2>2, <2>3, <2>4 DEF Receiving
<1>4. QED
  BY <1>1, <1>2, <1>3

LEMMA NewElementReceives ==
  ASSUME Receiving, NewElement
  PROVE  Receiving'
<1>1. CASE GiveUp
  BY <1>1, GiveUpReceives
<1>2. CASE ~GiveUp
  <2>1. /\ step \in {"first", "element"} /\ HasRoom(heap)
        /\ heap' = Prolonged(heap, frames[Len(frames)])
        /\ frames' = Advanced(frames, NewAddress(heap))
        /\ step' \in {"name", "value"} /\ item' = item /\ UNCHANGED <<input, pos>>
    BY <1>2 DEF NewElement, Inner, Outer, Prolonged, Advanced
  <2>3. Ready(step', heap', item, frames')
    BY <2>1, NewIsReady DEF Receiving
  <2>4. InputTyped'
    BY <2>1 DEF Receiving, InputTyped
  <2>5. QED
    BY <2>1, <2>3, <2>4 DEF Receiving
<1>3. QED
  BY <1>1, <1>2

LEMMA NameReceives ==
  ASSUME Receiving, ParseName \/ PassColon \/ PassComma \/ Unexpected
  PROVE  Receiving'
<1>1. CASE Unexpected \/ GiveUp
  BY <1>1, GiveUpReceives DEF Unexpected
<1>2. CASE ParseName /\ ~GiveUp
  <2>1. /\ step = "name" /\ Sees("string") /\ frames' = frames /\ Take("colon")
        /\ heap' = [heap EXCEPT ![Inner.current].key = input[pos].name,
                                ![Inner.current].type = "string"]
    BY <1>2 DEF ParseName
  <2>2. input[pos].name \in Keys /\ "string" \in Types /\ 0 \in Int
    <3>1. InputTyped
      BY DEF Receiving
    <3>2. input[pos].name \in Keys
      BY <2>1, <3>1, SeenIsToken
    <3>3. QED
      BY <3>2 DEF Types
  <2>3. Inner.current = TargetOf(item, frames)
    BY <2>1 DEF TargetOf, Inner, Receiving, Ready
  <2>4. Ready("colon", heap', item, frames)
    BY <2>1, <2>2, <2>3, LabelledIsReady DEF Receiving
  <2>5. InputTyped' /\ step' = "colon" /\ item' = item
    BY <2>1, TakenIsRead DEF Receiving
  <2>6. QED
    BY <2>1, <2>4, <2>5 DEF Receiving
<1>3. CASE PassColon
  <2>1. step = "colon" /\ heap' = heap /\ frames' = frames /\ Take("value")
    BY <1>3 DEF PassColon
  <2>2. InputTyped' /\ step' = "value" /\ item' = item
    BY <2>1, TakenIsRead DEF Receiving
  <2>3. Ready("value", heap, item, frames)
    BY <2>1, PassedIsReady DEF Receiving
  <2>4. QED
    BY <2>1, <2>2, <2>3 DEF Receiving
<1>4. CASE PassComma
  <2>1. step = "after" /\ frames # <<>> /\ heap' = heap /\ frames' = frames /\ Take("element")
    BY <1>4 DEF PassComma
  <2>2. InputTyped' /\ step' = "element" /\ item' = item
    BY <2>1, TakenIsRead DEF Receiving
  <2>3. Ready("element", heap, item, frames)
    BY <2>1, PassedIsReady DEF Receiving
  <2>4. QED
    BY <2>1, <2>2, <2>3 DEF Receiving
<1>5. QED
  BY <1>1, <1>2, <1>3, <1>4

LEMMA LeaveReceives ==
  ASSUME Receiving, Leave
  PROVE  Receiving'
<1>1. /\ step \in {"first", "after"} /\ frames # <<>>
      /\ heap' = Left(heap, frames[Len(frames)])
      /\ frames' = SubSeq(frames, 1, Len(frames) - 1) /\ Take("after")
  BY DEF Leave, Left, Inner, Outer
<1>2. Ready("after", heap', item, frames')
  BY <1>1, LeftIsReady DEF Receiving
<1>3. InputTyped' /\ step' = "after" /\ item' = item
  BY <1>1, TakenIsRead DEF Receiving
<1>4. QED
  BY <1>2, <1>3 DEF Receiving

LEMMA EndReceives ==
  ASSUME Receiving, FailList \/ FailParse \/ FinishParse
  PROVE  Receiving'
<1>1. CASE FailList
  <2>1. /\ step = "fail" /\ step' = "fail" /\ item' = item /\ frames # <<>>
        /\ heap' = cJSON_Delete(heap, frames[Len(frames)].head)
        /\ frames' = SubSeq(frames, 1, Len(frames) - 1)
    BY <1>1 DEF FailList, Inner, Outer
  <2>2. Ready("fail", heap', item, frames')
    BY <2>1, FailedIsReady DEF Receiving
  <2>3. InputTyped'
    BY <1>1 DEF FailList, Receiving, InputTyped
  <2>4. QED
    BY <2>1, <2>2, <2>3 DEF Receiving
<1>2. CASE FailParse
  <2>1. /\ step = "fail" /\ step' = "parsed" /\ item' = NULL /\ frames = <<>> /\ frames' = <<>>
        /\ heap' = cJSON_Delete(heap, item)
    BY <1>2 DEF FailParse
  <2>2. Ready("parsed", heap', NULL, <<>>)
    BY <2>1, FailedIsReady DEF Receiving
  <2>3. InputTyped'
    BY <1>2 DEF FailParse, Receiving, InputTyped
  <2>4. QED
    BY <2>1, <2>2, <2>3 DEF Receiving
<1>3. CASE FinishParse
  <2>1. /\ step = "after" /\ step' = "parsed" /\ item' = item /\ frames = <<>> /\ frames' = frames
        /\ heap' = heap
    BY <1>3 DEF FinishParse
  <2>2. Ready("parsed", heap, item, frames)
    BY <2>1, PassedIsReady DEF Receiving
  <2>3. InputTyped'
    BY <1>3 DEF FinishParse, Receiving, InputTyped
  <2>4. QED
    BY <2>1, <2>2, <2>3 DEF Receiving
<1>4. QED
  BY <1>1, <1>2, <1>3

\* Whatever the text is, and wherever an allocation fails.
LEMMA ParseReceives ==
  ASSUME Receiving, ParseStep
  PROVE  Receiving'
BY ValueReceives, NewElementReceives, NameReceives, LeaveReceives, EndReceives DEF ParseStep

-----------------------------------------------------------------------------
(***************************************************************************)
(* Every call of the sender keeps what is true of a tree while it is       *)
(* built.                                                                  *)
(***************************************************************************)

\* n calls are done.
Underway(n, h, l, lo) ==
  n \in Nat /\ n <= Len(Calls) /\ l \in [Pointers -> Cells] /\ Building(Calls, n, h, l, lo)

\* The next call, and the order it is in.
LEMMA CallIs ==
  ASSUME net \in Networks, at \in Nat \ {0}, ~Built
  PROVE  /\ Calls \in Seq(CallSet) /\ Ordered(Calls)
         /\ at - 1 \in Nat /\ (at - 1) + 1 \in 1 .. Len(Calls) /\ (at - 1) + 1 = at
         /\ Call \in CallSet /\ Calls[(at - 1) + 1] = Call
<1>1. Calls \in Seq(CallSet) /\ Ordered(Calls)
  BY CallsBlock DEF Block
<1>2. Len(Calls) \in Nat /\ at \in 1 .. Len(Calls)
  BY <1>1 DEF Built
<1>3. QED
  BY <1>1, <1>2 DEF Call

LEMMA CreateSends ==
  ASSUME net \in Networks, at \in Nat \ {0}, Underway(at - 1, tree, local, lost), CreateItem
  PROVE  at' = at + 1 /\ Underway(at, tree', local', lost')
<1>1. /\ ~Built /\ Call.call = "create" /\ lost' = lost /\ at' = at + 1
      /\ \/ /\ HasRoom(tree) /\ tree' = cJSON_New_Item(tree, Call.type, Call.value)
            /\ local' = [local EXCEPT ![Call.var] = NewAddress(tree)]
         \/ tree' = tree /\ local' = [local EXCEPT ![Call.var] = NULL]
  BY DEF CreateItem, Called
<1>2. /\ Calls \in Seq(CallSet) /\ Ordered(Calls)
      /\ at - 1 \in Nat /\ (at - 1) + 1 \in 1 .. Len(Calls) /\ (at - 1) + 1 = at
      /\ Call \in CallSet /\ Calls[(at - 1) + 1] = Call
  BY <1>1, CallIs
<1>3. local \in [Pointers -> Cells] /\ Building(Calls, at - 1, tree, local, lost)
  BY DEF Underway
<1>4. Building(Calls, (at - 1) + 1, tree', local', lost)
  <2>1. CASE tree' = tree /\ local' = [local EXCEPT ![Call.var] = NULL]
    BY <2>1, <1>1, <1>2, <1>3, NotCreatedIsBuilding
  <2>2. CASE /\ HasRoom(tree) /\ tree' = cJSON_New_Item(tree, Call.type, Call.value)
             /\ local' = [local EXCEPT ![Call.var] = NewAddress(tree)]
    BY <2>2, <1>1, <1>2, <1>3, CreatedIsBuilding
  <2>3. QED
    BY <1>1, <2>1, <2>2
<1>5. local' \in [Pointers -> Cells]
  <2>1. NULL \in Cells /\ (HasRoom(tree) => NewAddress(tree) \in Cells)
    BY NewAddressIs DEF Cells
  <2>2. QED
    BY <1>1, <1>3, <2>1
<1>6. QED
  BY <1>1, <1>2, <1>4, <1>5 DEF Underway

LEMMA AddSends ==
  ASSUME net \in Networks, at \in Nat \ {0}, Underway(at - 1, tree, local, lost),
         AddItemToObject \/ AddItemToArray \/ NothingAdded
  PROVE  at' = at + 1 /\ Underway(at, tree', local', lost')
<1>1. /\ ~Built /\ Call.call # "create" /\ local' = local /\ at' = at + 1
  BY DEF AddItemToObject, AddItemToArray, NothingAdded, Called
<1>2. /\ Calls \in Seq(CallSet) /\ Ordered(Calls)
      /\ at - 1 \in Nat /\ (at - 1) + 1 \in 1 .. Len(Calls) /\ (at - 1) + 1 = at
      /\ Call \in CallSet /\ Calls[(at - 1) + 1] = Call
  BY <1>1, CallIs
<1>3. local \in [Pointers -> Cells] /\ Building(Calls, at - 1, tree, local, lost)
  BY DEF Underway
<1>4. CASE tree' = tree /\ lost' = lost \cup ({local[Call.var]} \ {NULL})
  <2>1. Building(Calls, (at - 1) + 1, tree, local, lost')
    BY <1>1, <1>2, <1>3, <1>4, NotAddedIsBuilding
  <2>2. QED
    BY <1>1, <1>2, <1>3, <1>4, <2>1 DEF Underway
<1>5. CASE /\ local[Call.var] # NULL /\ local[Call.to] # NULL /\ lost' = lost
           /\ \E f : /\ Relabelled(tree, f) /\ Allocated(f) = Allocated(tree)
                     /\ tree' = add_item_to_array(f, local[Call.to], local[Call.var])
  <2>1. PICK f : /\ Relabelled(tree, f) /\ Allocated(f) = Allocated(tree)
                 /\ tree' = add_item_to_array(f, local[Call.to], local[Call.var])
    BY <1>5
  <2>2. Building(Calls, (at - 1) + 1, tree', local, lost)
    BY <1>1, <1>2, <1>3, <1>5, <2>1, AddedIsBuilding
  <2>3. QED
    BY <1>1, <1>2, <1>3, <1>5, <2>2 DEF Underway
<1>6. PICK H, E : Memory(tree, H, E)
  BY <1>3 DEF Building
<1>7. Forest(tree)
  BY <1>6 DEF Memory
<1>8. CASE NothingAdded \/ (AddItemToObject /\ tree' = tree /\ lost' = lost \cup {Item})
  <2>1. Item # NULL \/ NothingAdded
    BY <1>8 DEF AddItemToObject, Addable
  <2>2. tree' = tree /\ lost' = lost \cup ({local[Call.var]} \ {NULL})
    BY <1>8, <2>1 DEF NothingAdded, Item
  <2>3. QED
    BY <1>4, <2>2
<1>9. CASE AddItemToArray
  <2>1. /\ local[Call.var] # NULL /\ local[Call.to] # NULL /\ lost' = lost
        /\ tree' = add_item_to_array(tree, local[Call.to], local[Call.var])
    BY <1>9 DEF AddItemToArray, Addable, Item, To
  <2>2. Relabelled(tree, tree)
    BY <1>7 DEF Forest, Relabelled
  <2>3. QED
    BY <1>5, <2>1, <2>2
<1>10. CASE AddItemToObject /\ tree' = add_item_to_object(tree, To, Call.name, Item) /\ lost' = lost
  <2> DEFINE f == [tree EXCEPT ![Item].key = Call.name]
  <2>1. /\ local[Call.var] # NULL /\ local[Call.to] # NULL /\ Item = local[Call.var]
        /\ tree' = add_item_to_array(f, local[Call.to], local[Call.var])
    BY <1>10 DEF AddItemToObject, add_item_to_object, Addable, Item, To
  <2>2. Call.name \in Keys /\ Call.var \in Pointers
    BY <1>10, <1>2 DEF AddItemToObject, CallSet, Keys
  <2>3. Item \in Allocated(tree)
    BY <1>3, <2>1, <2>2 DEF Building, Known
  <2>4. "null" \in Types /\ 0 \in Int
    BY DEF Types
  <2>5. f = [tree EXCEPT ![Item].key = Call.name]
    OBVIOUS
  <2> HIDE DEF f
  <2>6. Relabelled(tree, f) /\ Allocated(f) = Allocated(tree)
    BY <1>7, <2>2, <2>3, <2>4, <2>5, LabelsAre
  <2>7. QED
    BY <1>5, <1>10, <2>1, <2>6
<1>11. QED
  BY <1>8, <1>9, <1>10 DEF AddItemToObject

\* Each call does what the order of the calls promises.
LEMMA BuildSends ==
  ASSUME net \in Networks, at \in Nat \ {0}, Underway(at - 1, tree, local, lost), Build
  PROVE  at' = at + 1 /\ Underway(at, tree', local', lost')
BY CreateSends, AddSends DEF Build

-----------------------------------------------------------------------------
(***************************************************************************)
(* The tree is complete, and it is printed or deleted.                     *)
(***************************************************************************)

\* The whole tree is made: what the pointers still hold is of it, or lost.
Made(h, l, lo) ==
  /\ \E H, E : Memory(h, H, E)
  /\ l \in [Pointers -> Cells] /\ Known(h, l, lo)
  /\ l["root"] # NULL => ~Pointed(h, l["root"]) /\ l["root"] \notin lo
  /\ \A v \in Pointers : v # "root" /\ l[v] # NULL => Pointed(h, l[v]) \/ l[v] \in lo

\* Nothing else is without an item before it or around it.
Kept(h, R) ==
  /\ \E H, E : Memory(h, H, E)
  /\ R \subseteq Allocated(h) \cup {NULL}
  /\ \A b \in Allocated(h) : b \in R \/ Pointed(h, b)

LEMMA NothingIsBuilt ==
  ASSUME net \in Networks
  PROVE  Underway(0, NoItems, [v \in Pointers |-> NULL], {})
<1> DEFINE l == [v \in Pointers |-> NULL]
<1>1. Calls \in Seq(CallSet)
  BY CallsBlock DEF Block
<1>2. Len(Calls) \in Nat
  BY <1>1
<1>3. l \in [Pointers -> Cells] /\ \A v \in Pointers : l[v] = NULL
  BY DEF Cells
<1>4. Known(NoItems, l, {})
  BY <1>3, MemoryOfNoItems DEF Known
<1>5. Timely(Calls, 0, NoItems, l, {})
  BY <1>3 DEF Timely
<1>6. Building(Calls, 0, NoItems, l, {})
  BY <1>4, <1>5, MemoryOfNoItems DEF Building
<1>7. QED
  BY <1>2, <1>3, <1>6 DEF Underway

\* After the last call the tree is complete.
LEMMA BuiltIsMade ==
  ASSUME net \in Networks, NEW n, n = Len(Calls), NEW h, NEW l, NEW lo, Underway(n, h, l, lo)
  PROVE  Made(h, l, lo)
<1>1. \A v : Pending(Calls, n, v) => v = "root"
  BY CallsBlock DEF Block
<1>2. Pending(Calls, n, "root") /\ "root" \in Pointers
  BY CallsBlock DEF Pointers
<1>3. Known(h, l, lo) /\ Timely(Calls, n, h, l, lo) /\ l \in [Pointers -> Cells]
      /\ \E H, E : Memory(h, H, E)
  BY DEF Underway, Building
<1>4. l["root"] # NULL => ~Pointed(h, l["root"]) /\ l["root"] \notin lo
  BY <1>2, <1>3 DEF Timely, Alone
<1>5. \A v \in Pointers : v # "root" /\ l[v] # NULL => Pointed(h, l[v]) \/ l[v] \in lo
  BY <1>1, <1>3 DEF Timely
<1>6. QED
  BY <1>3, <1>4, <1>5 DEF Made

LEMMA KnownIsKept ==
  ASSUME NEW h, NEW l, NEW lo, \E H, E : Memory(h, H, E), Known(h, l, lo)
  PROVE  Kept(h, lo \cup {l[p] : p \in Pointers})
BY DEF Known, Kept

\* The server deletes the tree; what is lost stays.
LEMMA DeletedIsKept ==
  ASSUME NEW h, NEW l, NEW lo, Made(h, l, lo), NEW g, g = cJSON_Delete(h, l["root"])
  PROVE  Kept(g, lo)
<1> DEFINE a == l["root"]
<1>1. PICK H, E : Memory(h, H, E)
  BY DEF Made
<1>2. Known(h, l, lo) /\ "root" \in Pointers
  BY DEF Made, Pointers
<1>3. a # NULL => a \in Allocated(h) /\ ~Pointed(h, a)
  BY <1>2 DEF Made, Known
<1>4. g = cJSON_Delete(h, a)
  OBVIOUS
<1> HIDE DEF a
<1>5. \E H2, E2 : Memory(g, H2, E2)
  BY <1>1, <1>3, <1>4, DeleteKeeps
<1>6. \A r \in Allocated(h) : ~Pointed(h, r) /\ r # a => r \in Allocated(g) /\ ~Pointed(g, r)
  BY <1>1, <1>3, <1>4, DeleteKeeps
<1>7. \A b \in Allocated(g) : b \in Allocated(h) /\ b # a /\ (Pointed(h, b) => Pointed(g, b))
  BY <1>1, <1>3, <1>4, DeleteKeeps
<1>8. lo \subseteq Allocated(g)
  <2>1. SUFFICES ASSUME NEW b \in lo PROVE b \in Allocated(g)
    OBVIOUS
  <2>2. b \in Allocated(h) /\ ~Pointed(h, b)
    BY <1>2 DEF Known
  <2>3. b # a
    BY <2>2, AllocatedAreCells DEF a, Made
  <2>4. QED
    BY <1>6, <2>2, <2>3
<1>9. \A b \in Allocated(g) : b \in lo \/ Pointed(g, b)
  <2>1. SUFFICES ASSUME NEW b \in Allocated(g), b \notin lo PROVE Pointed(g, b)
    OBVIOUS
  <2>2. b \in Allocated(h) /\ b # a /\ (Pointed(h, b) => Pointed(g, b)) /\ b # NULL
    BY <1>7, AllocatedAreCells
  <2>3. CASE \E v \in Pointers : b = l[v]
    <3>1. PICK v \in Pointers : b = l[v]
      BY <2>3
    <3>2. v # "root"
      BY <2>2, <3>1 DEF a
    <3>3. Pointed(h, b)
      BY <2>1, <2>2, <3>1, <3>2 DEF Made
    <3>4. QED
      BY <2>2, <3>3
  <2>4. QED
    BY <1>2, <2>1, <2>2, <2>3 DEF Known
<1>10. QED
  BY <1>5, <1>8, <1>9 DEF Kept

\* What is kept is all there is: what the roots hold, and nothing else.
LEMMA KeptIsHeld ==
  ASSUME NEW h, NEW R, Kept(h, R)
  PROVE  Allocated(h) = Holds(h, R)
<1>1. PICK H, E : Memory(h, H, E)
  BY DEF Kept
<1>2. Forest(h) /\ R \subseteq Allocated(h) \cup {NULL}
      /\ \A b \in Allocated(h) : b \in R \/ Pointed(h, b)
  BY <1>1 DEF Memory, Kept
<1>3. QED
  BY <1>2, AllAreHeld

\* What the parser holds is kept.
LEMMA HeldIsKept ==
  ASSUME NEW h, NEW it, NEW fs \in Seq(FrameType), Held(h, it, fs), \E H, E : Memory(h, H, E),
         NEW R, R = {it} \cup {fs[n].head : n \in DOMAIN fs}
  PROVE  Kept(h, R)
<1>1. Len(fs) \in Nat /\ DOMAIN fs = 1 .. Len(fs) /\ \A k \in 1 .. Len(fs) : fs[k] \in FrameType
  OBVIOUS
<1>2. R \subseteq Allocated(h) \cup {NULL}
  BY <1>1 DEF Held
<1>3. \A b \in Allocated(h) : b \in R \/ Pointed(h, b)
  BY <1>1 DEF Held
<1>4. QED
  BY <1>2, <1>3 DEF Kept

-----------------------------------------------------------------------------
(***************************************************************************)
(* cJSON_Print stays inside its buffer: whatever tree is printed,          *)
(* whichever lengths its names and numbers have, and wherever an           *)
(* allocation fails.                                                       *)
(***************************************************************************)

\* The places where update_offset comes next.
Ends == {"colon", "after"}

(***************************************************************************)
(* The inductive invariant.  The text written so far reaches to the offset *)
(* and at most a terminator further, or, before update_offset, to the      *)
(* terminator: each piece is then written over the last terminator.        *)
(***************************************************************************)
Extents ==
  /\ length \in Nat /\ offset \in Nat /\ extent \in Nat /\ end \in Int
  /\ length > 0 => extent <= length
Reached ==
  /\ todo \in Ends => /\ length > 0 /\ offset <= end /\ extent = end + 1
  /\ todo \in {"idle", "value", "name", "element"} => extent <= offset + 1
Sequence(s) == \E S : s \in Seq(S)
Nested ==
  /\ Sequence(stack)
  /\ todo \in {"element", "name", "colon"} => stack # <<>>
NotBegun ==
  stage = "build" => todo = "idle" /\ extent = 0 /\ offset = 0 /\ stack = <<>>

AllPrinted == stage = "send" => todo = "printed"

PrintInv == Extents /\ Reached /\ Nested /\ NotBegun /\ AllPrinted
-----------------------------------------------------------------------------
(***************************************************************************)
(* ensure makes the buffer long enough for what is written next, and one   *)
(* character more; a buffer is never made shorter.                         *)
(***************************************************************************)
LEMMA EnsuredIsEnough ==
  ASSUME Extents, NEW from \in Nat, NEW needed \in Nat, ~Refused(from, needed)
  PROVE  /\ Ensured(from, needed) \in Nat
         /\ Ensured(from, needed) >= length
         /\ Ensured(from, needed) >= from + needed + 1
BY PrintAssumption DEF Extents, Refused, Ensured, Total

\* A piece that fits into the room ensured for it is inside of the buffer.
LEMMA WrittenInside ==
  ASSUME Extents, NEW from \in Nat, NEW needed \in Nat, NEW n \in Nat,
         NEW advance \in Nat, 1 <= n, n <= needed + 1, extent <= from + 1,
         ~Refused(from, needed), length' = Ensured(from, needed), end' \in Int,
         extent' = (IF from + n > extent THEN from + n ELSE extent),
         offset' = from + advance
  PROVE  Extents' /\ length' > 0 /\ extent' = from + n
<1>1. /\ length' \in Nat /\ length' >= from + needed + 1
  BY EnsuredIsEnough
<1>2. extent' = from + n
  BY DEF Extents
<1>3. QED  BY <1>1, <1>2 DEF Extents

\* Where there is no room nothing is written, and printing fails.
LEMMA NoRoomInside ==
  ASSUME Extents, Nested, NEW from \in Nat, NEW needed \in Nat, NoRoom(from, needed)
  PROVE  Extents' /\ Reached' /\ Nested'
<1>1. /\ length' = length \/ length' = 0
      /\ todo' = "failed" /\ stack' = stack
      /\ offset' = offset /\ end' = end /\ extent' = extent
  BY DEF NoRoom
<1>2. Extents'  BY <1>1 DEF Extents
<1>3. Reached'  BY <1>1 DEF Reached, Ends
<1>4. Nested'  BY <1>1 DEF Nested
<1>5. QED  BY <1>2, <1>3, <1>4

(***************************************************************************)
(* A piece of text before update_offset is terminated behind the offset;   *)
(* any other advances the offset to its last character at least.           *)
(***************************************************************************)
LEMMA EndInside ==
  ASSUME Extents, Nested, NEW from \in Nat, NEW needed \in Nat, NEW n \in Nat,
         NEW advance \in Nat, NEW tokens, NEW next \in Ends, NEW frames_,
         1 <= n, n <= needed + 1, extent <= from + 1, advance < n,
         Sequence(frames_), next = "colon" => frames_ # <<>>,
         Write(from, needed, n, TRUE, advance, tokens, next, frames_)
  PROVE  Extents' /\ Reached' /\ Nested'
<1>1. CASE NoRoom(from, needed)
  BY <1>1, NoRoomInside
<1>2. CASE Written(from, needed, n, TRUE, advance) /\ todo' = next /\ stack' = frames_
  <2>1. offset' = from + advance /\ end' = from + n - 1 /\ end' \in Int
    BY <1>2 DEF Written
  <2>2. /\ ~Refused(from, needed) /\ length' = Ensured(from, needed)
        /\ extent' = (IF from + n > extent THEN from + n ELSE extent)
    BY <1>2 DEF Written
  <2>3. Extents' /\ length' > 0 /\ extent' = from + n
    BY <2>1, <2>2, WrittenInside
  <2>4. Reached'
    BY <1>2, <2>1, <2>3 DEF Extents, Reached, Ends
  <2>5. Nested'
    BY <1>2 DEF Nested, Ends, Sequence
  <2>6. QED  BY <2>3, <2>4, <2>5
<1>3. QED  BY <1>1, <1>2 DEF Write

LEMMA WriteInside ==
  ASSUME Extents, Nested, NEW from \in Nat, NEW needed \in Nat, NEW n \in Nat,
         NEW advance \in Nat, NEW tokens, NEW next, next \notin Ends, NEW frames_,
         1 <= n, n <= needed + 1, extent <= from + 1, n <= advance + 1,
         Sequence(frames_), frames_ # <<>>,
         \/ Write(from, needed, n, TRUE, advance, tokens, next, frames_)
         \/ Write(from, needed, n, FALSE, advance, tokens, next, frames_)
  PROVE  Extents' /\ Reached' /\ Nested'
<1>1. CASE NoRoom(from, needed)
  BY <1>1, NoRoomInside
<1>2. CASE /\ \/ Written(from, needed, n, TRUE, advance)
              \/ Written(from, needed, n, FALSE, advance)
           /\ todo' = next /\ stack' = frames_
  <2>1. offset' = from + advance /\ end' \in Int
    BY <1>2 DEF Written, Unterminated
  <2>2. /\ ~Refused(from, needed) /\ length' = Ensured(from, needed)
        /\ extent' = (IF from + n > extent THEN from + n ELSE extent)
    BY <1>2 DEF Written
  <2>3. Extents' /\ length' > 0 /\ extent' = from + n
    BY <2>1, <2>2, WrittenInside
  <2>4. Reached'
    <3>1. todo' \notin Ends /\ offset' = from + advance /\ extent' = from + n
      BY <1>2, <2>1, <2>3
    <3>2. extent' <= offset' + 1
      BY <3>1
    <3>3. QED  BY <3>1, <3>2 DEF Reached
  <2>5. Nested'
    BY <1>2 DEF Nested, Sequence
  <2>6. QED  BY <2>3, <2>4, <2>5
<1>3. QED  BY <1>1, <1>2 DEF Write
-----------------------------------------------------------------------------
\* The stack after an array or object was begun, and after its next element.
LEMMA StackOfMore ==
  ASSUME Nested, NEW e
  PROVE  Append(stack, e) # <<>> /\ Sequence(Append(stack, e))
<1>1. PICK S : stack \in Seq(S)  BY DEF Nested, Sequence
<1>2. stack \in Seq(S \cup {e}) /\ e \in S \cup {e}  BY <1>1
<1>3. Append(stack, e) \in Seq(S \cup {e})  BY <1>2
<1>4. Len(Append(stack, e)) = Len(stack) + 1 /\ Len(stack) \in Nat  BY <1>2
<1>5. Append(stack, e) # <<>>  BY <1>4
<1>6. QED  BY <1>3, <1>5 DEF Sequence

LEMMA StackOfAsMany ==
  ASSUME Nested, stack # <<>>, NEW child
  PROVE  With(child) # <<>> /\ Sequence(With(child))
<1> DEFINE e == [Innermost EXCEPT !.child = child]
<1>1. PICK S : stack \in Seq(S)  BY DEF Nested, Sequence
<1>2. With(child) = [stack EXCEPT ![Len(stack)] = e]  BY DEF With, Innermost
<1> HIDE DEF e
<1>3. stack \in Seq(S \cup {e}) /\ e \in S \cup {e}  BY <1>1
<1>4. Len(stack) \in 1 .. Len(stack)  BY <1>1
<1>5. /\ With(child) \in Seq(S \cup {e})
      /\ Len(With(child)) = Len(stack)
  BY <1>2, <1>3, <1>4
<1>6. With(child) # <<>>  BY <1>5, <1>4
<1>7. QED  BY <1>5, <1>6 DEF Sequence

LEMMA StackOfFewer ==
  ASSUME Nested, stack # <<>>
  PROVE  Sequence(SubSeq(stack, 1, depth - 1))
<1>1. PICK S : stack \in Seq(S)  BY DEF Nested, Sequence
<1>2. Len(stack) \in Nat /\ Len(stack) >= 1  BY <1>1
<1>3. SubSeq(stack, 1, Len(stack) - 1) \in Seq(S)  BY <1>1, <1>2
<1>4. QED  BY <1>3 DEF depth, Sequence

LEMMA DepthIsNatural ==
  ASSUME Nested
  PROVE  depth \in Nat /\ (stack # <<>> => depth >= 1)
BY DEF Nested, Sequence, depth
-----------------------------------------------------------------------------
(***************************************************************************)
(* One lemma for the pieces that a value is printed with, one for those of *)
(* an array or object around its elements.                                 *)
(***************************************************************************)
LEMMA ValuesInside ==
  ASSUME PrintInv, NEW h, NEW a,
         PrintNumber(h, a) \/ PrintString(h, a) \/ PrintName(h)
  PROVE  Extents' /\ Reached' /\ Nested'
<1> USE DEF PrintInv
<1>1. CASE PrintNumber(h, a)
  <2>1. PICK width \in Widths : \E tokens :
          Write(offset, width + 1, width + 1, TRUE, width, tokens, "after", stack)
    BY <1>1 DEF PrintNumber
  <2>2. PICK tokens :
          Write(offset, width + 1, width + 1, TRUE, width, tokens, "after", stack)
    BY <2>1
  <2>3. /\ offset \in Nat /\ width + 1 \in Nat /\ width \in Nat
        /\ 1 <= width + 1 /\ width + 1 <= width + 1 + 1
        /\ extent <= offset + 1 /\ width < width + 1
    BY <1>1, <2>1, PrintAssumption DEF PrintNumber, Extents, Reached
  <2>4. Extents /\ Nested /\ Sequence(stack)  BY DEF Nested
  <2>5. "after" \in Ends /\ "after" # "colon"  BY DEF Ends
  <2>6. QED  BY <2>2, <2>3, <2>4, <2>5, EndInside
<1>2. CASE PrintString(h, a)
  <2>1. PICK width \in Widths : \E tokens :
          Write(offset, width + 3, width + 3, TRUE, 0, tokens, "after", stack)
    BY <1>2 DEF PrintString
  <2>2. PICK tokens :
          Write(offset, width + 3, width + 3, TRUE, 0, tokens, "after", stack)
    BY <2>1
  <2>3. /\ offset \in Nat /\ width + 3 \in Nat /\ 0 \in Nat
        /\ 1 <= width + 3 /\ width + 3 <= width + 3 + 1
        /\ extent <= offset + 1 /\ 0 < width + 3
    BY <1>2, <2>1, PrintAssumption DEF PrintString, Extents, Reached
  <2>4. Extents /\ Nested /\ Sequence(stack)  BY DEF Nested
  <2>5. "after" \in Ends /\ "after" # "colon"  BY DEF Ends
  <2>6. QED  BY <2>2, <2>3, <2>4, <2>5, EndInside
<1>3. CASE PrintName(h)
  <2>1. PICK width \in Widths : \E tokens :
          Write(offset, width + 3, width + 3, TRUE, 0, tokens, "colon", stack)
    BY <1>3 DEF PrintName
  <2>2. PICK tokens :
          Write(offset, width + 3, width + 3, TRUE, 0, tokens, "colon", stack)
    BY <2>1
  <2>3. /\ offset \in Nat /\ width + 3 \in Nat /\ 0 \in Nat
        /\ 1 <= width + 3 /\ width + 3 <= width + 3 + 1
        /\ extent <= offset + 1 /\ 0 < width + 3
    BY <1>3, <2>1, PrintAssumption DEF PrintName, Extents, Reached
  <2>4. Extents /\ Nested /\ Sequence(stack)  BY DEF Nested
  <2>5. "colon" \in Ends /\ stack # <<>>
    BY <1>3 DEF Ends, PrintName, Nested
  <2>6. QED  BY <2>2, <2>3, <2>4, <2>5, EndInside
<1>4. QED  BY <1>1, <1>2, <1>3

LEMMA OpeningsInside ==
  ASSUME PrintInv, NEW h, NEW a, OpenArray(h, a) \/ OpenObject(h, a)
  PROVE  Extents' /\ Reached' /\ Nested'
<1> DEFINE more == Append(stack, [of |-> a, child |-> h[a].child])
<1>1. offset \in Nat /\ extent <= offset + 1 /\ Extents /\ Nested
  BY DEF PrintInv, Extents, Reached, OpenArray, OpenObject
<1>2. more # <<>> /\ Sequence(more)
  BY <1>1, StackOfMore
<1>3. PICK tokens : \/ Write(offset, 1, 1, FALSE, 1, tokens, "element", more)
                    \/ Write(offset, 3, 2, FALSE, 2, tokens, "element", more)
  BY DEF OpenArray, OpenObject
<1> HIDE DEF more
<1>4. "element" \notin Ends  BY DEF Ends
<1>5. CASE Write(offset, 1, 1, FALSE, 1, tokens, "element", more)
  <2>1. 1 \in Nat /\ 1 <= 1 /\ 1 <= 1 + 1  OBVIOUS
  <2>2. QED  BY <1>1, <1>2, <1>4, <1>5, <2>1, WriteInside
<1>6. CASE Write(offset, 3, 2, FALSE, 2, tokens, "element", more)
  <2>1. 3 \in Nat /\ 2 \in Nat /\ 1 <= 2 /\ 2 <= 3 + 1 /\ 2 <= 2 + 1  OBVIOUS
  <2>2. QED  BY <1>1, <1>2, <1>4, <1>6, <2>1, WriteInside
<1>7. QED  BY <1>3, <1>5, <1>6

LEMMA IndentInside ==
  ASSUME PrintInv, NEW h, Indent(h)
  PROVE  Extents' /\ Reached' /\ Nested'
<1>1. /\ offset \in Nat /\ extent <= offset + 1 /\ stack # <<>>
      /\ Extents /\ Nested /\ Sequence(stack)
  BY DEF PrintInv, Extents, Reached, Nested, Indent
<1>2. depth \in Nat /\ 1 <= depth /\ depth <= depth + 1
  BY <1>1, DepthIsNatural
<1>3. Write(offset, depth, depth, FALSE, depth, <<>>, "name", stack)
  BY DEF Indent
<1>4. "name" \notin Ends  BY DEF Ends
<1>5. QED  BY <1>1, <1>2, <1>3, <1>4, WriteInside

LEMMA ClosingsInside ==
  ASSUME PrintInv, NEW h, CloseArray(h) \/ CloseObject(h)
  PROVE  Extents' /\ Reached' /\ Nested'
<1> DEFINE fewer == SubSeq(stack, 1, depth - 1)
<1>1. /\ offset \in Nat /\ extent <= offset + 1 /\ stack # <<>>
      /\ Extents /\ Nested
  BY DEF PrintInv, Extents, Reached, Nested, CloseArray, CloseObject
<1>2. depth \in Nat /\ Sequence(fewer)
  BY <1>1, DepthIsNatural, StackOfFewer
<1>3. PICK tokens :
         \/ Write(offset, 2, 2, TRUE, 0, tokens, "after", fewer)
         \/ Write(offset, depth + 1, depth + 1, TRUE, 0, tokens, "after", fewer)
  BY DEF CloseArray, CloseObject
<1> HIDE DEF fewer
<1>4. "after" \in Ends /\ "after" # "colon"  BY DEF Ends
<1>5. CASE Write(offset, 2, 2, TRUE, 0, tokens, "after", fewer)
  <2>1. 2 \in Nat /\ 0 \in Nat /\ 1 <= 2 /\ 2 <= 2 + 1 /\ 0 < 2  OBVIOUS
  <2>2. QED  BY <1>1, <1>2, <1>4, <1>5, <2>1, EndInside
<1>6. CASE Write(offset, depth + 1, depth + 1, TRUE, 0, tokens, "after", fewer)
  <2>1. /\ depth + 1 \in Nat /\ 0 \in Nat /\ 1 <= depth + 1
        /\ depth + 1 <= depth + 1 + 1 /\ 0 < depth + 1
    BY <1>2
  <2>2. QED  BY <1>1, <1>2, <1>4, <1>6, <2>1, EndInside
<1>7. QED  BY <1>3, <1>5, <1>6

LEMMA SeparatorsInside ==
  ASSUME PrintInv, NEW h, Colon \/ Comma(h)
  PROVE  Extents' /\ Reached' /\ Nested'
<1>1. CASE Colon
  <2>1. /\ end \in Nat /\ extent <= end + 1 /\ stack # <<>>
        /\ Extents /\ Nested /\ Sequence(stack)
    BY <1>1 DEF PrintInv, Extents, Reached, Nested, Colon, Ends
  <2>2. PICK tokens : Write(end, 2, 2, FALSE, 2, tokens, "value", stack)
    BY <1>1 DEF Colon
  <2>3. 2 \in Nat /\ 1 <= 2 /\ 2 <= 2 + 1 /\ "value" \notin Ends  BY DEF Ends
  <2>4. QED  BY <2>1, <2>2, <2>3, WriteInside
<1>2. CASE Comma(h)
  <2> DEFINE next == h[Innermost.child].next
             comma == IF next = NULL THEN <<>> ELSE <<Mark(",")>>
             element == With(next)
             n == Len(comma) + 2
  <2>1. /\ end \in Nat /\ extent <= end + 1 /\ stack # <<>>
        /\ Extents /\ Nested
    <3>1. todo = "after" /\ stack # <<>>  BY <1>2 DEF Comma
    <3>2. QED  BY <3>1 DEF PrintInv, Extents, Reached, Ends
  <2>2. element # <<>> /\ Sequence(element)
    BY <2>1, StackOfAsMany
  <2>3. n \in Nat /\ n - 1 \in Nat /\ 1 <= n /\ n <= n + 1 /\ n <= n - 1 + 1
        /\ n - 1 = Len(comma) + 1
    <3>1. CASE next = NULL  BY <3>1
    <3>2. CASE next # NULL  BY <3>2
    <3>3. QED  BY <3>1, <3>2
  <2>4. PICK tokens :
          \/ Write(end, n, n, TRUE, Len(comma) + 1, tokens, "element", element)
          \/ Write(end, 3, 3, TRUE, 2, tokens, "element", element)
          \/ /\ offset' = end /\ todo' = "element" /\ stack' = element
             /\ UNCHANGED <<length, end, extent>>
    BY <1>2 DEF Comma
  <2>5. "element" \notin Ends  BY DEF Ends
  <2> HIDE DEF next, comma, element, n
  <2>6. CASE Write(end, n, n, TRUE, Len(comma) + 1, tokens, "element", element)
    <3>1. Write(end, n, n, TRUE, n - 1, tokens, "element", element)
      BY <2>3, <2>6
    <3>2. QED  BY <2>1, <2>2, <2>3, <2>5, <3>1, WriteInside
  <2>7. CASE Write(end, 3, 3, TRUE, 2, tokens, "element", element)
    <3>1. 3 \in Nat /\ 2 \in Nat /\ 1 <= 3 /\ 3 <= 3 + 1 /\ 3 <= 2 + 1  OBVIOUS
    <3>2. QED  BY <2>1, <2>2, <2>5, <2>7, <3>1, WriteInside
  <2>8. CASE /\ offset' = end /\ todo' = "element" /\ stack' = element
             /\ UNCHANGED <<length, end, extent>>
    <3>1. Extents'  BY <2>1, <2>8 DEF Extents
    <3>2. Reached'  BY <2>1, <2>8 DEF Reached, Ends
    <3>3. Nested'  BY <2>2, <2>8 DEF Nested, Sequence
    <3>4. QED  BY <3>1, <3>2, <3>3
  <2>9. QED  BY <2>4, <2>6, <2>7, <2>8
<1>3. QED  BY <1>1, <1>2

LEMMA EndsInside ==
  ASSUME PrintInv, NEW h, NextOfArray(h) \/ FinishPrint \/ FailPrint
  PROVE  Extents' /\ Reached' /\ Nested'
<1>1. CASE NextOfArray(h)
  BY <1>1 DEF PrintInv, Extents, Reached, Nested, NextOfArray, Ends
<1>2. CASE FinishPrint
  <2>1. end \in Nat /\ length > 0 /\ extent = end + 1
    BY <1>2 DEF PrintInv, Extents, Reached, FinishPrint, Ends
  <2>2. Extents'  BY <1>2, <2>1 DEF PrintInv, Extents, FinishPrint
  <2>3. Reached'  BY <1>2 DEF Reached, FinishPrint, Ends
  <2>4. Nested'  BY <1>2 DEF PrintInv, Nested, FinishPrint
  <2>5. QED  BY <2>2, <2>3, <2>4
<1>3. CASE FailPrint
  <2>1. Extents' /\ Reached'
    BY <1>3 DEF Extents, Reached, FailPrint, Ends, Unterminated
  <2>2. <<>> \in Seq({})  OBVIOUS
  <2>3. Nested'  BY <1>3, <2>2 DEF Nested, Sequence, FailPrint
  <2>4. QED  BY <2>1, <2>3
<1>4. QED  BY <1>1, <1>2, <1>3
-----------------------------------------------------------------------------
LEMMA InitInside == Init => PrintInv
<1> SUFFICES ASSUME Init PROVE PrintInv
  OBVIOUS
<1>1. Extents /\ Reached /\ NotBegun /\ AllPrinted
  BY DEF Init, PrintInit, Extents, Reached, Ends, NotBegun, AllPrinted, Unterminated
<1>2. <<>> \in Seq({})  OBVIOUS
<1>3. Nested  BY <1>2 DEF Nested, Sequence, Init, PrintInit
<1>4. QED  BY <1>1, <1>3 DEF PrintInv

LEMMA NextInside == PrintInv /\ [Next]_vars => PrintInv'
<1> SUFFICES ASSUME PrintInv, [Next]_vars PROVE PrintInv'
  OBVIOUS
<1>1. CASE StartPrint
  <2>1. extent = 0 /\ offset = 0 /\ stack = <<>> /\ end \in Int
    BY <1>1 DEF PrintInv, NotBegun, Extents, StartPrint
  <2>2. /\ length' = DefaultBufferSize \/ length' = length
        /\ todo' \in {"value", "failed"}
        /\ UNCHANGED <<stack, offset, end, extent>> /\ stage' = "print"
    BY <1>1 DEF StartPrint, BeginPrint
  <2>3. Extents' /\ Reached'
    BY <2>1, <2>2, PrintAssumption DEF PrintInv, Extents, Reached, Ends
  <2>4. Nested' /\ NotBegun' /\ AllPrinted'
    BY <2>2 DEF PrintInv, Nested, NotBegun, AllPrinted
  <2>5. QED  BY <2>3, <2>4 DEF PrintInv
<1>2. CASE PrintTree
  <2>1. NotBegun' /\ AllPrinted'  BY <1>2 DEF NotBegun, AllPrinted, PrintTree
  <2>2. Extents' /\ Reached' /\ Nested'
    BY <1>2, ValuesInside, OpeningsInside, IndentInside, ClosingsInside,
       SeparatorsInside, EndsInside DEF PrintTree, PrintStep
  <2>3. QED  BY <2>1, <2>2 DEF PrintInv
<1>3. CASE SendText \/ CopyFails
  <2>1. /\ length' = 0 /\ UNCHANGED <<todo, stack, offset, end, extent>>
        /\ stage' \notin {"build", "send"} /\ stage = "send"
    BY <1>3 DEF SendText, CopyFails, Sent
  <2>2. todo' = "printed"  BY <2>1 DEF PrintInv, AllPrinted
  <2>3. Extents' /\ Nested'  BY <2>1 DEF PrintInv, Extents, Nested
  <2>4. Reached' /\ NotBegun' /\ AllPrinted'
    BY <2>1, <2>2 DEF Reached, Ends, NotBegun, AllPrinted
  <2>5. QED  BY <2>3, <2>4 DEF PrintInv
<1>4. CASE BuildTree \/ PrintReturns \/ PieceEnds \/ ParseText \/ Convert \/ UNCHANGED vars
  <2>1. /\ UNCHANGED printVars /\ (stage' = stage \/ stage' # "build")
        /\ stage' = "send" => stage = "send" \/ todo = "printed"
    BY <1>4 DEF BuildTree, PrintReturns, PieceEnds, ParseText, Convert, vars
  <2>2. QED
    BY <2>1 DEF PrintInv, Extents, Reached, Nested, NotBegun, AllPrinted, Ends, printVars
<1>5. QED
  BY <1>1, <1>2, <1>3, <1>4 DEF Next

(***************************************************************************)
(* cJSON_Print never writes behind its buffer, and update_offset always    *)
(* finds the terminator within it: for every tree, every length of its     *)
(* texts, every size that the buffer begins with or is limited to, and     *)
(* every allocation that fails.                                            *)
(***************************************************************************)
THEOREM PrintIsInside == Spec => []PrintStaysInside
<1>1. PrintInv => PrintStaysInside
  BY DEF PrintInv, Extents, Reached, Ends, PrintStaysInside
<1>2. QED
  BY InitInside, NextInside, <1>1, PTL DEF Spec

-----------------------------------------------------------------------------
(***************************************************************************)
(* What is printed is a sequence of tokens.                                *)
(***************************************************************************)

\* What is to be printed, and where.
Todos == {"idle", "value", "name", "element", "colon", "after", "printed", "failed"}
PrintFrame == [of : Cells, child : Cells]
PrintTyped == todo \in Todos /\ stack \in Seq(PrintFrame) /\ text \in Seq(TokenType)

LEMMA TokensAre ==
  /\ \A is \in {"null", "[", "]", "{", "}", ":", ","} : <<Mark(is)>> \in Seq(TokenType)
  /\ \A value \in Int : \A is \in {"number", "string"} : <<Token(is, value)>> \in Seq(TokenType)
  /\ \A key \in Keys : <<Name(key)>> \in Seq(TokenType)
<1>1. NoKey \in Keys
  BY DEF Keys
<1>2. \A value \in Int : \A is \in {"number", "string", "null", "[", "]", "{", "}", ":", ","} :
        Token(is, value) \in TokenType
  BY <1>1 DEF Token, TokenType
<1>3. \A key \in Keys : Name(key) \in TokenType
  BY DEF Name, TokenType
<1>4. 0 \in Int
  OBVIOUS
<1>5. \A is \in {"null", "[", "]", "{", "}", ":", ","} : Mark(is) \in TokenType
  BY <1>2, <1>4 DEF Mark
<1>6. \A t \in TokenType : <<t>> \in Seq(TokenType)
  OBVIOUS
<1>7. \A is \in {"null", "[", "]", "{", "}", ":", ","} : <<Mark(is)>> \in Seq(TokenType)
  BY <1>5, <1>6, Zenon
<1>8. \A value \in Int : \A is \in {"number", "string"} : <<Token(is, value)>> \in Seq(TokenType)
  BY <1>2, <1>6, Zenon
<1>9. \A key \in Keys : <<Name(key)>> \in Seq(TokenType)
  BY <1>3, <1>6, Zenon
<1>10. QED
  BY <1>7, <1>8, <1>9

LEMMA NoRoomIsTyped ==
  ASSUME PrintTyped, NEW from, NEW needed, NoRoom(from, needed)
  PROVE  PrintTyped'
BY DEF PrintTyped, NoRoom, Todos

LEMMA WriteIsTyped ==
  ASSUME PrintTyped, NEW from, NEW needed, NEW n, NEW terminated, NEW advance,
         NEW tokens \in Seq(TokenType), NEW next \in Todos, NEW fs \in Seq(PrintFrame),
         Write(from, needed, n, terminated, advance, tokens, next, fs)
  PROVE  PrintTyped'
<1>1. CASE NoRoom(from, needed)
  BY <1>1, NoRoomIsTyped
<1>2. CASE text' = text \o tokens /\ todo' = next /\ stack' = fs
  BY <1>2 DEF PrintTyped
<1>3. QED
  BY <1>1, <1>2 DEF Write

LEMMA PrintedIsCell ==
  ASSUME PrintTyped, NEW root \in Cells
  PROVE  /\ Printed(root) \in Cells
         /\ stack # <<>> => Innermost \in PrintFrame /\ Innermost.child \in Cells
<1>1. stack # <<>> => Innermost \in PrintFrame
  BY DEF PrintTyped, Innermost
<1>2. \A f \in PrintFrame : f.child \in Cells
  BY DEF PrintFrame
<1>3. QED
  BY <1>1, <1>2 DEF Printed

LEMMA ValueIsTyped ==
  ASSUME PrintTyped, NEW h, TypedHeap(h), NEW a \in Cells,
         PrintNumber(h, a) \/ PrintString(h, a) \/ OpenArray(h, a) \/ OpenObject(h, a)
  PROVE  PrintTyped'
<1>1. h[a].value \in Int /\ h[a].child \in Cells
  BY FieldsAre
<1>2. stack \in Seq(PrintFrame) /\ "after" \in Todos /\ "element" \in Todos
  BY DEF PrintTyped, Todos
<1>3. CASE PrintNumber(h, a)
  <2> DEFINE token == IF NotFinite(h[a].value) THEN Mark("null") ELSE Token("number", h[a].value)
  <2>1. <<token>> \in Seq(TokenType)
    BY <1>1, TokensAre
  <2>2. PICK width \in Widths :
          Write(offset, width + 1, width + 1, TRUE, width, <<token>>, "after", stack)
    BY <1>3 DEF PrintNumber
  <2> HIDE DEF token
  <2>3. QED
    BY <1>2, <2>1, <2>2, WriteIsTyped
<1>4. CASE PrintString(h, a)
  <2>1. <<Token("string", h[a].value)>> \in Seq(TokenType)
    BY <1>1, TokensAre
  <2>2. PICK width \in Widths :
          Write(offset, width + 3, width + 3, TRUE, 0, <<Token("string", h[a].value)>>, "after", stack)
    BY <1>4 DEF PrintString
  <2>3. QED
    BY <1>2, <2>1, <2>2, WriteIsTyped
<1>5. CASE OpenArray(h, a) \/ OpenObject(h, a)
  <2> DEFINE more == Append(stack, [of |-> a, child |-> h[a].child])
  <2>1. [of |-> a, child |-> h[a].child] \in PrintFrame
    BY <1>1 DEF PrintFrame
  <2>2. more \in Seq(PrintFrame)
    BY <1>2, <2>1
  <2>3. \/ Write(offset, 1, 1, FALSE, 1, <<Mark("[")>>, "element", more)
        \/ Write(offset, 3, 2, FALSE, 2, <<Mark("{")>>, "element", more)
    BY <1>5 DEF OpenArray, OpenObject
  <2> HIDE DEF more
  <2>4. <<Mark("[")>> \in Seq(TokenType) /\ <<Mark("{")>> \in Seq(TokenType)
    BY TokensAre
  <2>5. QED
    BY <1>2, <2>2, <2>3, <2>4, WriteIsTyped
<1>6. QED
  BY <1>3, <1>4, <1>5

LEMMA ElementIsTyped ==
  ASSUME PrintTyped, Nested, NEW h, TypedHeap(h), 0 \in Cells,
         \/ PrintName(h) \/ NextOfArray(h) \/ Indent(h) \/ CloseArray(h) \/ CloseObject(h)
         \/ Colon
  PROVE  PrintTyped'
<1>1. /\ stack \in Seq(PrintFrame) /\ stack # <<>>
      /\ {"value", "after", "name", "element", "colon"} \subseteq Todos
  BY DEF PrintTyped, Todos, Nested, PrintName, NextOfArray, Indent, CloseArray, CloseObject, Colon
<1>2. <<>> \in Seq(TokenType)
  OBVIOUS
<1>3. CASE PrintName(h)
  <2>1. Innermost.child \in Cells
    BY <1>1, PrintedIsCell
  <2>2. h[Innermost.child].key \in Keys
    BY <2>1, FieldsAre
  <2>3. <<Name(h[Innermost.child].key)>> \in Seq(TokenType)
    BY <2>2, TokensAre
  <2>4. PICK width \in Widths :
          Write(offset, width + 3, width + 3, TRUE, 0, <<Name(h[Innermost.child].key)>>, "colon", stack)
    BY <1>3 DEF PrintName
  <2>5. QED
    BY <1>1, <2>3, <2>4, WriteIsTyped
<1>4. CASE NextOfArray(h)
  BY <1>4 DEF NextOfArray, PrintTyped, Todos
<1>5. CASE Indent(h)
  <2>1. Write(offset, depth, depth, FALSE, depth, <<>>, "name", stack)
    BY <1>5 DEF Indent
  <2>2. QED
    BY <1>1, <1>2, <2>1, WriteIsTyped
<1>6. CASE CloseArray(h) \/ CloseObject(h)
  <2> DEFINE fewer == SubSeq(stack, 1, depth - 1)
  <2>1. fewer \in Seq(PrintFrame)
    BY <1>1 DEF depth
  <2>2. \/ Write(offset, 2, 2, TRUE, 0, <<Mark("]")>>, "after", fewer)
        \/ Write(offset, depth + 1, depth + 1, TRUE, 0, <<Mark("}")>>, "after", fewer)
    BY <1>6 DEF CloseArray, CloseObject
  <2> HIDE DEF fewer
  <2>3. <<Mark("]")>> \in Seq(TokenType) /\ <<Mark("}")>> \in Seq(TokenType)
    BY TokensAre
  <2>4. QED
    BY <1>1, <2>1, <2>2, <2>3, WriteIsTyped
<1>7. CASE Colon
  <2>1. <<Mark(":")>> \in Seq(TokenType)
    BY TokensAre
  <2>2. Write(end, 2, 2, FALSE, 2, <<Mark(":")>>, "value", stack)
    BY <1>7 DEF Colon
  <2>3. QED
    BY <1>1, <2>1, <2>2, WriteIsTyped
<1>8. QED
  BY <1>3, <1>4, <1>5, <1>6, <1>7

LEMMA CommaIsTyped ==
  ASSUME PrintTyped, NEW h, TypedHeap(h), 0 \in Cells, Comma(h)
  PROVE  PrintTyped'
<1> DEFINE next == h[Innermost.child].next
           comma == IF next = NULL THEN <<>> ELSE <<Mark(",")>>
           more == With(next)
<1>1. stack \in Seq(PrintFrame) /\ stack # <<>> /\ "element" \in Todos
  BY DEF PrintTyped, Todos, Comma
<1>2. Innermost \in PrintFrame /\ Innermost.child \in Cells
  BY <1>1, PrintedIsCell
<1>3. next \in Cells
  BY <1>2, FieldsAre
<1>4. more \in Seq(PrintFrame)
  <2> DEFINE f == [Innermost EXCEPT !.child = next]
  <2>1. f \in PrintFrame
    BY <1>2, <1>3 DEF PrintFrame
  <2>2. more = [stack EXCEPT ![Len(stack)] = f]
    BY DEF With, Innermost
  <2> HIDE DEF f, more, next
  <2>3. QED
    BY <1>1, <2>1, <2>2
<1>5. comma \in Seq(TokenType)
  <2>1. <<Mark(",")>> \in Seq(TokenType)
    BY TokensAre
  <2>2. <<>> \in Seq(TokenType)
    OBVIOUS
  <2>3. QED
    BY <2>1, <2>2
<1>6. \/ Write(end, Len(comma) + 2, Len(comma) + 2, TRUE, Len(comma) + 1, comma, "element", more)
      \/ Write(end, 3, 3, TRUE, 2, comma, "element", more)
      \/ todo' = "element" /\ stack' = more /\ text' = text
  BY DEF Comma
<1> HIDE DEF next, comma, more
<1>7. CASE todo' = "element" /\ stack' = more /\ text' = text
  BY <1>1, <1>4, <1>7 DEF PrintTyped
<1>8. QED
  BY <1>1, <1>4, <1>5, <1>6, <1>7, WriteIsTyped

\* Every step of cJSON_Print writes tokens.
LEMMA PrintIsTyped ==
  ASSUME PrintTyped, Nested, NEW h, TypedHeap(h), NEW root \in Cells, PrintStep(h, root)
  PROVE  PrintTyped'
<1>1. Printed(root) \in Cells /\ 0 \in Cells
  BY PrintedIsCell, CellsAre
<1>2. CASE FinishPrint \/ FailPrint
  <2>1. <<>> \in Seq(PrintFrame) /\ <<>> \in Seq(TokenType)
    OBVIOUS
  <2>2. QED
    BY <1>2, <2>1 DEF FinishPrint, FailPrint, PrintTyped, Todos
<1>3. QED
  BY <1>1, <1>2, ValueIsTyped, ElementIsTyped, CommaIsTyped DEF PrintStep

-----------------------------------------------------------------------------
(***************************************************************************)
(* The exchange: the inductive invariant of the whole. Sender is about     *)
(* the tree that is built, printed and perhaps deleted, Receiving about    *)
(* the memory of the parser, and Stepping about what the stages have to    *)
(* do with either.                                                         *)
(***************************************************************************)

\* The stages; and what the sender has.
Stages == {"build", "print", "send", "parse", "finished"}
Roots == lost \cup (IF TreeInUse THEN {local[p] : p \in Pointers} ELSE {})

Sender ==
  /\ net \in Networks /\ local \in [Pointers -> Cells] /\ Kept(tree, Roots)
  /\ stage = "build" => at \in Nat \ {0} /\ Underway(at - 1, tree, local, lost)
  /\ stage = "print" => Made(tree, local, lost)

Stepping ==
  /\ direction \in {"model", "update"}
  /\ stage \in {"build", "print", "send"} =>
       step = "idle" /\ heap = NoItems /\ item = NULL /\ frames = <<>>
  /\ todo = "idle" \/ stage \in {"parse", "finished"} => length = 0
  /\ stage = "finished" => Allocated(heap) = {} /\ item = NULL /\ frames = <<>>

ExchangeInv ==
  /\ failures \in 0 .. MaxFailures /\ stage \in Stages
  /\ PrintInv /\ PrintTyped /\ Sender /\ Receiving /\ Stepping
-----------------------------------------------------------------------------
LEMMA FailuresAreCounted ==
  ASSUME failures \in 0 .. MaxFailures, Fails \/ Succeeds
  PROVE  failures' \in 0 .. MaxFailures
BY FailuresAssumption DEF Fails, Succeeds

\* The calls are those of the network that is sent.
LEMMA CallsAreTheSame ==
  ASSUME net' = net, nan' = nan
  PROVE  Calls' = Calls
BY DEF Calls, LayerCalls, NeuronCalls, AddFields, WeightsOf, Value, Overflowed

LEMMA InitExchanges == Init => ExchangeInv
<1> SUFFICES ASSUME Init PROVE ExchangeInv
  OBVIOUS
<1> USE DEF Init
<1>1. failures \in 0 .. MaxFailures /\ stage \in Stages
  BY FailuresAssumption DEF Stages
<1>2. PrintInv
  BY InitInside
<1>3. PrintTyped
  <2>1. <<>> \in Seq(PrintFrame) /\ <<>> \in Seq(TokenType)
    OBVIOUS
  <2>2. QED
    BY <2>1 DEF PrintTyped, PrintInit, Todos
<1>4. Sender
  <2>1. /\ net \in Networks /\ tree = NoItems /\ at = 1 /\ at - 1 = 0 /\ lost = {}
        /\ local = [v \in Pointers |-> NULL] /\ stage = "build"
    BY DEF BuildInit
  <2>2. Underway(at - 1, tree, local, lost)
    BY <2>1, NothingIsBuilt
  <2>3. local \in [Pointers -> Cells] /\ Building(Calls, at - 1, tree, local, lost)
    BY <2>2 DEF Underway
  <2>4. Roots = lost \cup {local[p] : p \in Pointers}
    BY <2>1 DEF Roots, TreeInUse
  <2>5. Kept(tree, Roots)
    BY <2>3, <2>4, KnownIsKept DEF Building
  <2>6. QED
    BY <2>1, <2>2, <2>3, <2>5 DEF Sender
<1>5. Receiving
  <2>1. <<>> \in Seq(TokenType)
    OBVIOUS
  <2>2. QED
    BY <2>1, IdleIsReady DEF ParseInit, Receiving, InputTyped
<1>6. Stepping
  BY DEF Stepping, ParseInit, PrintInit
<1>7. QED
  BY <1>1, <1>2, <1>3, <1>4, <1>5, <1>6 DEF ExchangeInv

\* Whatever a step counts, and leaves to the printing and the parsing.
LEMMA BuildTreeExchanges ==
  ASSUME ExchangeInv, BuildTree
  PROVE  Sender' /\ PrintTyped' /\ Receiving' /\ Stepping'
<1>1. /\ stage = "build" /\ stage' = "build" /\ net \in Networks /\ at \in Nat \ {0}
      /\ Underway(at - 1, tree, local, lost) /\ Build
  BY DEF ExchangeInv, BuildTree, Sender
<1>2. at' = at + 1 /\ Underway(at, tree', local', lost')
  BY <1>1, BuildSends
<1>3. net' = net /\ nan' = nan
  BY <1>1 DEF Build, CreateItem, AddItemToObject, AddItemToArray, NothingAdded, Called
<1>4. Calls' = Calls
  BY <1>3, CallsAreTheSame
<1>5. /\ at' - 1 = at /\ at' \in Nat \ {0}
      /\ at \in Nat /\ at <= Len(Calls) /\ local' \in [Pointers -> Cells]
      /\ Building(Calls, at, tree', local', lost')
  BY <1>1, <1>2 DEF Underway
<1>6. Underway(at - 1, tree, local, lost)'
  BY <1>4, <1>5 DEF Underway
<1>7. Roots' = lost' \cup {local'[p] : p \in Pointers}
  BY <1>1 DEF Roots, TreeInUse
<1>8. Kept(tree', Roots')
  BY <1>5, <1>7, KnownIsKept DEF Building
<1>9. Sender'
  BY <1>1, <1>3, <1>5, <1>6, <1>8 DEF Sender
<1>10. PrintTyped' /\ Receiving' /\ Stepping'
  BY <1>1 DEF ExchangeInv, BuildTree, PrintTyped, Receiving, InputTyped, Stepping, printVars, parseVars
<1>11. QED
  BY <1>9, <1>10

LEMMA StartPrintExchanges ==
  ASSUME ExchangeInv, StartPrint
  PROVE  Sender' /\ PrintTyped' /\ Receiving' /\ Stepping'
<1>1. /\ stage = "build" /\ stage' = "print" /\ net \in Networks /\ at \in Nat \ {0}
      /\ Underway(at - 1, tree, local, lost) /\ Built /\ Kept(tree, Roots)
      /\ net' = net /\ tree' = tree /\ local' = local /\ lost' = lost
  BY DEF ExchangeInv, StartPrint, Sender, buildVars
<1>2. at - 1 = Len(Calls)
  <2>1. Calls \in Seq(CallSet)
    BY <1>1, CallsBlock DEF Block
  <2>2. Len(Calls) \in Nat
    BY <2>1
  <2>3. QED
    BY <1>1, <2>2 DEF Built, Underway
<1>3. Made(tree, local, lost)
  BY <1>1, <1>2, BuiltIsMade
<1>4. Roots' = Roots
  BY <1>1 DEF Roots, TreeInUse
<1>5. Sender'
  BY <1>1, <1>3, <1>4 DEF Sender, Made
<1>6. Receiving'
  BY <1>1 DEF ExchangeInv, StartPrint, Receiving, InputTyped, parseVars
<1>7. PrintTyped' /\ todo' # "idle"
  BY DEF ExchangeInv, StartPrint, BeginPrint, PrintTyped, Todos
<1>8. Stepping'
  BY <1>1, <1>7 DEF ExchangeInv, StartPrint, Stepping, parseVars
<1>9. QED
  BY <1>5, <1>6, <1>7, <1>8

\* Where the sender's tree stays as it is, and as much in use as it was.
LEMMA SenderStays ==
  ASSUME Sender, UNCHANGED <<net, tree, local, lost, direction>>,
         \/ stage' = stage /\ stage # "build"
         \/ stage \notin {"build", "print"} /\ stage' \notin {"build", "print"}
         \/ stage = "print" /\ stage' \notin {"build", "print"} /\ direction = "update"
  PROVE  Sender'
<1>1. Roots' = Roots
  BY DEF Roots, TreeInUse
<1>2. Kept(tree', Roots')
  BY <1>1 DEF Sender
<1>3. QED
  BY <1>2 DEF Sender

LEMMA PrintTreeExchanges ==
  ASSUME ExchangeInv, PrintTree
  PROVE  Sender' /\ PrintTyped' /\ Receiving' /\ Stepping'
<1>1. /\ stage = "print" /\ stage' = "print" /\ PrintStep(tree, local["root"])
      /\ UNCHANGED <<net, tree, local, lost, direction>>
  BY DEF PrintTree, buildVars
<1>2. Sender'
  BY <1>1, SenderStays DEF ExchangeInv
<1>3. PICK H, E : Memory(tree, H, E)
  BY DEF ExchangeInv, Sender, Kept
<1>4. TypedHeap(tree) /\ local["root"] \in Cells
  BY <1>3 DEF ExchangeInv, Sender, Memory, Forest, Pointers
<1>5. PrintTyped'
  BY <1>1, <1>4, PrintIsTyped DEF ExchangeInv, PrintInv
<1>6. Receiving'
  BY DEF ExchangeInv, PrintTree, Receiving, InputTyped, parseVars
<1>7. todo' = "idle" => length' = 0
  BY <1>1 DEF ExchangeInv, Stepping, PrintStep, PrintNumber, PrintString, OpenArray, OpenObject,
     PrintName, NextOfArray, Indent, CloseArray, CloseObject, Colon, Comma, FinishPrint, FailPrint,
     Write, NoRoom
<1>8. Stepping'
  BY <1>1, <1>7 DEF ExchangeInv, PrintTree, Stepping, parseVars
<1>9. QED
  BY <1>2, <1>5, <1>6, <1>8

LEMMA PrintReturnsExchanges ==
  ASSUME ExchangeInv, PrintReturns
  PROVE  Sender' /\ PrintTyped' /\ Receiving' /\ Stepping'
<1>1. /\ stage = "print" /\ todo \in {"printed", "idle"}
      /\ stage' = (IF todo = "printed" THEN "send" ELSE "finished")
      /\ tree' = (IF direction = "model" THEN cJSON_Delete(tree, local["root"]) ELSE tree)
      /\ UNCHANGED <<net, local, lost, direction, printVars, parseVars>>
  BY DEF PrintReturns
<1>2. Sender /\ Made(tree, local, lost) /\ stage' \notin {"build", "print"}
  BY <1>1 DEF ExchangeInv, Sender
<1>3. CASE direction = "model"
  <2>1. Roots' = lost
    BY <1>1, <1>2, <1>3 DEF Roots, TreeInUse
  <2>2. tree' = cJSON_Delete(tree, local["root"])
    BY <1>1, <1>3
  <2>3. Kept(tree', lost)
    BY <1>2, <2>2, DeletedIsKept
  <2>4. QED
    <3>1. Sender'
      BY <1>1, <1>2, <2>1, <2>3 DEF Sender
    <3>2. PrintTyped' /\ Receiving' /\ Stepping'
      BY <1>1, MemoryOfNoItems DEF ExchangeInv, PrintTyped, Receiving, InputTyped, Stepping, printVars, parseVars
    <3>3. QED
      BY <3>1, <3>2
<1>4. CASE direction # "model"
  <2>1. Sender'
    <3>1. direction = "update" /\ tree' = tree
      BY <1>1, <1>4 DEF ExchangeInv, Stepping
    <3>2. QED
      BY <1>1, <1>2, <3>1, SenderStays
  <2>2. PrintTyped' /\ Receiving' /\ Stepping'
    BY <1>1, MemoryOfNoItems DEF ExchangeInv, PrintTyped, Receiving, InputTyped, Stepping, printVars, parseVars
  <2>3. QED
    BY <2>1, <2>2
<1>5. QED
  BY <1>3, <1>4

LEMMA SendTextExchanges ==
  ASSUME ExchangeInv, SendText
  PROVE  Sender' /\ PrintTyped' /\ Receiving' /\ Stepping'
<1>1. /\ stage = "send" /\ stage' = "parse" /\ direction' = direction
      /\ UNCHANGED <<net, tree, local, lost>> /\ Sent
  BY DEF SendText, buildVars
<1>2. heap = NoItems /\ item = NULL /\ frames = <<>>
  BY <1>1 DEF ExchangeInv, Stepping
<1>3. Sender'
  BY <1>1, SenderStays DEF ExchangeInv
<1>4. <<>> \in Seq(TokenType)
  OBVIOUS
<1>5. PrintTyped'
  BY <1>1, <1>4 DEF ExchangeInv, PrintTyped, Sent
<1>6. PICK first \in DOMAIN text : BeginParse(SubSeq(text, first, Len(text)))
  BY DEF SendText
<1>7. SubSeq(text, first, Len(text)) \in Seq(TokenType)
  BY DEF ExchangeInv, PrintTyped
<1>8. Ready(step', heap', item', frames')
  BY <1>2, <1>6, BegunIsReady DEF BeginParse
<1>9. InputTyped'
  BY <1>6, <1>7 DEF BeginParse, InputTyped
<1>10. Stepping'
  BY <1>1 DEF ExchangeInv, Stepping, Sent
<1>11. QED
  BY <1>3, <1>5, <1>8, <1>9, <1>10 DEF Receiving

LEMMA CopyFailsExchanges ==
  ASSUME ExchangeInv, CopyFails
  PROVE  Sender' /\ PrintTyped' /\ Receiving' /\ Stepping'
<1>1. /\ stage = "send" /\ stage' = "finished" /\ direction' = direction
      /\ UNCHANGED <<net, tree, local, lost, parseVars>> /\ Sent
  BY DEF CopyFails, buildVars
<1>2. Sender'
  BY <1>1, SenderStays DEF ExchangeInv
<1>3. <<>> \in Seq(TokenType)
  OBVIOUS
<1>4. PrintTyped'
  BY <1>1, <1>3 DEF ExchangeInv, PrintTyped, Sent
<1>5. Receiving' /\ Stepping'
  BY <1>1, MemoryOfNoItems DEF ExchangeInv, Receiving, InputTyped, Stepping, Sent, parseVars
<1>6. QED
  BY <1>2, <1>4, <1>5

LEMMA ParsingExchanges ==
  ASSUME ExchangeInv, PieceEnds \/ ParseText
  PROVE  Sender' /\ PrintTyped' /\ Receiving' /\ Stepping'
<1>1. /\ stage = "parse" /\ stage' = "parse"
      /\ UNCHANGED <<net, tree, local, lost, direction, printVars>>
  BY DEF PieceEnds, ParseText, buildVars
<1>2. Sender'
  BY <1>1, SenderStays DEF ExchangeInv
<1>3. PrintTyped' /\ Stepping'
  BY <1>1 DEF ExchangeInv, PrintTyped, Stepping, printVars
<1>4. Receiving'
  <2>1. CASE ParseText
    BY <2>1, ParseReceives DEF ParseText, ExchangeInv
  <2>2. CASE PieceEnds
    <3>1. /\ UNCHANGED <<step, heap, item, frames, pos>> /\ pos \in DOMAIN input
          /\ input' = SubSeq(input, 1, pos - 1)
      BY <2>2 DEF PieceEnds
    <3>2. SubSeq(input, 1, pos - 1) \in Seq(TokenType)
      BY <3>1 DEF ExchangeInv, Receiving, InputTyped
    <3>3. QED
      BY <3>1, <3>2 DEF ExchangeInv, Receiving, InputTyped
  <2>3. QED
    BY <2>1, <2>2
<1>5. QED
  BY <1>2, <1>3, <1>4

LEMMA ConvertExchanges ==
  ASSUME ExchangeInv, Convert
  PROVE  Sender' /\ PrintTyped' /\ Receiving' /\ Stepping'
<1>1. /\ stage = "parse" /\ stage' = "finished" /\ step = "parsed"
      /\ heap' = cJSON_Delete(heap, item) /\ item' = NULL
      /\ UNCHANGED <<step, input, pos, frames>>
      /\ UNCHANGED <<net, tree, local, lost, direction, printVars>>
  BY DEF Convert, buildVars
<1>2. Sender'
  BY <1>1, SenderStays DEF ExchangeInv
<1>3. PrintTyped'
  BY <1>1 DEF ExchangeInv, PrintTyped, printVars
<1>4. frames = <<>> /\ Ready("parsed", heap, item, <<>>)
  BY <1>1 DEF ExchangeInv, Receiving, Ready
<1>5. Ready("parsed", heap', NULL, <<>>) /\ Allocated(heap') = {}
  BY <1>1, <1>4, ConvertedIsReady
<1>6. Receiving'
  BY <1>1, <1>4, <1>5 DEF ExchangeInv, Receiving, InputTyped
<1>7. Stepping'
  BY <1>1, <1>4, <1>5 DEF ExchangeInv, Stepping, printVars
<1>8. QED
  BY <1>2, <1>3, <1>6, <1>7

LEMMA StutterExchanges ==
  ASSUME ExchangeInv, UNCHANGED vars
  PROVE  Sender' /\ PrintTyped' /\ Receiving' /\ Stepping'
<1>1. UNCHANGED <<failures, buildVars, printVars, parseVars, direction, stage>>
  BY DEF vars
<1>2. UNCHANGED <<net, nan, at, tree, local, lost, direction, stage>>
  BY <1>1 DEF buildVars
<1>3. Calls' = Calls /\ Roots' = Roots
  BY <1>2, CallsAreTheSame DEF Roots, TreeInUse
<1>4. Sender'
  BY <1>2, <1>3 DEF ExchangeInv, Sender, Underway
<1>5. PrintTyped' /\ Receiving' /\ Stepping'
  BY <1>1 DEF ExchangeInv, PrintTyped, Receiving, InputTyped, Stepping, printVars, parseVars
<1>6. QED
  BY <1>4, <1>5

\* Every step allocates what succeeds, or lets one more allocation fail.
LEMMA StepsCountFailures ==
  ASSUME ExchangeInv, Next
  PROVE  failures' \in 0 .. MaxFailures
<1>1. CASE BuildTree
  <2>1. Fails \/ Succeeds
    BY <1>1, SMTT(30) DEF BuildTree, Build, CreateItem, AddItemToObject, AddItemToArray, NothingAdded
  <2>2. QED
    BY <2>1, FailuresAreCounted DEF ExchangeInv
<1>2. CASE StartPrint \/ PrintTree
  <2>1. Fails \/ Succeeds
    BY <1>2 DEF StartPrint, BeginPrint, PrintTree, PrintStep, PrintNumber, PrintString, OpenArray,
       OpenObject, PrintName, NextOfArray, Indent, CloseArray, CloseObject, Colon, Comma,
       FinishPrint, FailPrint, Write, Written, NoRoom
  <2>2. QED
    BY <2>1, FailuresAreCounted DEF ExchangeInv
<1>3. CASE SendText \/ CopyFails \/ Convert
  <2>1. Fails \/ Succeeds
    BY <1>3, SMTT(30) DEF SendText, BeginParse, CopyFails, Convert
  <2>2. QED
    BY <2>1, FailuresAreCounted DEF ExchangeInv
<1>4. CASE ParseText
  <2>1. Fails \/ Succeeds
    BY <1>4 DEF ParseText, ParseStep, ParseScalar, ParseString, Enter, NotAValue, NewElement,
       ParseName, PassColon, PassComma, Leave, Unexpected, FailList, FailParse, FinishParse
  <2>2. QED
    BY <2>1, FailuresAreCounted DEF ExchangeInv
<1>5. CASE PrintReturns \/ PieceEnds
  BY <1>5 DEF ExchangeInv, PrintReturns, PieceEnds
<1>6. QED
  BY <1>1, <1>2, <1>3, <1>4, <1>5 DEF Next

LEMMA StepsHaveStages ==
  ASSUME ExchangeInv, Next
  PROVE  stage' \in Stages
BY DEF ExchangeInv, Stages, Next, BuildTree, StartPrint, PrintTree, PrintReturns, SendText,
   PieceEnds, CopyFails, ParseText, Convert

LEMMA NextExchanges == ExchangeInv /\ [Next]_vars => ExchangeInv'
<1> SUFFICES ASSUME ExchangeInv, [Next]_vars PROVE ExchangeInv'
  OBVIOUS
<1>1. PrintInv'
  BY NextInside DEF ExchangeInv
<1>2. Sender' /\ PrintTyped' /\ Receiving' /\ Stepping'
  BY BuildTreeExchanges, StartPrintExchanges, PrintTreeExchanges, PrintReturnsExchanges,
     SendTextExchanges, CopyFailsExchanges, ParsingExchanges, ConvertExchanges, StutterExchanges
     DEF Next
<1>3. failures' \in 0 .. MaxFailures /\ stage' \in Stages
  <2>1. CASE Next
    BY <2>1, StepsCountFailures, StepsHaveStages
  <2>2. CASE UNCHANGED vars
    BY <2>2 DEF ExchangeInv, vars
  <2>3. QED
    BY <2>1, <2>2
<1>4. QED
  BY <1>1, <1>2, <1>3 DEF ExchangeInv

(***************************************************************************)
(* Every variable has its type, and every list in the memory of the sender *)
(* and in that of the receiver is linked: it ends, no item of it is freed, *)
(* each knows the one before it and the first the last.  Of every network, *)
(* whatever calls fail while its tree is made, and whatever is parsed.     *)
(***************************************************************************)
THEOREM ListsStayLinked == Spec => []TypeOK
<1>1. ExchangeInv => TypeOK
  <2> SUFFICES ASSUME ExchangeInv PROVE TypeOK
    OBVIOUS
  <2>1. PICK H, E : Memory(tree, H, E)
    BY DEF ExchangeInv, Sender, Kept
  <2>2. PICK H2, E2 : Memory(heap, H2, E2)
    BY DEF ExchangeInv, Receiving, Ready
  <2>3. TypedHeap(tree) /\ TypedHeap(heap)
    BY <2>1, <2>2 DEF Memory, Forest
  <2>4. \A a \in Allocated(tree) : Linked(tree, a)
    BY <2>1, AllocatedAreCells, AllAreLinked DEF Memory
  <2>5. \A a \in Allocated(heap) : Linked(heap, a)
    BY <2>2, AllocatedAreCells, AllAreLinked DEF Memory
  <2>6. local \in [Pointers -> Addresses \cup {NULL}]
    BY DEF ExchangeInv, Sender, Cells
  <2>7. todo \in Todos /\ step \in Steps /\ stage \in Stages /\ failures \in 0 .. MaxFailures
    BY DEF ExchangeInv, PrintTyped, Receiving, Ready
  <2>8. QED
    BY <2>3, <2>4, <2>5, <2>6, <2>7 DEF TypeOK, TypedHeap, Todos, Steps, Stages
<1>2. QED
  BY InitExchanges, NextExchanges, <1>1, PTL DEF Spec

(***************************************************************************)
(* The allocated items of the sender are those of its tree, while it has   *)
(* it, and those it could not add; the items of the parser are those of    *)
(* its item and of the lists that its frames hold.  When the exchange is   *)
(* over the receiver has freed all it had, and the text is freed.          *)
(***************************************************************************)
THEOREM NothingIsLost == Spec => []NothingLeaks
<1>1. ExchangeInv => NothingLeaks
  <2> SUFFICES ASSUME ExchangeInv PROVE NothingLeaks
    OBVIOUS
  <2>1. Allocated(tree) = Holds(tree, Roots)
    BY KeptIsHeld DEF ExchangeInv, Sender
  <2>2. Allocated(heap) = Holds(heap, {item} \cup {frames[n].head : n \in DOMAIN frames})
    <3> DEFINE R == {item} \cup {frames[n].head : n \in DOMAIN frames}
    <3>1. /\ frames \in Seq(FrameType) /\ Held(heap, item, frames)
          /\ \E H, E : Memory(heap, H, E)
      BY DEF ExchangeInv, Receiving, Ready
    <3>2. Kept(heap, R)
      BY <3>1, HeldIsKept
    <3>3. QED
      BY <3>2, KeptIsHeld
  <2>3. stage = "finished" => Allocated(heap) = {} /\ length = 0
    BY DEF ExchangeInv, Stepping
  <2>4. QED
    BY <2>1, <2>2, <2>3 DEF NothingLeaks, Roots
<1>2. QED
  BY InitExchanges, NextExchanges, <1>1, PTL DEF Spec
=============================================================================
