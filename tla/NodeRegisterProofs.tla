-------------------------- MODULE NodeRegisterProofs --------------------------
(***************************************************************************)
(* Theorems about NodeRegister, for any number of requests and devices and *)
(* any limit.  However the threads interleave, the list of nodes ends and  *)
(* every variable keeps its type; and when the requests come one after the *)
(* other, the list is sound and registration implements Admission.         *)
(***************************************************************************)
EXTENDS NodeRegister, FiniteSetTheorems, WellFoundedInduction, TLAPS

USE RegisterAssumption

Size == Cardinality(Requests)

LEMMA SizeIsNatural == Size \in Nat
  BY FS_CardinalityType DEF Size
-----------------------------------------------------------------------------
(* Induction over the numbers, for a set.                                  *)

LEMMA SetInduction ==
    ASSUME NEW P, 0 \in P, \A n \in Nat : n \in P => n + 1 \in P
    PROVE  Nat \subseteq P
<1> DEFINE R == OpToRel(<, Nat)
           T == Nat \ P
<1>1. SUFFICES ASSUME T # {}
               PROVE  FALSE
  OBVIOUS
<1>2. \A x, y \in Nat : x < y => <<x, y>> \in R
  BY DEF OpToRel
<1>3. PICK m \in T : \A k \in T : <<k, m>> \notin R
  <2>1. IsWellFoundedOn(R, Nat) /\ T \subseteq Nat
    BY NatLessThanWellFounded
  <2> HIDE DEF R, T
  <2> QED
    BY <1>1, <2>1, WFMin
<1> HIDE DEF R
<1>4. m \in Nat /\ m # 0 /\ m - 1 \in Nat /\ m - 1 < m
  OBVIOUS
<1>5. m - 1 \in P
  BY <1>2, <1>3, <1>4
<1>6. (m - 1) + 1 \in P
  BY <1>4, <1>5
<1>7. QED
  BY <1>4, <1>6
-----------------------------------------------------------------------------
(* The walk along the list.  Follows(f, m, first, next): f are the first   *)
(* m nodes after the first one.                                            *)

Successor(next, n) == IF n = NULL THEN NULL ELSE next[n]

Follows(f, m, first, next) ==
    f = [k \in 0..m |-> IF k = 0 THEN first
                        ELSE IF f[k - 1] = NULL THEN NULL
                        ELSE next[f[k - 1]]]

Path(first, next) == CHOOSE f : Follows(f, Size, first, next)

LEMMA PathIsWalk == NodeAt = Path(firstclientnode, nextclientnode)
  BY DEF NodeAt, Path, Follows, Size

LEMMA FollowsExists ==
    ASSUME NEW first, NEW next
    PROVE  \A m \in Nat : \E f : Follows(f, m, first, next)
<1> DEFINE P == {m \in Nat : \E f : Follows(f, m, first, next)}
<1>1. 0 \in P
  <2>1. Follows([k \in 0..0 |-> first], 0, first, next)
    BY DEF Follows
  <2>2. QED
    BY <2>1
<1>2. ASSUME NEW m \in Nat, m \in P
      PROVE  m + 1 \in P
  <2>1. PICK f : Follows(f, m, first, next)
    BY <1>2
  <2> DEFINE g == [k \in 0..m + 1 |-> IF k = m + 1 THEN Successor(next, f[m]) ELSE f[k]]
  <2>2. ASSUME NEW k \in 0..m + 1
        PROVE  g[k] = IF k = 0 THEN first
                      ELSE IF g[k - 1] = NULL THEN NULL
                      ELSE next[g[k - 1]]
    <3>1. CASE k = m + 1
      <4>1. k # 0 /\ k - 1 = m /\ m \in 0..m + 1 /\ m # m + 1
        BY <3>1
      <4>2. g[k - 1] = f[m]
        BY <4>1
      <4>3. QED
        BY <3>1, <4>1, <4>2 DEF Successor
    <3>2. CASE k = 0
      BY <2>1, <3>2 DEF Follows
    <3>3. CASE k # 0 /\ k # m + 1
      <4>1. k \in 0..m /\ k - 1 \in 0..m /\ k - 1 # m + 1 /\ k - 1 \in 0..m + 1
        BY <3>3
      <4>2. g[k] = f[k] /\ g[k - 1] = f[k - 1]
        BY <3>3, <4>1
      <4>3. QED
        BY <2>1, <3>3, <4>1, <4>2 DEF Follows
    <3>4. QED
      BY <3>1, <3>2, <3>3
  <2>3. g = [k \in 0..m + 1 |-> g[k]]
    OBVIOUS
  <2>4. Follows(g, m + 1, first, next)
    <3> HIDE DEF g
    <3> QED
      BY <2>2, <2>3 DEF Follows
  <2>5. QED
    BY <2>4
<1>3. Nat \subseteq P
  <2> HIDE DEF P
  <2> QED
    BY <1>1, <1>2, SetInduction
<1>4. QED
  BY <1>3

(* The walk, node by node. *)
LEMMA PathSteps ==
    ASSUME NEW first, NEW next
    PROVE  /\ DOMAIN Path(first, next) = 0..Size
           /\ Path(first, next)[0] = first
           /\ \A k \in 1..Size :
                Path(first, next)[k] = Successor(next, Path(first, next)[k - 1])
<1>1. \E f : Follows(f, Size, first, next)
  BY FollowsExists, SizeIsNatural
<1>2. Follows(Path(first, next), Size, first, next)
  BY <1>1, Zenon DEF Path
<1> DEFINE f == Path(first, next)
<1> HIDE DEF f
<1>3. f = [k \in 0..Size |-> IF k = 0 THEN first
                             ELSE IF f[k - 1] = NULL THEN NULL
                             ELSE next[f[k - 1]]]
  BY <1>2 DEF Follows, f
<1>4. DOMAIN f = 0..Size
  BY <1>3
<1>5. \A k \in 0..Size : f[k] = IF k = 0 THEN first
                             ELSE IF f[k - 1] = NULL THEN NULL
                             ELSE next[f[k - 1]]
  BY <1>3
<1>6. f[0] = first
  BY <1>5, SizeIsNatural
<1>7. \A k \in 1..Size : f[k] = Successor(next, f[k - 1])
  BY <1>5, SizeIsNatural DEF Successor
<1>8. QED
  BY <1>4, <1>6, <1>7 DEF f
-----------------------------------------------------------------------------
(* What a walk finds.                                                      *)

(* The nodes of a list of n. *)
Nodes(s, n) == {s[i] : i \in 1..n}

LEMMA NodesCount ==
    ASSUME NEW n \in Nat, NEW T, NEW s \in [1..n -> T],
           \A i, j \in 1..n : s[i] = s[j] => i = j
    PROVE  /\ IsFiniteSet(Nodes(s, n))
           /\ Cardinality(Nodes(s, n)) = n
<1> DEFINE image == Nodes(s, n)
<1>1. IsFiniteSet(1..n) /\ Cardinality(1..n) = n
  BY FS_Interval
<1>2. s \in Surjection(1..n, image)
  BY DEF Surjection, Nodes
<1>3. s \in Injection(1..n, image)
  BY DEF Injection, IsInjective, Nodes
<1> HIDE DEF image
<1>4. IsFiniteSet(image) /\ Cardinality(image) = n
  BY <1>1, <1>2, <1>3, FS_Surjection
<1>5. QED
  BY <1>4 DEF image

(* The nodes that the walk finds. *)
Found(first, next) == {Path(first, next)[k] : k \in DOMAIN Path(first, next)} \ {NULL}

(* A list of n different nodes: the walk finds each of them and stops.     *)
LEMMA WalkOfList ==
    ASSUME NEW first, NEW next, NEW n \in Nat, NEW s \in [1..n -> Requests],
           \A i, j \in 1..n : s[i] = s[j] => i = j,
           first = IF n = 0 THEN NULL ELSE s[1],
           \A i \in 1..n : next[s[i]] = IF i = n THEN NULL ELSE s[i + 1]
    PROVE  n <= Size /\ Found(first, next) = Nodes(s, n)
<1> DEFINE f == Path(first, next)
<1>1. /\ DOMAIN f = 0..Size /\ f[0] = first
      /\ \A k \in 1..Size : f[k] = Successor(next, f[k - 1])
  BY PathSteps
<1> HIDE DEF f
<1>2. n <= Size
  <2>1. Cardinality(Nodes(s, n)) = n
    BY NodesCount
  <2>2. Nodes(s, n) \in SUBSET Requests
    BY DEF Nodes
  <2>3. Cardinality(Nodes(s, n)) <= Cardinality(Requests)
    BY <2>2, FS_Subset
  <2>4. QED
    BY <2>1, <2>3 DEF Size
<1> DEFINE P == {k \in Nat : k <= Size => f[k] = IF k < n THEN s[k + 1] ELSE NULL}
<1>3. 0 \in P
  BY <1>1
<1>4. ASSUME NEW k \in Nat, k \in P
      PROVE  k + 1 \in P
  <2> SUFFICES ASSUME k + 1 <= Size
               PROVE  f[k + 1] = IF k + 1 < n THEN s[k + 2] ELSE NULL
    BY SizeIsNatural
  <2>1. f[k + 1] = Successor(next, f[k])
    BY <1>1, SizeIsNatural
  <2>2. f[k] = IF k < n THEN s[k + 1] ELSE NULL
    BY <1>4, SizeIsNatural
  <2>3. CASE k < n
    <3>1. k + 1 \in 1..n /\ f[k] = s[k + 1] /\ s[k + 1] \in Requests
      BY <2>2, <2>3
    <3>2. next[s[k + 1]] = IF k + 1 = n THEN NULL ELSE s[(k + 1) + 1]
      BY <3>1
    <3>3. (k + 1) + 1 = k + 2 /\ (k + 1 < n <=> k + 1 # n)
      BY <2>3
    <3>4. QED
      BY <2>1, <3>1, <3>2, <3>3 DEF Successor
  <2>4. CASE ~(k < n)
    BY <2>1, <2>2, <2>4 DEF Successor
  <2>5. QED
    BY <2>3, <2>4
<1>5. Nat \subseteq P
  <2> HIDE DEF P
  <2> QED
    BY <1>3, <1>4, SetInduction
<1>6. \A k \in 0..Size : f[k] = IF k < n THEN s[k + 1] ELSE NULL
  BY <1>5, SizeIsNatural
<1>7. {f[k] : k \in 0..Size} \ {NULL} \subseteq Nodes(s, n)
  <2>1. \A k \in 0..Size : k < n => k + 1 \in 1..n
    OBVIOUS
  <2>2. QED
    BY <1>6, <2>1 DEF Nodes
<1>8. Nodes(s, n) \subseteq {f[k] : k \in 0..Size} \ {NULL}
  <2>1. ASSUME NEW i \in 1..n
        PROVE  \E k \in 0..Size : f[k] = s[i] /\ s[i] # NULL
    <3>1. i - 1 \in 0..Size /\ i - 1 < n /\ (i - 1) + 1 = i
      BY <1>2, SizeIsNatural
    <3>2. f[i - 1] = s[i]
      BY <1>6, <3>1
    <3>3. QED
      BY <3>1, <3>2
  <2>2. QED
    BY <2>1 DEF Nodes
<1>9. QED
  BY <1>1, <1>2, <1>7, <1>8 DEF f, Found

(* Nodes whose ranks grow from each to its successor: the walk ends.       *)
LEMMA WalkEnds ==
    ASSUME NEW first \in Pointer, NEW next \in [Requests -> Pointer],
           NEW past, NEW rank \in [Requests -> Nat],
           \A a \in Requests : next[a] # NULL =>
             /\ a \in past
             /\ next[a] \in past => rank[a] < rank[next[a]]
    PROVE  Path(first, next)[Size] = NULL
<1> DEFINE f == Path(first, next)
<1>1. /\ f[0] = first
      /\ \A k \in 1..Size : f[k] = Successor(next, f[k - 1])
  BY PathSteps
<1> HIDE DEF f
<1> SUFFICES ASSUME f[Size] # NULL
             PROVE  FALSE
  BY DEF f
<1> USE SizeIsNatural
<1>2. \A k \in 0..Size : f[k] \in Pointer
  <2> DEFINE P == {k \in Nat : k <= Size => f[k] \in Pointer}
  <2>1. 0 \in P
    BY <1>1
  <2>2. ASSUME NEW k \in Nat, k \in P
        PROVE  k + 1 \in P
    <3> SUFFICES ASSUME k + 1 <= Size
                 PROVE  f[k + 1] \in Pointer
      OBVIOUS
    <3>1. f[k] \in Pointer /\ f[k + 1] = Successor(next, f[k])
      BY <1>1, <2>2
    <3>2. QED
      BY <3>1 DEF Successor, Pointer
  <2>3. Nat \subseteq P
    <3> HIDE DEF P
    <3> QED
      BY <2>1, <2>2, SetInduction
  <2>4. QED
    BY <2>3
<1>3. \A k \in 0..Size : f[k] # NULL
  <2> DEFINE P == {k \in Nat : k <= Size => f[Size - k] # NULL}
  <2>1. 0 \in P
    OBVIOUS
  <2>2. ASSUME NEW k \in Nat, k \in P
        PROVE  k + 1 \in P
    <3> SUFFICES ASSUME k + 1 <= Size
                 PROVE  f[Size - (k + 1)] # NULL
      OBVIOUS
    <3>1. Size - k \in 1..Size /\ (Size - k) - 1 = Size - (k + 1)
      OBVIOUS
    <3>2. f[Size - k] = Successor(next, f[Size - (k + 1)]) /\ f[Size - k] # NULL
      BY <1>1, <2>2, <3>1
    <3>3. QED
      BY <3>2 DEF Successor
  <2>3. Nat \subseteq P
    <3> HIDE DEF P
    <3> QED
      BY <2>1, <2>2, SetInduction
  <2>4. ASSUME NEW k \in 0..Size
        PROVE  f[k] # NULL
    <3>1. Size - k \in Nat /\ Size - k <= Size /\ Size - (Size - k) = k
      OBVIOUS
    <3>2. QED
      BY <2>3, <3>1
  <2>5. QED
    BY <2>4
<1>4. \A k \in 0..Size : f[k] \in Requests
  BY <1>2, <1>3 DEF Pointer
<1>5. \A k \in 1..Size : /\ k - 1 \in 0..Size /\ f[k - 1] \in past
                         /\ f[k] \in past => rank[f[k - 1]] < rank[f[k]]
  <2> SUFFICES ASSUME NEW k \in 1..Size
               PROVE  /\ k - 1 \in 0..Size /\ f[k - 1] \in past
                      /\ f[k] \in past => rank[f[k - 1]] < rank[f[k]]
    OBVIOUS
  <2>1. k - 1 \in 0..Size /\ k \in 0..Size
    OBVIOUS
  <2>2. f[k] = next[f[k - 1]] /\ f[k - 1] \in Requests /\ f[k] # NULL
    BY <1>1, <1>3, <1>4, <2>1 DEF Successor
  <2>3. QED
    BY <2>1, <2>2
<1>6. \A j \in 0..Size : \A i \in 0..Size : i < j /\ f[j] \in past => rank[f[i]] < rank[f[j]]
  <2> DEFINE P == {j \in Nat : j <= Size => \A i \in 0..Size :
                     i < j /\ f[j] \in past => rank[f[i]] < rank[f[j]]}
  <2>1. 0 \in P
    OBVIOUS
  <2>2. ASSUME NEW j \in Nat, j \in P
        PROVE  j + 1 \in P
    <3> SUFFICES ASSUME j + 1 <= Size, f[j + 1] \in past,
                        NEW i \in 0..Size, i < j + 1
                 PROVE  rank[f[i]] < rank[f[j + 1]]
      OBVIOUS
    <3>1. j + 1 \in 1..Size /\ (j + 1) - 1 = j /\ j \in 0..Size
      OBVIOUS
    <3>2. f[j] \in past /\ rank[f[j]] < rank[f[j + 1]]
      BY <1>5, <3>1
    <3>3. rank[f[i]] \in Nat /\ rank[f[j]] \in Nat /\ rank[f[j + 1]] \in Nat
      BY <1>4, <3>1
    <3>4. i < j => rank[f[i]] < rank[f[j]]
      BY <2>2, <3>1, <3>2
    <3>5. i < j \/ i = j
      OBVIOUS
    <3>6. QED
      BY <3>2, <3>3, <3>4, <3>5
  <2>3. Nat \subseteq P
    <3> HIDE DEF P
    <3> QED
      BY <2>1, <2>2, SetInduction
  <2>4. QED
    BY <2>3
<1>7. \A i, j \in 0..Size : i < j => f[i] # f[j]
  <2> SUFFICES ASSUME NEW i \in 0..Size, NEW j \in 0..Size, i < j, f[i] = f[j]
               PROVE  FALSE
    OBVIOUS
  <2>1. i + 1 \in 1..Size /\ (i + 1) - 1 = i
    OBVIOUS
  <2>2. f[i] \in past
    BY <1>5, <2>1
  <2>3. rank[f[i]] < rank[f[j]] /\ rank[f[i]] \in Nat
    BY <1>4, <1>6, <2>2
  <2>4. QED
    BY <2>3
<1> DEFINE g == [k \in 0..Size |-> f[k]]
<1>8. g \in [0..Size -> Requests]
  BY <1>4
<1>9. IsFiniteSet(0..Size) /\ Cardinality(0..Size) = Size + 1
  BY FS_Interval
<1>10. PICK i, j \in 0..Size : i # j /\ g[i] = g[j]
  <2> HIDE DEF g
  <2>1. Cardinality(Requests) < Cardinality(0..Size)
    BY <1>9 DEF Size
  <2>2. QED
    BY <1>8, <1>9, <2>1, FS_PigeonHole
<1>11. QED
  BY <1>7, <1>10
-----------------------------------------------------------------------------
(* What holds however the threads interleave: an inductive invariant.      *)

(* The requests that were answered "added", and the nodes that are or have *)
(* been the last of the list.                                              *)
Added == {r \in Requests : reply[r] = "added"}
Past == Added \cup {r \in Requests : pc[r] \in {"count", "store"}}

Typed ==
    /\ serial \in BOOLEAN
    /\ firstclientnode \in Pointer
    /\ lastclientnode \in Past \cup {NULL}
    /\ clientnodesregistered \in Nat
    /\ nextclientnode \in [Requests -> Pointer]
    /\ previousclientnode \in [Requests -> Pointer]
    /\ globalmodelstatus \in {0, 1}
    /\ pc \in [Requests -> PC]
    /\ clientnode \in [Requests -> Pointer]
    /\ ctrl \in [Requests -> {0, 1}]
    /\ loaded \in [Requests -> Pointer \cup Nat]
    /\ reply \in [Requests -> {"none", "limit reached", "added", "registred"}]
    /\ up \in BOOLEAN

(* Where a thread is says what it has loaded and answered. *)
Located ==
    \A r \in Requests :
      /\ reply[r] = "added" => pc[r] \in {"status", "done"}
      /\ pc[r] = "link" => loaded[r] \in Past \cup {NULL}
      /\ pc[r] \in {"idle", "limit", "empty"} => ctrl[r] = 1

(* The counter never runs ahead of the answers. *)
Counted ==
    /\ clientnodesregistered <= Cardinality(Added)
    /\ \A r \in Requests : pc[r] = "store" =>
         loaded[r] \in Nat /\ loaded[r] <= Cardinality(Added)

(* The order in which the nodes were made the last one: only such a node   *)
(* has a successor, which comes later or has still to become the last.     *)
InOrderOf(rank) ==
    \A a \in Requests : nextclientnode[a] # NULL =>
      /\ a \in Past
      /\ \/ pc[nextclientnode[a]] \in {"previous", "append"}
         \/ nextclientnode[a] \in Past /\ rank[a] < rank[nextclientnode[a]]

Acyclic ==
    \E n \in Nat : \E rank \in [Requests -> 0..n] : InOrderOf(rank)

ThreadInv == Typed /\ Located /\ Counted /\ Acyclic

LEMMA AddedIsFinite ==
    /\ IsFiniteSet(Added) /\ Cardinality(Added) \in Nat
    /\ Cardinality(Added) <= Size
    /\ Added' = Added => Cardinality(Added') = Cardinality(Added)
<1>1. Added \in SUBSET Requests
  BY DEF Added
<1>2. QED
  BY <1>1, FS_Subset, FS_CardinalityType DEF Size

(* A step of thread r: the types it keeps, and that it moves r alone.      *)
Moves(r) ==
    /\ serial' = serial
    /\ firstclientnode' \in Pointer
    /\ nextclientnode' \in [Requests -> Pointer]
    /\ previousclientnode' \in [Requests -> Pointer]
    /\ globalmodelstatus' \in {0, 1}
    /\ pc' \in [Requests -> PC]
    /\ clientnode' \in [Requests -> Pointer]
    /\ ctrl' \in [Requests -> {0, 1}]
    /\ loaded' \in [Requests -> Pointer \cup Nat]
    /\ reply' \in [Requests -> {"none", "limit reached", "added", "registred"}]
    /\ up' \in BOOLEAN
    /\ \A q \in Requests : q # r =>
         /\ pc'[q] = pc[q] /\ clientnode'[q] = clientnode[q] /\ ctrl'[q] = ctrl[q]
         /\ loaded'[q] = loaded[q] /\ reply'[q] = reply[q]

LEMMA PastIsTyped == Past \subseteq Requests /\ Requests \subseteq Pointer /\ NULL \in Pointer
  BY DEF Past, Added, Pointer

LEMMA StepMoves ==
    ASSUME Typed, NEW r \in Requests, Step(r)
    PROVE  Moves(r)
<1>0. lastclientnode \in Pointer /\ r \in Pointer
  BY PastIsTyped DEF Typed
<1>1. \E place \in PC : pc' = [pc EXCEPT ![r] = place] \/ pc' = pc
  <2>1. \/ \E place \in PC : Goto(r, place)
        \/ pc' = pc
    <3>1. /\ "limit" \in PC /\ "empty" \in PC /\ "first" \in PC /\ "last" \in PC
          /\ "walk" \in PC /\ "load" \in PC /\ "link" \in PC /\ "previous" \in PC
          /\ "append" \in PC /\ "count" \in PC /\ "store" \in PC /\ "status" \in PC
          /\ "done" \in PC
      BY DEF PC
    <3>2. QED
      BY <3>1, Zenon
      DEF Step, Accept, TestLimit, TestEmpty, SetFirst, SetLast, Walk, LoadLast,
          LinkNext, LinkNull, SetPrevious, LoadCount, StoreCount, SetStatus
  <2>2. QED
    BY <2>1 DEF Goto, PC
<1>2. pc' \in [Requests -> PC] /\ \A q \in Requests : q # r => pc'[q] = pc[q]
  <2>1. pc \in [Requests -> PC]
    BY DEF Typed
  <2>2. QED
    BY <1>1, <2>1
<1> DEFINE Answers == {"none", "limit reached", "added", "registred"}
<1>3. /\ reply' \in [Requests -> Answers]
      /\ \A q \in Requests : q # r => reply'[q] = reply[q]
  <2>1. reply \in [Requests -> Answers]
    BY DEF Typed
  <2>2. \E answer \in Answers : reply' = [reply EXCEPT ![r] = answer] \/ reply' = reply
    BY DEF Step, Accept, TestLimit, TestEmpty, SetFirst, SetLast, Walk, LoadLast,
           LinkNext, LinkNull, SetPrevious, LoadCount, StoreCount, SetStatus, local
  <2> HIDE DEF Answers
  <2>3. QED
    BY <2>1, <2>2
<1>4. /\ loaded' \in [Requests -> Pointer \cup Nat]
      /\ \A q \in Requests : q # r => loaded'[q] = loaded[q]
  <2>1. \/ loaded' = [loaded EXCEPT ![r] = lastclientnode]
        \/ loaded' = [loaded EXCEPT ![r] = clientnodesregistered]
        \/ loaded' = loaded
    BY DEF Step, Accept, TestLimit, TestEmpty, SetFirst, SetLast, Walk, LoadLast,
           LinkNext, LinkNull, SetPrevious, LoadCount, StoreCount, SetStatus, local
  <2>2. loaded \in [Requests -> Pointer \cup Nat] /\ clientnodesregistered \in Nat
    BY DEF Typed
  <2>3. QED
    BY <1>0, <2>1, <2>2
<1>5. /\ ctrl' \in [Requests -> {0, 1}]
      /\ \A q \in Requests : q # r => ctrl'[q] = ctrl[q]
  <2>1. ctrl' = [ctrl EXCEPT ![r] = 0] \/ ctrl' = ctrl
    BY DEF Step, Accept, TestLimit, TestEmpty, SetFirst, SetLast, Walk, LoadLast,
           LinkNext, LinkNull, SetPrevious, LoadCount, StoreCount, SetStatus, local
  <2>2. QED
    BY <2>1 DEF Typed
<1>6. /\ clientnode' \in [Requests -> Pointer]
      /\ \A q \in Requests : q # r => clientnode'[q] = clientnode[q]
  <2>1. clientnode[r] # NULL => nextclientnode[clientnode[r]] \in Pointer
    BY DEF Typed, Pointer
  <2>2. \/ clientnode' = [clientnode EXCEPT ![r] = firstclientnode]
        \/ /\ clientnode[r] # NULL
           /\ clientnode' = [clientnode EXCEPT ![r] = nextclientnode[clientnode[r]]]
        \/ clientnode' = clientnode
    BY DEF Step, Accept, TestLimit, TestEmpty, SetFirst, SetLast, Walk, LoadLast,
           LinkNext, LinkNull, SetPrevious, LoadCount, StoreCount, SetStatus, local
  <2>3. clientnode \in [Requests -> Pointer] /\ firstclientnode \in Pointer
    BY DEF Typed
  <2>4. QED
    BY <2>1, <2>2, <2>3
<1>7. nextclientnode' \in [Requests -> Pointer]
  <2>1. nextclientnode' = [nextclientnode EXCEPT ![loaded[r]] = r]
          \/ nextclientnode' = nextclientnode
    BY DEF Step, Accept, TestLimit, TestEmpty, SetFirst, SetLast, Walk, LoadLast,
           LinkNext, LinkNull, SetPrevious, LoadCount, StoreCount, SetStatus, nodecontrol
  <2>2. QED
    BY <1>0, <2>1 DEF Typed
<1>8. previousclientnode' \in [Requests -> Pointer]
  <2>1. previousclientnode' = [previousclientnode EXCEPT ![r] = lastclientnode]
          \/ previousclientnode' = previousclientnode
    BY DEF Step, Accept, TestLimit, TestEmpty, SetFirst, SetLast, Walk, LoadLast,
           LinkNext, LinkNull, SetPrevious, LoadCount, StoreCount, SetStatus, nodecontrol
  <2>2. QED
    BY <1>0, <2>1 DEF Typed
<1>9. /\ serial' = serial /\ firstclientnode' \in {firstclientnode, r}
      /\ globalmodelstatus' \in {globalmodelstatus, 1} /\ up' \in {up, FALSE}
  BY DEF Step, Accept, TestLimit, TestEmpty, SetFirst, SetLast, Walk, LoadLast,
         LinkNext, LinkNull, SetPrevious, LoadCount, StoreCount, SetStatus, nodecontrol
<1>10. QED
  <2>1. firstclientnode' \in Pointer /\ globalmodelstatus' \in {0, 1} /\ up' \in BOOLEAN
    BY <1>0, <1>9 DEF Typed
  <2>2. QED
    BY <1>2, <1>3, <1>4, <1>5, <1>6, <1>7, <1>8, <1>9, <2>1 DEF Moves

(* A step that neither links a node, nor makes one the last, nor counts it. *)
LEMMA QuietStep ==
    ASSUME ThreadInv, NEW r \in Requests, Moves(r),
           UNCHANGED <<lastclientnode, clientnodesregistered, nextclientnode>>,
           reply'[r] = "added" <=> reply[r] = "added",
           reply'[r] = "added" => pc'[r] \in {"status", "done"},
           pc'[r] \in {"count", "store"} <=> pc[r] \in {"count", "store"},
           pc[r] \in {"previous", "append"} => pc'[r] \in {"previous", "append"},
           pc'[r] = "link" => \/ loaded'[r] = loaded[r] /\ pc[r] = "link"
                              \/ loaded'[r] = lastclientnode,
           pc'[r] \in {"idle", "limit", "empty"} => ctrl'[r] = 1,
           pc'[r] = "store" => loaded'[r] = clientnodesregistered
    PROVE  ThreadInv' /\ Added' = Added /\ Past' = Past
<1>1. Added' = Added
  BY DEF Moves, Added
<1>2. Past' = Past
  BY <1>1 DEF Moves, Past
<1>3. Typed'
  BY <1>2 DEF ThreadInv, Typed, Moves
<1>4. Located'
  <2> SUFFICES ASSUME NEW q \in Requests
               PROVE  /\ reply'[q] = "added" => pc'[q] \in {"status", "done"}
                      /\ pc'[q] = "link" => loaded'[q] \in Past \cup {NULL}
                      /\ pc'[q] \in {"idle", "limit", "empty"} => ctrl'[q] = 1
    BY <1>2 DEF Located
  <2>1. /\ reply[q] = "added" => pc[q] \in {"status", "done"}
        /\ pc[q] = "link" => loaded[q] \in Past \cup {NULL}
        /\ pc[q] \in {"idle", "limit", "empty"} => ctrl[q] = 1
        /\ lastclientnode \in Past \cup {NULL}
    BY DEF ThreadInv, Typed, Located
  <2>2. CASE q = r
    BY <2>1, <2>2
  <2>3. CASE q # r
    BY <2>1, <2>3 DEF Moves
  <2>4. QED
    BY <2>2, <2>3
<1>5. Counted'
  BY <1>1, AddedIsFinite DEF ThreadInv, Typed, Counted, Moves
<1>6. Acyclic'
  <2>0. PICK n \in Nat : \E rank \in [Requests -> 0..n] : InOrderOf(rank)
    BY DEF ThreadInv, Acyclic
  <2>1. PICK rank \in [Requests -> 0..n] : InOrderOf(rank)
    BY <2>0
  <2>2. \A b \in Requests : pc[b] \in {"previous", "append"} => pc'[b] \in {"previous", "append"}
    BY DEF Moves
  <2>3. \A a \in Requests : nextclientnode[a] # NULL => nextclientnode[a] \in Requests
    BY DEF ThreadInv, Typed, Pointer
  <2>4. InOrderOf(rank)'
    BY <1>2, <2>1, <2>2, <2>3 DEF InOrderOf
  <2>5. QED
    BY <2>4 DEF Acyclic
<1>7. QED
  BY <1>1, <1>2, <1>3, <1>4, <1>5, <1>6 DEF ThreadInv

(* The node of r becomes the last one: it ranks after all others.          *)
LEMMA SetLastPreserves ==
    ASSUME ThreadInv, NEW r \in Requests, SetLast(r)
    PROVE  ThreadInv' /\ Past' = Past \cup {r} /\ Added' = Added
<1>1. Moves(r)
  BY StepMoves DEF ThreadInv, Step
<1>2. /\ pc[r] \in {"last", "append"} /\ pc'[r] = "count"
      /\ lastclientnode' = r
      /\ UNCHANGED <<clientnodesregistered, nextclientnode, loaded, ctrl, reply>>
  BY DEF SetLast, Goto, local, ThreadInv, Typed
<1>3. Added' = Added
  BY <1>2 DEF Added
<1>4. Past' = Past \cup {r} /\ r \notin Past
  <2>1. r \notin Past
    BY <1>2 DEF Past, Added, ThreadInv, Located
  <2>2. \A q \in Requests : pc'[q] \in {"count", "store"} <=>
                              pc[q] \in {"count", "store"} \/ q = r
    BY <1>1, <1>2 DEF Moves
  <2>3. QED
    BY <1>3, <2>1, <2>2 DEF Past
<1>5. Typed'
  BY <1>1, <1>2, <1>4 DEF ThreadInv, Typed, Moves
<1>6. Located'
  <2> SUFFICES ASSUME NEW q \in Requests
               PROVE  /\ reply'[q] = "added" => pc'[q] \in {"status", "done"}
                      /\ pc'[q] = "link" => loaded'[q] \in Past' \cup {NULL}
                      /\ pc'[q] \in {"idle", "limit", "empty"} => ctrl'[q] = 1
    BY DEF Located
  <2>1. /\ reply[q] = "added" => pc[q] \in {"status", "done"}
        /\ pc[q] = "link" => loaded[q] \in Past \cup {NULL}
        /\ pc[q] \in {"idle", "limit", "empty"} => ctrl[q] = 1
    BY DEF ThreadInv, Located
  <2>2. q # r => pc'[q] = pc[q]
    BY <1>1 DEF Moves
  <2>3. QED
    BY <1>2, <1>4, <2>1, <2>2
<1>7. Counted'
  <2>1. \A q \in Requests : pc'[q] = "store" => pc[q] = "store"
    BY <1>1, <1>2 DEF Moves
  <2>2. QED
    BY <1>2, <1>3, <2>1, AddedIsFinite DEF ThreadInv, Counted
<1>8. Acyclic'
  <2>0. PICK n \in Nat : \E rank \in [Requests -> 0..n] : InOrderOf(rank)
    BY DEF ThreadInv, Acyclic
  <2>1. PICK rank \in [Requests -> 0..n] : InOrderOf(rank)
    BY <2>0
  <2> DEFINE later == [rank EXCEPT ![r] = n + 1]
  <2>2. /\ later \in [Requests -> 0..n + 1] /\ n + 1 \in Nat
        /\ later[r] = n + 1
        /\ \A a \in Requests : a # r => later[a] = rank[a] /\ rank[a] < later[r]
    OBVIOUS
  <2> HIDE DEF later
  <2>3. InOrderOf(later)'
    <3> SUFFICES ASSUME NEW a \in Requests, nextclientnode[a] # NULL
                 PROVE  /\ a \in Past'
                        /\ \/ pc'[nextclientnode[a]] \in {"previous", "append"}
                           \/ nextclientnode[a] \in Past'
                              /\ later[a] < later[nextclientnode[a]]
      BY <1>2 DEF InOrderOf
    <3> DEFINE b == nextclientnode[a]
    <3>0. b \in Requests
      BY DEF ThreadInv, Typed, Pointer
    <3>1. /\ a \in Past /\ b \in Requests
          /\ \/ pc[b] \in {"previous", "append"}
             \/ b \in Past /\ rank[a] < rank[b]
      BY <2>1, <3>0 DEF InOrderOf
    <3>2. a # r /\ later[a] = rank[a]
      BY <1>4, <2>2, <3>1
    <3> HIDE DEF b
    <3>3. CASE b = r
      BY <1>4, <2>2, <3>1, <3>2, <3>3 DEF b
    <3>4. CASE b # r
      <4>1. pc'[b] = pc[b] /\ later[b] = rank[b]
        BY <1>1, <2>2, <3>1, <3>4 DEF Moves
      <4>2. QED
        BY <1>4, <3>1, <3>2, <4>1 DEF b
    <3>5. QED
      BY <3>3, <3>4
  <2>4. QED
    BY <2>2, <2>3 DEF Acyclic
<1>9. QED
  BY <1>3, <1>4, <1>5, <1>6, <1>7, <1>8 DEF ThreadInv

(* The node of r is linked behind one that has been the last.              *)
LEMMA LinkNextPreserves ==
    ASSUME ThreadInv, NEW r \in Requests, LinkNext(r)
    PROVE  ThreadInv' /\ Past' = Past /\ Added' = Added
<1>1. Moves(r)
  BY StepMoves DEF ThreadInv, Step
<1>2. /\ pc[r] = "link" /\ pc'[r] = "previous" /\ loaded[r] # NULL
      /\ nextclientnode' = [nextclientnode EXCEPT ![loaded[r]] = r]
      /\ UNCHANGED <<lastclientnode, clientnodesregistered, loaded, ctrl, reply>>
  BY DEF LinkNext, At, Goto, local, ThreadInv, Typed
<1>3. loaded[r] \in Past /\ loaded[r] \in Requests
  BY <1>2, PastIsTyped DEF ThreadInv, Located
<1>4. Added' = Added /\ Past' = Past /\ r \notin Past
  <2>1. Added' = Added
    BY <1>2 DEF Added
  <2>2. r \notin Past
    BY <1>2 DEF Past, Added, ThreadInv, Located
  <2>3. \A q \in Requests : pc'[q] \in {"count", "store"} <=> pc[q] \in {"count", "store"}
    BY <1>1, <1>2 DEF Moves
  <2>4. QED
    BY <2>1, <2>2, <2>3 DEF Past
<1>5. Typed'
  BY <1>1, <1>2, <1>4 DEF ThreadInv, Typed, Moves
<1>6. Located'
  <2> SUFFICES ASSUME NEW q \in Requests
               PROVE  /\ reply'[q] = "added" => pc'[q] \in {"status", "done"}
                      /\ pc'[q] = "link" => loaded'[q] \in Past' \cup {NULL}
                      /\ pc'[q] \in {"idle", "limit", "empty"} => ctrl'[q] = 1
    BY DEF Located
  <2>1. /\ reply[q] = "added" => pc[q] \in {"status", "done"}
        /\ pc[q] = "link" => loaded[q] \in Past \cup {NULL}
        /\ pc[q] \in {"idle", "limit", "empty"} => ctrl[q] = 1
    BY DEF ThreadInv, Located
  <2>2. q # r => pc'[q] = pc[q]
    BY <1>1 DEF Moves
  <2>3. QED
    BY <1>2, <1>4, <2>1, <2>2
<1>7. Counted'
  <2>1. \A q \in Requests : pc'[q] = "store" => pc[q] = "store"
    BY <1>1, <1>2 DEF Moves
  <2>2. QED
    BY <1>2, <1>4, <2>1, AddedIsFinite DEF ThreadInv, Counted
<1>8. Acyclic'
  <2>0. PICK n \in Nat : \E rank \in [Requests -> 0..n] : InOrderOf(rank)
    BY DEF ThreadInv, Acyclic
  <2>1. PICK rank \in [Requests -> 0..n] : InOrderOf(rank)
    BY <2>0
  <2>2. InOrderOf(rank)'
    <3> SUFFICES ASSUME NEW a \in Requests, nextclientnode'[a] # NULL
                 PROVE  /\ a \in Past
                        /\ \/ pc'[nextclientnode'[a]] \in {"previous", "append"}
                           \/ nextclientnode'[a] \in Past
                              /\ rank[a] < rank[nextclientnode'[a]]
      BY <1>4 DEF InOrderOf
    <3>1. CASE a = loaded[r]
      <4>1. nextclientnode'[a] = r
        BY <1>2, <3>1 DEF ThreadInv, Typed
      <4>2. QED
        BY <1>2, <1>3, <3>1, <4>1
    <3>2. CASE a # loaded[r]
      <4>1. nextclientnode'[a] = nextclientnode[a] /\ nextclientnode[a] \in Requests
        BY <1>2, <3>2 DEF ThreadInv, Typed, Pointer
      <4>2. nextclientnode[a] # r => pc'[nextclientnode[a]] = pc[nextclientnode[a]]
        BY <1>1, <4>1 DEF Moves
      <4>3. QED
        BY <1>2, <1>4, <2>1, <4>1, <4>2 DEF InOrderOf
    <3>3. QED
      BY <3>1, <3>2
  <2>3. QED
    BY <2>2 DEF Acyclic
<1>9. QED
  BY <1>4, <1>5, <1>6, <1>7, <1>8 DEF ThreadInv

(* The counter is stored, and its thread answers.                          *)
LEMMA StoreCountPreserves ==
    ASSUME ThreadInv, NEW r \in Requests, StoreCount(r)
    PROVE  ThreadInv' /\ Past' = Past /\ Added' = Added \cup {r}
<1>1. Moves(r)
  BY StepMoves DEF ThreadInv, Step
<1>2. /\ pc[r] = "store" /\ pc'[r] = "status" /\ reply'[r] = "added"
      /\ clientnodesregistered' = loaded[r] + 1
      /\ UNCHANGED <<lastclientnode, nextclientnode, loaded, ctrl>>
  BY DEF StoreCount, At, Goto, ThreadInv, Typed
<1>3. r \notin Added /\ Added' = Added \cup {r}
  <2>1. reply[r] # "added"
    BY <1>2 DEF ThreadInv, Located
  <2>2. QED
    BY <1>1, <1>2, <2>1 DEF Added, Moves
<1>4. Past' = Past
  BY <1>1, <1>2, <1>3 DEF Past, Moves
<1>5. loaded[r] \in Nat /\ loaded[r] <= Cardinality(Added)
  BY <1>2 DEF ThreadInv, Counted
<1>6. Cardinality(Added') = Cardinality(Added) + 1
  BY <1>3, AddedIsFinite, FS_AddElement
<1>7. Typed'
  <2>1. clientnodesregistered' \in Nat
    BY <1>2, <1>5
  <2>2. lastclientnode' \in Past' \cup {NULL}
    BY <1>2, <1>4 DEF ThreadInv, Typed
  <2>3. serial' \in BOOLEAN
    BY <1>1 DEF ThreadInv, Typed, Moves
  <2>4. QED
    BY <1>1, <2>1, <2>2, <2>3 DEF Typed, Moves
<1>8. Located'
  <2> SUFFICES ASSUME NEW q \in Requests
               PROVE  /\ reply'[q] = "added" => pc'[q] \in {"status", "done"}
                      /\ pc'[q] = "link" => loaded'[q] \in Past' \cup {NULL}
                      /\ pc'[q] \in {"idle", "limit", "empty"} => ctrl'[q] = 1
    BY DEF Located
  <2>1. /\ reply[q] = "added" => pc[q] \in {"status", "done"}
        /\ pc[q] = "link" => loaded[q] \in Past \cup {NULL}
        /\ pc[q] \in {"idle", "limit", "empty"} => ctrl[q] = 1
    BY DEF ThreadInv, Located
  <2>2. q # r => pc'[q] = pc[q] /\ reply'[q] = reply[q]
    BY <1>1 DEF Moves
  <2>3. QED
    BY <1>2, <1>4, <2>1, <2>2
<1>9. Counted'
  <2>1. \A q \in Requests : pc'[q] = "store" => pc[q] = "store"
    BY <1>1, <1>2 DEF Moves
  <2>2. \A q \in Requests : pc[q] = "store" =>
          loaded[q] \in Nat /\ loaded[q] <= Cardinality(Added)
    BY DEF ThreadInv, Counted
  <2>3. Cardinality(Added) \in Nat
    BY AddedIsFinite
  <2>4. QED
    BY <1>2, <1>5, <1>6, <2>1, <2>2, <2>3 DEF Counted
<1>10. Acyclic'
  <2>0. PICK n \in Nat : \E rank \in [Requests -> 0..n] : InOrderOf(rank)
    BY DEF ThreadInv, Acyclic
  <2>1. PICK rank \in [Requests -> 0..n] : InOrderOf(rank)
    BY <2>0
  <2>2. \A b \in Requests : pc[b] \in {"previous", "append"} => pc'[b] \in {"previous", "append"}
    BY <1>1, <1>2 DEF Moves
  <2>3. \A a \in Requests : nextclientnode[a] # NULL => nextclientnode[a] \in Requests
    BY DEF ThreadInv, Typed, Pointer
  <2>4. InOrderOf(rank)'
    BY <1>2, <1>4, <2>1, <2>2, <2>3 DEF InOrderOf
  <2>5. QED
    BY <2>4 DEF Acyclic
<1>11. QED
  BY <1>3, <1>4, <1>7, <1>8, <1>9, <1>10 DEF ThreadInv

LEMMA StepPreserves ==
    ASSUME ThreadInv, NEW r \in Requests, Step(r)
    PROVE  ThreadInv'
<1>0. Moves(r) /\ pc \in [Requests -> PC]
  BY StepMoves DEF ThreadInv, Typed
<1>1. /\ reply[r] = "added" => pc[r] \in {"status", "done"}
      /\ pc[r] \in {"idle", "limit", "empty"} => ctrl[r] = 1
  BY DEF ThreadInv, Located
<1>2. CASE Accept(r)
  <2>1. pc[r] = "idle" /\ pc'[r] = "limit"
        /\ UNCHANGED <<lastclientnode, clientnodesregistered, nextclientnode, ctrl, loaded, reply>>
    BY <1>0, <1>2 DEF Accept, At, Goto, nodecontrol, local
  <2>2. QED
    BY <1>0, <1>1, <2>1, QuietStep
<1>3. CASE TestLimit(r)
  <2>1. pc[r] = "limit" /\ pc'[r] \in {"status", "empty"}
        /\ reply'[r] \in {reply[r], "limit reached"}
        /\ UNCHANGED <<lastclientnode, clientnodesregistered, nextclientnode, ctrl, loaded>>
    BY <1>0, <1>3 DEF TestLimit, At, Goto, nodecontrol, ThreadInv, Typed
  <2>2. QED
    BY <1>0, <1>1, <2>1, QuietStep
<1>4. CASE TestEmpty(r)
  <2>1. pc[r] = "empty" /\ pc'[r] \in {"first", "walk"}
        /\ UNCHANGED <<lastclientnode, clientnodesregistered, nextclientnode, ctrl, loaded, reply>>
    BY <1>0, <1>4 DEF TestEmpty, At, Goto, nodecontrol
  <2>2. QED
    BY <1>0, <1>1, <2>1, QuietStep
<1>5. CASE SetFirst(r)
  <2>1. pc[r] = "first" /\ pc'[r] = "last"
        /\ UNCHANGED <<lastclientnode, clientnodesregistered, nextclientnode, ctrl, loaded, reply>>
    BY <1>0, <1>5 DEF SetFirst, At, Goto, local
  <2>2. QED
    BY <1>0, <1>1, <2>1, QuietStep
<1>6. CASE Walk(r)
  <2>1. pc[r] = "walk" /\ pc'[r] \in {"walk", "load", "status"}
        /\ reply'[r] \in {reply[r], "registred"}
        /\ UNCHANGED <<lastclientnode, clientnodesregistered, nextclientnode, loaded>>
    BY <1>0, <1>6 DEF Walk, At, Goto, nodecontrol, ThreadInv, Typed
  <2>2. QED
    BY <1>0, <1>1, <2>1, QuietStep
<1>7. CASE LoadLast(r)
  <2>1. pc[r] = "load" /\ pc'[r] = "link" /\ loaded'[r] = lastclientnode
        /\ UNCHANGED <<lastclientnode, clientnodesregistered, nextclientnode, ctrl, reply>>
    BY <1>0, <1>7 DEF LoadLast, At, Goto, nodecontrol, ThreadInv, Typed
  <2>2. QED
    BY <1>0, <1>1, <2>1, QuietStep
<1>8. CASE LinkNull(r)
  <2>1. pc' = pc
        /\ UNCHANGED <<lastclientnode, clientnodesregistered, nextclientnode, ctrl, loaded, reply>>
        /\ pc[r] = "link"
    BY <1>8 DEF LinkNull, At, nodecontrol, local
  <2>2. QED
    BY <1>0, <1>1, <2>1, QuietStep
<1>9. CASE SetPrevious(r)
  <2>1. pc[r] = "previous" /\ pc'[r] = "append"
        /\ UNCHANGED <<lastclientnode, clientnodesregistered, nextclientnode, ctrl, loaded, reply>>
    BY <1>0, <1>9 DEF SetPrevious, At, Goto, local
  <2>2. QED
    BY <1>0, <1>1, <2>1, QuietStep
<1>10. CASE LoadCount(r)
  <2>1. pc[r] = "count" /\ pc'[r] = "store" /\ loaded'[r] = clientnodesregistered
        /\ UNCHANGED <<lastclientnode, clientnodesregistered, nextclientnode, ctrl, reply>>
    BY <1>0, <1>10 DEF LoadCount, At, Goto, nodecontrol, ThreadInv, Typed
  <2>2. QED
    BY <1>0, <1>1, <2>1, QuietStep
<1>11. CASE SetStatus(r)
  <2>1. pc[r] = "status" /\ pc'[r] = "done"
        /\ UNCHANGED <<lastclientnode, clientnodesregistered, nextclientnode, ctrl, loaded, reply>>
    BY <1>0, <1>11 DEF SetStatus, At, Goto, nodecontrol, local
  <2>2. QED
    BY <1>0, <1>1, <2>1, QuietStep
<1>12. QED
  BY <1>2, <1>3, <1>4, <1>5, <1>6, <1>7, <1>8, <1>9, <1>10, <1>11,
     SetLastPreserves, LinkNextPreserves, StoreCountPreserves DEF Step

THEOREM ThreadInvariant == Spec => []ThreadInv
<1>1. Init => ThreadInv
  <2> SUFFICES ASSUME Init
               PROVE  ThreadInv
    OBVIOUS
  <2>1. Added = {} /\ Past = {}
    BY DEF Init, Added, Past
  <2>2. Typed
    <3>1. "idle" \in PC
      BY DEF PC
    <3>2. QED
      BY <3>1 DEF Init, Typed, Pointer
  <2>3. Located /\ Counted
    BY <2>1, FS_EmptySet DEF Init, Located, Counted
  <2>4. Acyclic
    <3>1. InOrderOf([r \in Requests |-> 0])
      BY DEF Init, InOrderOf
    <3>2. [r \in Requests |-> 0] \in [Requests -> 0..0] /\ 0 \in Nat
      OBVIOUS
    <3>3. QED
      BY <3>1, <3>2 DEF Acyclic
  <2>5. QED
    BY <2>2, <2>3, <2>4 DEF ThreadInv
<1>2. ThreadInv /\ [Next]_vars => ThreadInv'
  <2> SUFFICES ASSUME ThreadInv, [Next]_vars
               PROVE  ThreadInv'
    OBVIOUS
  <2>1. CASE UNCHANGED vars
    <3>1. /\ UNCHANGED <<serial, firstclientnode, lastclientnode, clientnodesregistered,
                         nextclientnode, previousclientnode>>
          /\ UNCHANGED <<globalmodelstatus, pc, clientnode, ctrl, loaded, reply, up>>
      BY <2>1 DEF vars, nodecontrol, local
    <3>2. Added' = Added
      BY <3>1 DEF Added
    <3>3. Past' = Past
      BY <3>1, <3>2 DEF Past
    <3>4. Typed' /\ Located'
      BY <3>1, <3>3 DEF ThreadInv, Typed, Located
    <3>5. Counted'
      BY <3>1, <3>2, AddedIsFinite DEF ThreadInv, Counted
    <3>6. \A rank : InOrderOf(rank) => InOrderOf(rank)'
      BY <3>1, <3>3 DEF InOrderOf
    <3>7. Acyclic'
      BY <3>6 DEF ThreadInv, Acyclic
    <3>8. QED
      BY <3>4, <3>5, <3>7 DEF ThreadInv
  <2>2. ASSUME NEW r \in Requests, Step(r)
        PROVE  ThreadInv'
    BY <2>2, StepPreserves
  <2>3. QED
    BY <2>1, <2>2 DEF Next
<1>3. QED
  BY <1>1, <1>2, PTL DEF Spec

(* However the threads interleave every variable keeps its type; the       *)
(* counter, which two threads may load before either stores it, never      *)
(* passes the number of the requests.                                      *)
THEOREM TypeCorrect == Spec => []TypeOK
<1>1. ThreadInv => TypeOK
  <2> SUFFICES ASSUME ThreadInv
               PROVE  TypeOK
    OBVIOUS
  <2>0. clientnodesregistered \in Nat /\ clientnodesregistered <= Cardinality(Added)
    BY DEF ThreadInv, Typed, Counted
  <2>1. clientnodesregistered \in 0..Size
    BY <2>0, AddedIsFinite, SizeIsNatural
  <2>2. lastclientnode \in Pointer
    BY PastIsTyped DEF ThreadInv, Typed
  <2>3. QED
    BY <2>1, <2>2 DEF ThreadInv, Typed, TypeOK, Size
<1>2. QED
  BY <1>1, ThreadInvariant, PTL

(* However the threads interleave, even where they lose nodes of each      *)
(* other, the list has no cycle: every walk along it ends.                 *)
THEOREM EveryWalkEnds == Spec => []WalksEnd
<1>1. ThreadInv => WalksEnd
  <2> SUFFICES ASSUME ThreadInv
               PROVE  NodeAt[Size] = NULL
    BY DEF WalksEnd, Size
  <2>0. PICK n \in Nat : \E rank \in [Requests -> 0..n] : InOrderOf(rank)
    BY DEF ThreadInv, Acyclic
  <2>1. PICK rank \in [Requests -> 0..n] : InOrderOf(rank)
    BY <2>0
  <2>2. rank \in [Requests -> Nat]
    OBVIOUS
  <2>3. /\ firstclientnode \in Pointer
        /\ nextclientnode \in [Requests -> Pointer]
    BY DEF ThreadInv, Typed
  <2>4. \A a \in Requests : nextclientnode[a] # NULL =>
          /\ a \in Past
          /\ nextclientnode[a] \in Past => rank[a] < rank[nextclientnode[a]]
    <3>1. \A a \in Past : pc[a] \notin {"previous", "append"}
      BY DEF Past, Added, ThreadInv, Located
    <3>2. QED
      BY <2>1, <3>1 DEF InOrderOf
  <2>5. Path(firstclientnode, nextclientnode)[Size] = NULL
    BY <2>2, <2>3, <2>4, WalkEnds
  <2>6. QED
    BY <2>5, PathIsWalk
<1>2. QED
  BY <1>1, ThreadInvariant, PTL
-----------------------------------------------------------------------------
(* What holds when requests come one after the other.                      *)

(* The list is the n nodes of s, of different devices, linked forwards. *)
Linked(n, s) ==
    /\ n <= ClientNodes
    /\ firstclientnode = IF n = 0 THEN NULL ELSE s[1]
    /\ \A i \in 1..n : nextclientnode[s[i]] = IF i = n THEN NULL ELSE s[i + 1]
    /\ \A r \in Requests : (\A i \in 1..n : s[i] # r) => nextclientnode[r] = NULL
    /\ \A i, j \in 1..n : IpOf[s[i]] = IpOf[s[j]] => i = j

(* The thread of r is adding its node, or has added it. *)
Joining(r) == pc[r] \in {"last", "previous", "append", "count", "store"}
Joined(r) == pc[r] \in {"status", "done"}

(* The threads of the nodes have added them, except perhaps that of the    *)
(* last, and they are linked backwards.                                    *)
Settled(n, s) ==
    \A i \in 1..n :
      /\ Joined(s[i]) \/ (i = n /\ Joining(s[i]))
      /\ i > 1 /\ pc[s[i]] # "previous" => previousclientnode[s[i]] = s[i - 1]

(* While no node is being added the last node and the counter are right. *)
Rest(n, s) ==
    (\A r \in Requests : ~Joining(r)) =>
      /\ clientnodesregistered = n
      /\ lastclientnode = IF n = 0 THEN NULL ELSE s[n]

(* What the thread of r knows of the list when it is there. *)
Knows(n, s, r) ==
    /\ pc[r] \in {"empty", "first", "walk", "load", "link"} => n < ClientNodes
    /\ pc[r] = "first" => n = 0
    /\ pc[r] \in {"walk", "load", "link"} => n > 0
    /\ pc[r] = "walk" /\ ctrl[r] # 0 =>
         \E k \in 1..n + 1 :
           /\ clientnode[r] = IF k = n + 1 THEN NULL ELSE s[k]
           /\ \A i \in 1..k - 1 : IpOf[s[i]] # IpOf[r]
    /\ pc[r] \in {"load", "link"} => \A i \in 1..n : IpOf[s[i]] # IpOf[r]
    /\ pc[r] = "link" => loaded[r] = s[n]

(* How far the thread of r has come with adding its node. *)
Adds(n, s, r) ==
    Joining(r) =>
      /\ n > 0 /\ r = s[n]
      /\ clientnodesregistered = n - 1
      /\ lastclientnode = IF pc[r] \in {"count", "store"} THEN r
                          ELSE IF n = 1 THEN NULL ELSE s[n - 1]
      /\ pc[r] \in {"previous", "append"} => n > 1
      /\ pc[r] = "last" => n = 1
      /\ pc[r] = "store" => loaded[r] = n - 1

SoundAs(n, s) ==
    /\ Linked(n, s)
    /\ Settled(n, s)
    /\ Rest(n, s)
    /\ \A r \in Requests : Knows(n, s, r) /\ Adds(n, s, r)

SerialInv ==
    serial =>
      /\ up
      /\ \A q, r \in Requests : Running(q) /\ Running(r) => q = r
      /\ \E n \in Nat : \E s \in [1..n -> Requests] : SoundAs(n, s)

(* What is to be shown of a step of r. *)
LEMMA SerialStep ==
    ASSUME Typed, serial, NEW r \in Requests, Moves(r), up',
           \A q \in Requests : q # r => ~Running(q),
           NEW n \in Nat, NEW s \in [1..n -> Requests],
           Linked(n, s)', Settled(n, s)', Rest(n, s)',
           Knows(n, s, r)', Adds(n, s, r)'
    PROVE  SerialInv'
<1>1. \A q \in Requests : q # r => pc'[q] \in {"idle", "done"}
  BY DEF Moves, Running
<1>2. \A q \in Requests : q # r => Knows(n, s, q)' /\ Adds(n, s, q)'
  BY <1>1 DEF Knows, Adds, Joining
<1>3. SoundAs(n, s)'
  BY <1>2 DEF SoundAs
<1>4. \A p, q \in Requests : Running(p)' /\ Running(q)' => p = q
  BY <1>1 DEF Running
<1>5. QED
  BY <1>3, <1>4 DEF SerialInv

(* A step of r that changes neither the list nor what is stored about it.  *)
LEMMA QuietSerialStep ==
    ASSUME Typed, serial, NEW r \in Requests, Moves(r), up',
           \A q \in Requests : q # r => ~Running(q),
           NEW n \in Nat, NEW s \in [1..n -> Requests], SoundAs(n, s),
           UNCHANGED <<firstclientnode, lastclientnode, clientnodesregistered,
                       nextclientnode, previousclientnode>>,
           ~Joining(r), ~Joining(r)', Joined(r) => Joined(r)',
           Knows(n, s, r)'
    PROVE  SerialInv'
<1>1. Linked(n, s)'
  BY DEF SoundAs, Linked
<1>2. Settled(n, s)'
  <2> SUFFICES ASSUME NEW i \in 1..n
               PROVE  /\ Joined(s[i])'
                      /\ i > 1 => previousclientnode[s[i]] = s[i - 1]
    BY DEF Settled
  <2>1. /\ Joined(s[i]) \/ (i = n /\ Joining(s[i]))
        /\ i > 1 /\ pc[s[i]] # "previous" => previousclientnode[s[i]] = s[i - 1]
    BY DEF SoundAs, Settled
  <2>2. ~Joining(s[i])
    BY DEF Running, Joining
  <2>3. Joined(s[i])'
    BY <2>1, <2>2 DEF Joined, Moves
  <2>4. QED
    BY <2>1, <2>2, <2>3 DEF Joining
<1>3. \A q \in Requests : ~Joining(q) /\ ~Joining(q)'
  BY DEF Running, Joining, Moves
<1>4. Rest(n, s)' /\ Adds(n, s, r)'
  BY <1>3 DEF SoundAs, Rest, Adds
<1>5. QED
  BY <1>1, <1>2, <1>4, SerialStep

(* A step of r while its node is the last one of the list.                 *)
LEMMA JoiningSerialStep ==
    ASSUME Typed, serial, NEW r \in Requests, Moves(r), up',
           \A q \in Requests : q # r => ~Running(q),
           NEW n \in Nat, NEW s \in [1..n -> Requests], SoundAs(n, s),
           UNCHANGED <<firstclientnode, nextclientnode>>,
           Joining(r), Joining(r)' \/ Joined(r)',
           \A q \in Requests : q # r => previousclientnode'[q] = previousclientnode[q],
           n > 1 /\ pc'[r] # "previous" =>
             previousclientnode'[r] = s[n - 1],
           Joined(r)' => clientnodesregistered' = n /\ lastclientnode' = r,
           Adds(n, s, r)'
    PROVE  SerialInv'
<1>1. Linked(n, s)'
  BY DEF SoundAs, Linked
<1>2. n > 0 /\ r = s[n] /\ n \in 1..n
  BY DEF SoundAs, Adds
<1>3. \A i \in 1..n : s[i] = r => i = n
  BY <1>2 DEF SoundAs, Linked
<1>4. Settled(n, s)'
  <2> SUFFICES ASSUME NEW i \in 1..n
               PROVE  /\ Joined(s[i])' \/ (i = n /\ Joining(s[i])')
                      /\ i > 1 /\ pc'[s[i]] # "previous" =>
                           previousclientnode'[s[i]] = s[i - 1]
    BY DEF Settled
  <2>1. CASE i = n
    BY <1>2, <2>1
  <2>2. CASE i # n
    <3>1. s[i] # r /\ s[i] \in Requests
      BY <1>3, <2>2
    <3>2. pc'[s[i]] = pc[s[i]] /\ previousclientnode'[s[i]] = previousclientnode[s[i]]
      BY <3>1 DEF Moves
    <3>3. Joined(s[i]) /\ (i > 1 => previousclientnode[s[i]] = s[i - 1])
      BY <2>2 DEF SoundAs, Settled, Joined
    <3>4. QED
      BY <3>2, <3>3 DEF Joined
  <2>3. QED
    BY <2>1, <2>2
<1>5. Rest(n, s)'
  BY <1>2 DEF Rest
<1>6. Knows(n, s, r)'
  BY DEF Knows, Joining, Joined
<1>7. QED
  BY <1>1, <1>4, <1>5, <1>6, SerialStep

(* The first node of the list: it is that of the first client. *)
LEMMA SetFirstJoins ==
    ASSUME ThreadInv, serial, up, NEW r \in Requests, SetFirst(r),
           \A q \in Requests : q # r => ~Running(q),
           NEW n \in Nat, NEW s \in [1..n -> Requests], SoundAs(n, s)
    PROVE  /\ SerialInv'
           /\ n = 0 /\ Linked(1, [i \in 1..1 |-> r])'
           /\ clientnodesregistered' = 0 /\ clientnodesregistered = 0
<1> DEFINE t == [i \in 1..1 |-> r]
<1>1. Moves(r) /\ Typed
  BY StepMoves DEF ThreadInv, Step
<1>2. /\ pc[r] = "first" /\ pc'[r] = "last" /\ firstclientnode' = r
      /\ UNCHANGED <<lastclientnode, clientnodesregistered, nextclientnode,
                     previousclientnode, up>>
  BY <1>1 DEF SetFirst, At, Goto, Typed
<1>3. n = 0
  BY <1>2 DEF SoundAs, Knows
<1>4. \A q \in Requests : ~Joining(q)
  BY <1>2 DEF Joining, Running
<1>5. clientnodesregistered = 0 /\ lastclientnode = NULL
  BY <1>3, <1>4 DEF SoundAs, Rest
<1>6. \A q \in Requests : nextclientnode[q] = NULL
  BY <1>3 DEF SoundAs, Linked
<1>7. t \in [1..1 -> Requests] /\ t[1] = r /\ 1 \in Nat
  OBVIOUS
<1> HIDE DEF t
<1>8. Linked(1, t)'
  BY <1>2, <1>6, <1>7 DEF Linked
<1>9. Settled(1, t)'
  BY <1>2, <1>7 DEF Settled, Joining
<1>10. Rest(1, t)' /\ Knows(1, t, r)' /\ Adds(1, t, r)'
  BY <1>2, <1>5, <1>7 DEF Rest, Knows, Adds, Joining
<1>11. SerialInv'
  BY <1>1, <1>2, <1>7, <1>8, <1>9, <1>10, SerialStep
<1>12. QED
  BY <1>2, <1>3, <1>5, <1>8, <1>11 DEF t

(* A further node: it is that of a client that has none. *)
LEMMA LinkNextJoins ==
    ASSUME ThreadInv, serial, up, NEW r \in Requests, LinkNext(r),
           \A q \in Requests : q # r => ~Running(q),
           NEW n \in Nat, NEW s \in [1..n -> Requests], SoundAs(n, s)
    PROVE  /\ SerialInv'
           /\ Linked(n + 1, [i \in 1..n + 1 |-> IF i = n + 1 THEN r ELSE s[i]])'
           /\ n < ClientNodes /\ \A i \in 1..n : IpOf[s[i]] # IpOf[r]
           /\ clientnodesregistered' = n /\ clientnodesregistered = n
<1> DEFINE t == [i \in 1..n + 1 |-> IF i = n + 1 THEN r ELSE s[i]]
<1>1. Moves(r) /\ Typed
  BY StepMoves DEF ThreadInv, Step
<1>2. /\ pc[r] = "link" /\ pc'[r] = "previous"
      /\ nextclientnode' = [nextclientnode EXCEPT ![loaded[r]] = r]
      /\ UNCHANGED <<firstclientnode, lastclientnode, clientnodesregistered,
                     previousclientnode, up>>
  BY <1>1 DEF LinkNext, At, Goto, Typed
<1>3. /\ n > 0 /\ n < ClientNodes /\ loaded[r] = s[n]
      /\ \A i \in 1..n : IpOf[s[i]] # IpOf[r]
  BY <1>2 DEF SoundAs, Knows
<1>4. \A q \in Requests : ~Joining(q)
  BY <1>2 DEF Joining, Running
<1>5. clientnodesregistered = n /\ lastclientnode = s[n]
  BY <1>3, <1>4 DEF SoundAs, Rest
<1>6. /\ t \in [1..n + 1 -> Requests] /\ t[n + 1] = r /\ n + 1 \in Nat
      /\ \A i \in 1..n : t[i] = s[i] /\ s[i] # r /\ i # n + 1 /\ i \in 1..n + 1
      /\ \A i \in 1..n + 1 : i # n + 1 => i \in 1..n
      /\ n \in 1..n /\ n + 1 # 0
  BY <1>3
<1> HIDE DEF t
<1>7. Linked(n + 1, t)'
  <2>1. n + 1 <= ClientNodes
    BY <1>3
  <2>2. firstclientnode' = t[1]
    BY <1>2, <1>3, <1>6 DEF SoundAs, Linked
  <2>3. /\ \A i, j \in 1..n : IpOf[s[i]] = IpOf[s[j]] => i = j
        /\ \A i \in 1..n : nextclientnode[s[i]] = IF i = n THEN NULL ELSE s[i + 1]
        /\ \A q \in Requests : (\A i \in 1..n : s[i] # q) => nextclientnode[q] = NULL
    BY DEF SoundAs, Linked
  <2>4. /\ nextclientnode'[s[n]] = r
        /\ \A q \in Requests : q # s[n] => nextclientnode'[q] = nextclientnode[q]
    BY <1>1, <1>2, <1>3, <1>6 DEF Typed
  <2>5. \A i \in 1..n + 1 : nextclientnode'[t[i]] = IF i = n + 1 THEN NULL ELSE t[i + 1]
    <3>1. ASSUME NEW i \in 1..n, i # n
          PROVE  nextclientnode'[t[i]] = t[i + 1]
      <4>1. s[i] # s[n] /\ s[i] \in Requests /\ i + 1 \in 1..n
        BY <1>6, <2>3, <3>1
      <4>2. QED
        BY <1>6, <2>3, <2>4, <3>1, <4>1
    <3>2. nextclientnode'[t[n]] = t[n + 1]
      BY <1>6, <2>4
    <3>3. nextclientnode'[r] = NULL
      BY <1>6, <2>3, <2>4
    <3>4. QED
      BY <1>6, <3>1, <3>2, <3>3
  <2>6. \A q \in Requests : (\A i \in 1..n + 1 : t[i] # q) => nextclientnode'[q] = NULL
    <3> SUFFICES ASSUME NEW q \in Requests, \A i \in 1..n + 1 : t[i] # q
                 PROVE  nextclientnode'[q] = NULL
      OBVIOUS
    <3>1. \A i \in 1..n : s[i] # q
      BY <1>6
    <3>2. QED
      BY <1>6, <2>3, <2>4, <3>1
  <2>7. \A i, j \in 1..n + 1 : IpOf[t[i]] = IpOf[t[j]] => i = j
    BY <1>3, <1>6, <2>3
  <2>8. QED
    BY <1>6, <2>1, <2>2, <2>5, <2>6, <2>7 DEF Linked
<1>8. Settled(n + 1, t)'
  <2> SUFFICES ASSUME NEW i \in 1..n + 1
               PROVE  /\ Joined(t[i])' \/ (i = n + 1 /\ Joining(t[i])')
                      /\ i > 1 /\ pc'[t[i]] # "previous" =>
                           previousclientnode'[t[i]] = t[i - 1]
    BY DEF Settled
  <2>1. CASE i = n + 1
    BY <1>2, <1>6, <2>1 DEF Joining
  <2>2. CASE i # n + 1
    <3>1. i \in 1..n /\ t[i] = s[i] /\ s[i] # r /\ s[i] \in Requests
      BY <1>6, <2>2
    <3>2. i > 1 => i - 1 \in 1..n /\ t[i - 1] = s[i - 1]
      BY <1>6, <3>1
    <3>3. /\ Joined(s[i]) \/ (i = n /\ Joining(s[i]))
          /\ i > 1 /\ pc[s[i]] # "previous" => previousclientnode[s[i]] = s[i - 1]
      BY <3>1 DEF SoundAs, Settled
    <3>4. pc'[s[i]] = pc[s[i]] /\ ~Joining(s[i])
      BY <1>1, <1>4, <3>1 DEF Moves
    <3>5. Joined(s[i]) /\ pc[s[i]] # "previous"
      BY <3>3, <3>4 DEF Joined
    <3>6. QED
      BY <1>2, <3>1, <3>2, <3>3, <3>4, <3>5 DEF Joined
  <2>3. QED
    BY <2>1, <2>2
<1>9. Rest(n + 1, t)' /\ Knows(n + 1, t, r)'
  BY <1>2 DEF Rest, Knows, Joining
<1>10. Adds(n + 1, t, r)'
  <2>1. (n + 1) - 1 = n /\ n + 1 > 1 /\ t[n] = s[n]
    BY <1>3, <1>6
  <2>2. QED
    BY <1>2, <1>5, <1>6, <2>1 DEF Adds, Joining
<1>11. SerialInv'
  BY <1>1, <1>2, <1>6, <1>7, <1>8, <1>9, <1>10, SerialStep
<1>12. QED
  BY <1>2, <1>3, <1>5, <1>7, <1>11 DEF t

LEMMA SerialPreserved ==
    ASSUME ThreadInv, SerialInv, serial, NEW r \in Requests, Step(r)
    PROVE  SerialInv'
<1>1. Moves(r) /\ Typed /\ up
  BY StepMoves DEF ThreadInv, SerialInv
<1>2. \A q \in Requests : q # r => ~Running(q)
  <2>1. CASE Running(r)
    BY <2>1 DEF SerialInv
  <2>2. CASE ~Running(r)
    <3>1. Accept(r)
      BY <2>2
      DEF Running, Step, TestLimit, TestEmpty, SetFirst, SetLast, Walk, LoadLast,
          LinkNext, LinkNull, SetPrevious, LoadCount, StoreCount, SetStatus, At
    <3>2. QED
      BY <3>1 DEF Accept
  <2>3. QED
    BY <2>1, <2>2
<1>3. PICK n \in Nat : \E s \in [1..n -> Requests] : SoundAs(n, s)
  BY DEF SerialInv
<1>4. PICK s \in [1..n -> Requests] : SoundAs(n, s)
  BY <1>3
<1>5. /\ Knows(n, s, r) /\ Adds(n, s, r)
      /\ ~Joining(r) => /\ clientnodesregistered = n
                        /\ lastclientnode = IF n = 0 THEN NULL ELSE s[n]
  BY <1>2, <1>4 DEF SoundAs, Rest, Joining, Running
<1>6. firstclientnode = (IF n = 0 THEN NULL ELSE s[1]) /\ n <= ClientNodes
  BY <1>4 DEF SoundAs, Linked
<1>7. \A i \in 1..n : s[i] \in Requests /\ s[i] # NULL
  OBVIOUS
<1>8. CASE Accept(r)
  <2>1. /\ pc[r] = "idle" /\ pc'[r] = "limit" /\ up'
        /\ UNCHANGED <<firstclientnode, lastclientnode, clientnodesregistered,
                       nextclientnode, previousclientnode>>
    BY <1>1, <1>8 DEF Accept, At, Goto, nodecontrol, Typed
  <2>2. Knows(n, s, r)'
    BY <2>1 DEF Knows
  <2>3. QED
    BY <1>1, <1>2, <1>4, <2>1, <2>2, QuietSerialStep DEF Joining, Joined
<1>9. CASE TestLimit(r)
  <2>1. /\ pc[r] = "limit" /\ pc'[r] \in {"status", "empty"} /\ up'
        /\ pc'[r] = "empty" => clientnodesregistered # ClientNodes
        /\ UNCHANGED <<firstclientnode, lastclientnode, clientnodesregistered,
                       nextclientnode, previousclientnode>>
    BY <1>1, <1>9 DEF TestLimit, At, Goto, nodecontrol, Typed
  <2>2. pc'[r] = "empty" => n < ClientNodes
    BY <1>5, <1>6, <2>1 DEF Joining
  <2>3. Knows(n, s, r)'
    BY <2>1, <2>2 DEF Knows
  <2>4. QED
    BY <1>1, <1>2, <1>4, <2>1, <2>3, QuietSerialStep DEF Joining, Joined
<1>10. CASE TestEmpty(r)
  <2>1. /\ pc[r] = "empty" /\ up'
        /\ pc'[r] = IF firstclientnode = NULL THEN "first" ELSE "walk"
        /\ clientnode'[r] = firstclientnode
        /\ UNCHANGED <<firstclientnode, lastclientnode, clientnodesregistered,
                       nextclientnode, previousclientnode>>
    BY <1>1, <1>10 DEF TestEmpty, At, Goto, nodecontrol, Typed
  <2>2. n < ClientNodes /\ (pc'[r] = "first" <=> n = 0)
    BY <1>5, <1>6, <1>7, <2>1 DEF Knows
  <2>3. n > 0 => /\ 1 \in 1..n + 1 /\ 1 # n + 1 /\ clientnode'[r] = s[1]
                 /\ \A i \in 1..1 - 1 : FALSE
    BY <1>6, <2>1
  <2>4. Knows(n, s, r)'
    BY <2>1, <2>2, <2>3 DEF Knows
  <2>5. QED
    BY <1>1, <1>2, <1>4, <2>1, <2>4, QuietSerialStep DEF Joining, Joined
<1>11. CASE SetFirst(r)
  BY <1>1, <1>2, <1>4, <1>11, SetFirstJoins
<1>12. CASE SetLast(r)
  <2>1. /\ pc[r] \in {"last", "append"} /\ pc'[r] = "count" /\ up'
        /\ lastclientnode' = r
        /\ UNCHANGED <<firstclientnode, clientnodesregistered,
                       nextclientnode, previousclientnode>>
    BY <1>1, <1>12 DEF SetLast, Goto, Typed
  <2>2. Joining(r) /\ Joining(r)' /\ ~Joined(r)'
    BY <2>1 DEF Joining, Joined
  <2>3. Adds(n, s, r)'
    BY <1>5, <2>1, <2>2 DEF Adds
  <2>4. n > 1 => previousclientnode[r] = s[n - 1]
    <3>1. r = s[n] /\ (n > 1 => n \in 1..n)
      BY <1>5, <2>2 DEF Adds
    <3>2. QED
      BY <1>4, <2>1, <3>1 DEF SoundAs, Settled
  <2>5. QED
    BY <1>1, <1>2, <1>4, <2>1, <2>2, <2>3, <2>4, JoiningSerialStep
<1>13. CASE Walk(r)
  <2>1. /\ pc[r] = "walk" /\ up'
        /\ UNCHANGED <<firstclientnode, lastclientnode, clientnodesregistered,
                       nextclientnode, previousclientnode>>
        /\ pc'[r] \in {"walk", "load", "status"}
    BY <1>1, <1>13 DEF Walk, At, Goto, nodecontrol, Typed
  <2>2. n < ClientNodes /\ n > 0
    BY <1>5, <2>1 DEF Knows
  <2>3. ctrl[r] # 0 =>
          \E k \in 1..n + 1 :
            /\ clientnode[r] = IF k = n + 1 THEN NULL ELSE s[k]
            /\ \A i \in 1..k - 1 : IpOf[s[i]] # IpOf[r]
    BY <1>5, <2>1 DEF Knows
  <2>4. Knows(n, s, r)'
    <3>1. CASE clientnode[r] = NULL
      <4>1. pc'[r] = (IF ctrl[r] # 0 THEN "load" ELSE "status")
        BY <1>1, <1>13, <3>1 DEF Walk, Goto, Typed
      <4>2. ctrl[r] # 0 => \A i \in 1..n : IpOf[s[i]] # IpOf[r]
        <5> SUFFICES ASSUME ctrl[r] # 0
                     PROVE  \A i \in 1..n : IpOf[s[i]] # IpOf[r]
          OBVIOUS
        <5>1. PICK k \in 1..n + 1 :
                /\ clientnode[r] = IF k = n + 1 THEN NULL ELSE s[k]
                /\ \A i \in 1..k - 1 : IpOf[s[i]] # IpOf[r]
          BY <2>3
        <5>2. k = n + 1 /\ k - 1 = n
          BY <1>7, <3>1, <5>1
        <5>3. QED
          BY <5>1, <5>2
      <4>3. QED
        BY <2>2, <4>1, <4>2 DEF Knows
    <3>2. CASE clientnode[r] # NULL
      <4>1. /\ pc'[r] = "walk" /\ clientnode'[r] = nextclientnode[clientnode[r]]
            /\ ctrl'[r] # 0 => ctrl[r] # 0 /\ IpOf[clientnode[r]] # IpOf[r]
        BY <1>1, <1>13, <2>1, <3>2 DEF Walk, Typed
      <4>2. ASSUME ctrl'[r] # 0
            PROVE  \E k \in 1..n + 1 :
                     /\ clientnode'[r] = IF k = n + 1 THEN NULL ELSE s[k]
                     /\ \A i \in 1..k - 1 : IpOf[s[i]] # IpOf[r]
        <5>1. PICK k \in 1..n + 1 :
                /\ clientnode[r] = IF k = n + 1 THEN NULL ELSE s[k]
                /\ \A i \in 1..k - 1 : IpOf[s[i]] # IpOf[r]
          BY <2>3, <4>1, <4>2
        <5>2. k \in 1..n /\ clientnode[r] = s[k] /\ IpOf[s[k]] # IpOf[r]
          BY <3>2, <4>1, <4>2, <5>1
        <5>3. nextclientnode[s[k]] = IF k = n THEN NULL ELSE s[k + 1]
          BY <1>4, <5>2 DEF SoundAs, Linked
        <5>4. /\ k + 1 \in 1..n + 1 /\ (k + 1 = n + 1 <=> k = n)
              /\ \A i \in 1..(k + 1) - 1 : i \in 1..k - 1 \/ i = k
          BY <5>2
        <5>5. clientnode'[r] = IF k + 1 = n + 1 THEN NULL ELSE s[k + 1]
          BY <4>1, <5>2, <5>3, <5>4
        <5>6. \A i \in 1..(k + 1) - 1 : IpOf[s[i]] # IpOf[r]
          BY <5>1, <5>2, <5>4
        <5>7. QED
          BY <5>4, <5>5, <5>6
      <4>3. QED
        BY <2>2, <4>1, <4>2 DEF Knows
    <3>3. QED
      BY <3>1, <3>2
  <2>5. QED
    BY <1>1, <1>2, <1>4, <2>1, <2>4, QuietSerialStep DEF Joining, Joined
<1>14. CASE LoadLast(r)
  <2>1. /\ pc[r] = "load" /\ pc'[r] = "link" /\ up' /\ loaded'[r] = lastclientnode
        /\ UNCHANGED <<firstclientnode, lastclientnode, clientnodesregistered,
                       nextclientnode, previousclientnode>>
    BY <1>1, <1>14 DEF LoadLast, At, Goto, nodecontrol, Typed
  <2>2. loaded'[r] = s[n]
    BY <1>5, <2>1 DEF Joining, Knows
  <2>3. Knows(n, s, r)'
    BY <1>5, <2>1, <2>2 DEF Knows
  <2>4. QED
    BY <1>1, <1>2, <1>4, <2>1, <2>3, QuietSerialStep DEF Joining, Joined
<1>15. CASE LinkNext(r)
  BY <1>1, <1>2, <1>4, <1>15, LinkNextJoins
<1>16. CASE LinkNull(r)
  BY <1>5, <1>7, <1>16 DEF LinkNull, At, Knows
<1>17. CASE SetPrevious(r)
  <2>1. /\ pc[r] = "previous" /\ pc'[r] = "append" /\ up'
        /\ previousclientnode' = [previousclientnode EXCEPT ![r] = lastclientnode]
        /\ UNCHANGED <<firstclientnode, lastclientnode, clientnodesregistered, nextclientnode>>
    BY <1>1, <1>17 DEF SetPrevious, At, Goto, Typed
  <2>2. Joining(r) /\ Joining(r)' /\ ~Joined(r)'
    BY <2>1 DEF Joining, Joined
  <2>3. Adds(n, s, r)' /\ (n > 1 => lastclientnode = s[n - 1])
    BY <1>5, <2>1, <2>2 DEF Adds
  <2>4. /\ \A q \in Requests : q # r => previousclientnode'[q] = previousclientnode[q]
        /\ previousclientnode'[r] = lastclientnode
    BY <1>1, <2>1 DEF Typed
  <2>5. QED
    BY <1>1, <1>2, <1>4, <2>1, <2>2, <2>3, <2>4, JoiningSerialStep
<1>18. CASE LoadCount(r)
  <2>1. /\ pc[r] = "count" /\ pc'[r] = "store" /\ up'
        /\ loaded'[r] = clientnodesregistered
        /\ UNCHANGED <<firstclientnode, lastclientnode, clientnodesregistered,
                       nextclientnode, previousclientnode>>
    BY <1>1, <1>18 DEF LoadCount, At, Goto, nodecontrol, Typed
  <2>2. Joining(r) /\ Joining(r)' /\ ~Joined(r)'
    BY <2>1 DEF Joining, Joined
  <2>3. Adds(n, s, r)'
    BY <1>5, <2>1, <2>2 DEF Adds
  <2>4. n > 1 => previousclientnode[r] = s[n - 1]
    <3>1. r = s[n] /\ (n > 1 => n \in 1..n)
      BY <1>5, <2>2 DEF Adds
    <3>2. QED
      BY <1>4, <2>1, <3>1 DEF SoundAs, Settled
  <2>5. QED
    BY <1>1, <1>2, <1>4, <2>1, <2>2, <2>3, <2>4, JoiningSerialStep
<1>19. CASE StoreCount(r)
  <2>1. /\ pc[r] = "store" /\ pc'[r] = "status" /\ up'
        /\ clientnodesregistered' = loaded[r] + 1
        /\ UNCHANGED <<firstclientnode, lastclientnode,
                       nextclientnode, previousclientnode>>
    BY <1>1, <1>19 DEF StoreCount, At, Goto, Typed
  <2>2. Joining(r) /\ Joined(r)'
    BY <2>1 DEF Joining, Joined
  <2>3. /\ Adds(n, s, r)'
        /\ clientnodesregistered' = n /\ lastclientnode' = r
    BY <1>5, <2>1, <2>2 DEF Adds, Joining
  <2>4. n > 1 => previousclientnode[r] = s[n - 1]
    <3>1. r = s[n] /\ (n > 1 => n \in 1..n)
      BY <1>5, <2>2 DEF Adds
    <3>2. QED
      BY <1>4, <2>1, <3>1 DEF SoundAs, Settled
  <2>5. QED
    BY <1>1, <1>2, <1>4, <2>1, <2>2, <2>3, <2>4, JoiningSerialStep
<1>20. CASE SetStatus(r)
  <2>1. /\ pc[r] = "status" /\ pc'[r] = "done" /\ up'
        /\ UNCHANGED <<firstclientnode, lastclientnode, clientnodesregistered,
                       nextclientnode, previousclientnode>>
    BY <1>1, <1>20 DEF SetStatus, At, Goto, nodecontrol, Typed
  <2>2. Knows(n, s, r)'
    BY <2>1 DEF Knows
  <2>3. QED
    BY <1>1, <1>2, <1>4, <2>1, <2>2, QuietSerialStep DEF Joining, Joined
<1>21. QED
  BY <1>8, <1>9, <1>10, <1>11, <1>12, <1>13, <1>14, <1>15, <1>16, <1>17,
     <1>18, <1>19, <1>20 DEF Step

THEOREM SerialInvariant == Spec => [](ThreadInv /\ SerialInv)
<1>1. Init => SerialInv
  <2> SUFFICES ASSUME Init
               PROVE  SerialInv
    OBVIOUS
  <2> DEFINE none == [i \in 1..0 |-> NULL]
  <2>1. none \in [1..0 -> Requests] /\ 0 \in Nat
    OBVIOUS
  <2>2. \A r \in Requests : pc[r] = "idle" /\ ~Joining(r) /\ ~Running(r)
    BY DEF Init, Joining, Running
  <2> HIDE DEF none
  <2>3. Linked(0, none) /\ Settled(0, none) /\ Rest(0, none)
    BY DEF Init, Linked, Settled, Rest
  <2>4. \A r \in Requests : Knows(0, none, r) /\ Adds(0, none, r)
    BY <2>2 DEF Knows, Adds
  <2>5. SoundAs(0, none)
    BY <2>3, <2>4 DEF SoundAs
  <2>6. QED
    BY <2>1, <2>2, <2>5 DEF Init, SerialInv
<1>2. ThreadInv /\ SerialInv /\ [Next]_vars => SerialInv'
  <2> SUFFICES ASSUME ThreadInv, SerialInv, [Next]_vars
               PROVE  SerialInv'
    OBVIOUS
  <2>1. ASSUME NEW r \in Requests, Step(r)
        PROVE  SerialInv'
    <3>1. serial' = serial
      BY <2>1, StepMoves DEF ThreadInv, Moves
    <3>2. CASE serial
      BY <2>1, <3>2, SerialPreserved
    <3>3. CASE ~serial
      BY <3>1, <3>3 DEF SerialInv
    <3>4. QED
      BY <3>2, <3>3
  <2>2. CASE UNCHANGED vars
    <3>1. /\ UNCHANGED <<serial, firstclientnode, lastclientnode, clientnodesregistered,
                         nextclientnode, previousclientnode>>
          /\ UNCHANGED <<globalmodelstatus, pc, clientnode, ctrl, loaded, reply, up>>
      BY <2>2 DEF vars, nodecontrol, local
    <3>2. \A r \in Requests : /\ Joining(r)' = Joining(r) /\ Joined(r)' = Joined(r)
                              /\ Running(r)' = Running(r)
      BY <3>1 DEF Joining, Joined, Running
    <3>3. ASSUME NEW n \in Nat, NEW s \in [1..n -> Requests], SoundAs(n, s)
          PROVE  SoundAs(n, s)'
      <4>1. Linked(n, s)' /\ Rest(n, s)'
        BY <3>1, <3>2, <3>3 DEF SoundAs, Linked, Rest
      <4>2. Settled(n, s)'
        BY <3>1, <3>2, <3>3 DEF SoundAs, Settled
      <4>3. \A r \in Requests : Knows(n, s, r)' /\ Adds(n, s, r)'
        BY <3>1, <3>2, <3>3 DEF SoundAs, Knows, Adds
      <4>4. QED
        BY <4>1, <4>2, <4>3 DEF SoundAs
    <3>4. QED
      BY <3>1, <3>2, <3>3 DEF SerialInv
  <2>3. QED
    BY <2>1, <2>2 DEF Next
<1>3. QED
  BY <1>1, <1>2, ThreadInvariant, PTL DEF Spec

(* Admission counts as this module does. *)
LEMMA SameCardinality == \A S : Admitting!Cardinality(S) = Cardinality(S)
  BY DEF Cardinality, Admitting!Cardinality

(* The nodes that the walk finds, and their clients, of a list linked as s *)
(* says; before a step and after it.                                       *)
LEMMA ListedAre ==
    ASSUME NEW n \in Nat, NEW s \in [1..n -> Requests]
    PROVE  /\ Linked(n, s) =>
                /\ Listed = Nodes(s, n) /\ Cardinality(Listed) = n
                /\ Members = {IpOf[s[i]] : i \in 1..n} /\ Cardinality(Members) = n
           /\ Linked(n, s)' => Members' = {IpOf[s[i]] : i \in 1..n}
<1>1. ASSUME NEW first, NEW next,
             first = IF n = 0 THEN NULL ELSE s[1],
             \A i \in 1..n : next[s[i]] = IF i = n THEN NULL ELSE s[i + 1],
             \A i, j \in 1..n : IpOf[s[i]] = IpOf[s[j]] => i = j
      PROVE  Found(first, next) = Nodes(s, n)
  <2>1. \A i, j \in 1..n : s[i] = s[j] => i = j
    BY <1>1
  <2>2. QED
    BY <1>1, <2>1, WalkOfList
<1>2. Linked(n, s) => Listed = Nodes(s, n)
  BY <1>1, PathIsWalk DEF Linked, Listed, Found
<1>3. Linked(n, s)' => Listed' = Nodes(s, n)
  <2>1. NodeAt' = Path(firstclientnode', nextclientnode')
    BY DEF NodeAt, Path, Follows, Size
  <2>2. QED
    BY <1>1, <2>1 DEF Linked, Listed, Found
<1>4. {IpOf[m] : m \in Nodes(s, n)} = {IpOf[s[i]] : i \in 1..n}
  BY DEF Nodes
<1>5. Linked(n, s) => Cardinality(Nodes(s, n)) = n
  BY NodesCount DEF Linked
<1>6. Linked(n, s) => Cardinality({IpOf[s[i]] : i \in 1..n}) = n
  <2> DEFINE t == [i \in 1..n |-> IpOf[s[i]]]
  <2>1. t \in [1..n -> Clients] /\ \A i \in 1..n : t[i] = IpOf[s[i]]
    OBVIOUS
  <2>2. Nodes(t, n) = {IpOf[s[i]] : i \in 1..n}
    BY <2>1 DEF Nodes
  <2> HIDE DEF t
  <2>3. Linked(n, s) => \A i, j \in 1..n : t[i] = t[j] => i = j
    BY <2>1 DEF Linked
  <2>4. QED
    BY <2>1, <2>2, <2>3, NodesCount
<1>7. QED
  BY <1>2, <1>3, <1>4, <1>5, <1>6 DEF Members

(* Between requests that do not overlap the list has each device once, is  *)
(* linked both ways and ends with the last node, and the counter is its    *)
(* length.                                                                 *)
THEOREM ListStaysSound == Spec => []ListIsSound
<1>1. ThreadInv /\ SerialInv => ListIsSound
  <2> SUFFICES ASSUME SerialInv, serial, \A r \in Requests : ~Running(r)
               PROVE  /\ clientnodesregistered = Cardinality(Listed)
                      /\ Cardinality(Members) = Cardinality(Listed)
                      /\ \A n \in Listed :
                           /\ nextclientnode[n] = NULL <=> n = lastclientnode
                           /\ nextclientnode[n] # NULL =>
                                previousclientnode[nextclientnode[n]] = n
    BY DEF ListIsSound
  <2>1. PICK n \in Nat : \E s \in [1..n -> Requests] : SoundAs(n, s)
    BY DEF SerialInv
  <2>2. PICK s \in [1..n -> Requests] : SoundAs(n, s)
    BY <2>1
  <2>3. \A r \in Requests : ~Joining(r)
    BY DEF Joining, Running
  <2>4. /\ clientnodesregistered = n
        /\ lastclientnode = IF n = 0 THEN NULL ELSE s[n]
    BY <2>2, <2>3 DEF SoundAs, Rest
  <2>5. /\ Listed = Nodes(s, n) /\ Cardinality(Listed) = n
        /\ Cardinality(Members) = n
    BY <2>2, ListedAre DEF SoundAs
  <2>6. ASSUME NEW i \in 1..n
        PROVE  /\ nextclientnode[s[i]] = NULL <=> s[i] = lastclientnode
               /\ nextclientnode[s[i]] # NULL =>
                    previousclientnode[nextclientnode[s[i]]] = s[i]
    <3>1. /\ nextclientnode[s[i]] = IF i = n THEN NULL ELSE s[i + 1]
          /\ \A j \in 1..n : s[j] = s[i] => j = i
          /\ n # 0 /\ n \in 1..n
      BY <2>2 DEF SoundAs, Linked
    <3>2. CASE i = n
      BY <2>4, <3>1, <3>2
    <3>3. CASE i # n
      <4>1. i + 1 \in 1..n /\ i + 1 > 1 /\ (i + 1) - 1 = i
        BY <3>3
      <4>2. s[i + 1] \in Requests /\ s[i + 1] # NULL /\ pc[s[i + 1]] # "previous"
        BY <2>3, <4>1 DEF Joining
      <4>3. previousclientnode[s[i + 1]] = s[i]
        BY <2>2, <4>1, <4>2 DEF SoundAs, Settled
      <4>4. QED
        BY <2>4, <3>1, <3>3, <4>2, <4>3
    <3>4. QED
      BY <3>2, <3>3
  <2>7. QED
    BY <2>4, <2>5, <2>6 DEF Nodes
<1>2. QED
  BY <1>1, SerialInvariant, PTL

(* One after the other, the requests implement Admission: each step admits *)
(* one client that is not a member yet, while there is room, or opens the  *)
(* training when there are exactly as many as the limit, or does neither.  *)
THEOREM AdmissionIsOneByOne == Spec => AdmitsOneByOne
<1>1. Init => Admitting!Init
  <2> SUFFICES ASSUME Init
               PROVE  Members = {} /\ (clientnodesregistered = ClientNodes) = FALSE
    BY DEF Admitting!Init
  <2> DEFINE none == [i \in 1..0 |-> NULL]
  <2>1. none \in [1..0 -> Requests] /\ 0 \in Nat
    OBVIOUS
  <2>2. Linked(0, none)
    BY DEF Init, Linked
  <2> HIDE DEF none
  <2>3. Members = {IpOf[none[i]] : i \in 1..0}
    BY <2>1, <2>2, ListedAre
  <2>4. QED
    BY <2>3 DEF Init
<1>2. ThreadInv /\ SerialInv /\ [Next]_vars =>
        [serial => Admitting!Next]_(Admitting!vars)
  <2> SUFFICES ASSUME ThreadInv, SerialInv, [Next]_vars, serial
               PROVE  \/ Admitting!Next
                      \/ UNCHANGED <<Members, clientnodesregistered = ClientNodes>>
    BY DEF Admitting!vars
  <2>0. UNCHANGED <<firstclientnode, nextclientnode>> => Members' = Members
    BY DEF Members, Listed, NodeAt
  <2>1. CASE UNCHANGED vars
    BY <2>0, <2>1 DEF vars, nodecontrol
  <2>2. PICK n \in Nat : \E s \in [1..n -> Requests] : SoundAs(n, s)
    BY DEF SerialInv
  <2>3. PICK s \in [1..n -> Requests] : SoundAs(n, s)
    BY <2>2
  <2>4. /\ Members = {IpOf[s[i]] : i \in 1..n} /\ Cardinality(Members) = n
        /\ Linked(n, s) /\ n <= ClientNodes
    BY <2>3, ListedAre DEF SoundAs, Linked
  <2>5. ASSUME NEW r \in Requests, Step(r)
        PROVE  \/ Admitting!Next
               \/ UNCHANGED <<Members, clientnodesregistered = ClientNodes>>
    <3>1. up /\ IpOf[r] \in Clients /\ Typed
      BY DEF SerialInv, ThreadInv
    <3>2. Running(r) => \A q \in Requests : q # r => ~Running(q)
      BY DEF SerialInv
    <3>3. CASE SetFirst(r)
      <4>1. Running(r)
        BY <3>3 DEF SetFirst, At, Running
      <4>2. /\ n = 0 /\ Linked(1, [i \in 1..1 |-> r])'
            /\ clientnodesregistered' = 0 /\ clientnodesregistered = 0
        BY <2>3, <3>1, <3>2, <3>3, <4>1, SetFirstJoins
      <4> DEFINE t == [i \in 1..1 |-> r]
      <4>3. t \in [1..1 -> Requests] /\ \A i \in 1..1 : t[i] = r
        OBVIOUS
      <4> HIDE DEF t
      <4>4. Linked(1, t)'
        BY <4>2 DEF t
      <4>5. Members' = {IpOf[t[i]] : i \in 1..1}
        BY <4>3, <4>4, ListedAre
      <4>6. Members = {}
        BY <2>4, <4>2
      <4>7. Members' = Members \cup {IpOf[r]}
        BY <4>3, <4>5, <4>6
      <4>8. (clientnodesregistered = ClientNodes)' = (clientnodesregistered = ClientNodes)
        BY <4>2
      <4>9. Admitting!Admit(IpOf[r])
        BY <2>4, <4>2, <4>6, <4>7, <4>8, SameCardinality DEF Admitting!Admit
      <4>10. QED
        BY <3>1, <4>9 DEF Admitting!Next
    <3>4. CASE LinkNext(r)
      <4>1. Running(r)
        BY <3>4 DEF LinkNext, At, Running
      <4> DEFINE t == [i \in 1..n + 1 |-> IF i = n + 1 THEN r ELSE s[i]]
      <4>2. /\ Linked(n + 1, t)'
            /\ n < ClientNodes /\ \A i \in 1..n : IpOf[s[i]] # IpOf[r]
            /\ clientnodesregistered' = n /\ clientnodesregistered = n
        BY <2>3, <3>1, <3>2, <3>4, <4>1, LinkNextJoins
      <4>3. /\ t \in [1..n + 1 -> Requests] /\ t[n + 1] = r
            /\ \A i \in 1..n : t[i] = s[i]
            /\ 1..n + 1 = (1..n) \cup {n + 1} /\ n + 1 \in Nat
        OBVIOUS
      <4> HIDE DEF t
      <4>4. Members' = {IpOf[t[i]] : i \in 1..n + 1}
        BY <4>2, <4>3, ListedAre
      <4>5. Members' = Members \cup {IpOf[r]} /\ IpOf[r] \notin Members
        BY <2>4, <4>2, <4>3, <4>4
      <4>6. (clientnodesregistered = ClientNodes)' = (clientnodesregistered = ClientNodes)
        BY <4>2
      <4>7. Admitting!Admit(IpOf[r])
        BY <2>4, <4>2, <4>5, <4>6, SameCardinality DEF Admitting!Admit
      <4>8. QED
        BY <3>1, <4>7 DEF Admitting!Next
    <3>5. CASE StoreCount(r)
      <4>1. /\ clientnodesregistered' = loaded[r] + 1
            /\ UNCHANGED <<firstclientnode, nextclientnode>>
            /\ pc[r] = "store"
        BY <3>5 DEF StoreCount, At
      <4>2. clientnodesregistered = n - 1 /\ loaded[r] = n - 1
        BY <2>3, <4>1 DEF SoundAs, Adds, Joining
      <4>3. clientnodesregistered' = n /\ clientnodesregistered # ClientNodes
        BY <2>4, <4>1, <4>2
      <4>4. CASE n = ClientNodes
        BY <2>0, <2>4, <4>1, <4>3, <4>4, SameCardinality DEF Admitting!Next, Admitting!Open
      <4>5. CASE n # ClientNodes
        BY <2>0, <4>1, <4>3, <4>5
      <4>6. QED
        BY <4>4, <4>5
    <3>6. ASSUME ~SetFirst(r), ~LinkNext(r), ~StoreCount(r)
          PROVE  UNCHANGED <<firstclientnode, nextclientnode, clientnodesregistered>>
      BY <2>5, <3>6
      DEF Step, Accept, TestLimit, TestEmpty, SetLast, Walk, LoadLast, LinkNull,
          SetPrevious, LoadCount, SetStatus, nodecontrol
    <3>7. QED
      BY <2>0, <3>3, <3>4, <3>5, <3>6
  <2>6. QED
    BY <2>1, <2>5 DEF Next
<1>3. QED
  BY <1>1, <1>2, SerialInvariant, PTL DEF Spec, AdmitsOneByOne
=============================================================================
