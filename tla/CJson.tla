-------------------------------- MODULE CJson --------------------------------
(***************************************************************************)
(* The trees of cJSON.c: items in memory, of which each array and object   *)
(* has a doubly linked list.  The list is not closed: the last item has no *)
(* next one, while the prev of the first is the last.                      *)
(*                                                                         *)
(* A memory h has an item at each address.  A number or string is a value, *)
(* one integer for what a field has; whether it was allocated is left out, *)
(* except where an allocation may fail.  Of the library this has what the  *)
(* programs use: no references, no constant keys, nothing is detached.     *)
(***************************************************************************)
EXTENDS Integers, Sequences, FiniteSets

CONSTANTS
  Items,       \* bound: items that fit into the memory
  MaxFailures  \* bound: allocations that fail

ASSUME ItemsAssumption == Items \in Nat \ {0}
ASSUME FailuresAssumption == MaxFailures \in Nat

VARIABLE failures  \* the allocations that failed, of either side

Fails == failures < MaxFailures /\ failures' = failures + 1
Succeeds == failures' = failures

NULL == 0
Addresses == 1 .. Items
NoKey == ""

Types == {"invalid", "null", "number", "string", "array", "object"}

\* memset of cJSON_New_Item; and memory that is not allocated.
Blank == [type |-> "invalid", key |-> NoKey, value |-> 0,
          next |-> NULL, prev |-> NULL, child |-> NULL]
Free == [Blank EXCEPT !.type = "free"]

NoItems == [a \in Addresses \cup {NULL} |-> Free]
Allocated(h) == {a \in Addresses : h[a].type # "free"}

\* An allocation succeeds only where there is room.
HasRoom(h) == Allocated(h) # Addresses

\* The lowest free address; the choice does not matter to anything here.
NewAddress(h) ==
  CHOOSE a \in Addresses \ Allocated(h) :
    \A b \in Addresses \ Allocated(h) : a <= b

cJSON_New_Item(h, type, value) ==
  [h EXCEPT ![NewAddress(h)] = [Blank EXCEPT !.type = type, !.value = value]]

\* All that cJSON_Delete frees: an item, what it contains and what follows it.
Owned(h, a) ==
  LET owned[b \in DOMAIN h] ==
        IF b = NULL THEN {} ELSE {b} \cup owned[h[b].child] \cup owned[h[b].next]
  IN owned[a]

cJSON_Delete(h, a) ==
  LET owned == Owned(h, a)
  IN [b \in DOMAIN h |-> IF b \in owned THEN Free ELSE h[b]]

\* Mutant: the new item does not know the one before it.
suffix_object_OneWay(h, prev, item) == [h EXCEPT ![prev].next = item]

suffix_object(h, prev, item) ==
  [h EXCEPT ![prev].next = item, ![item].prev = prev]

\* False, and nothing added, without an array or without an item.
Addable(array, item) == item # NULL /\ array # NULL /\ array # item

add_item_to_array(h, array, item) ==
  LET child == h[array].child
  IN IF child = NULL
     THEN [h EXCEPT ![array].child = item, ![item].prev = item,
                    ![item].next = NULL]
     ELSE IF h[child].prev # NULL
     THEN [suffix_object(h, h[child].prev, item) EXCEPT ![child].prev = item]
     ELSE h

add_item_to_object(h, object, key, item) ==
  add_item_to_array([h EXCEPT ![item].key = key], object, item)

\* cJSON_ArrayForEach and the other loops along a list.
Elements(h, a) ==
  LET list[b \in DOMAIN h] == IF b = NULL THEN <<>> ELSE <<b>> \o list[h[b].next]
  IN list[h[a].child]

\* The first item with the name, or NULL.  (Names differ in more than case.)
cJSON_GetObjectItem(h, object, key) ==
  LET list == Elements(h, object)
      found == {i \in DOMAIN list : h[list[i]].key = key}
  IN IF object = NULL \/ found = {} THEN NULL
     ELSE list[CHOOSE i \in found : \A j \in found : i <= j]

\* cJSON_IsNumber, cJSON_IsString, cJSON_IsArray, cJSON_IsObject.
Is(h, a, type) == a # NULL /\ h[a].type = type

\* What every list of the library must be: it ends, no item of it is freed,
\* each is the prev of its next one, and the first knows the last.
Linked(h, a) ==
  LET list == Elements(h, a)
  IN \A i \in DOMAIN list :
       /\ h[list[i]].type # "free"
       /\ h[list[i]].prev = IF i = 1 THEN list[Len(list)] ELSE list[i - 1]
       /\ h[list[Len(list)]].next = NULL

HeapType(h, names) ==
  h \in [Addresses \cup {NULL} ->
           [type : Types \cup {"free"}, key : names \cup {NoKey}, value : Int,
            next : Addresses \cup {NULL}, prev : Addresses \cup {NULL},
            child : Addresses \cup {NULL}]]
=============================================================================
