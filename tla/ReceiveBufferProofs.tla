------------------------- MODULE ReceiveBufferProofs -------------------------
(***************************************************************************)
(* Theorems about ReceiveBuffer, for any clients, any number of fragments  *)
(* and messages, any capacity and any connections that break: what is in   *)
(* the buffer begins at its beginning, messages keep their order, and the  *)
(* buffer with its queue implements MessageChannel (safety).               *)
(***************************************************************************)
EXTENDS ReceiveBuffer, FiniteSetTheorems, TLAPS

USE BufferAssumption

Fragments == [message : Messages, part : 1..Frags]
Texts == [ip : Clients, text : Seq(Fragments)]

Open(c) == part[c] # Closed

(* The messages that have left the buffer. *)
QueuedIn(texts) == UNION {In(texts[i].text) : i \in DOMAIN texts}
InQueue == QueuedIn(queue)
Accepted == {accepted[i] : i \in DOMAIN accepted}
-----------------------------------------------------------------------------
(* The inductive invariant.                                                *)

(* Of the message that an open connection is sending the buffer has as     *)
(* many fragments as were sent.                                            *)
Assembled ==
    \A c \in Clients : Open(c) =>
      Cardinality(Places(received, Current(c))) = part[c]

(* Messages are numbered as their clients begin them. *)
Numbered ==
    /\ \A c \in Clients : Open(c) => number[c] # 0
    /\ \A m \in In(received) \cup InQueue \cup Accepted : m.number <= number[m.client]

(* What an open connection is sending has not left the buffer. *)
NotPassed ==
    \A c \in Clients : Open(c) => Current(c) \notin InQueue \cup Accepted

(* One client's messages: m was begun before n. *)
Before(m, n) == m.client = n.client => m.number < n.number

(* Accepted, queued, or in the buffer: the order of each client's messages. *)
Ordered ==
    /\ \A i, j \in 1..Len(accepted) : i < j => Before(accepted[i], accepted[j])
    /\ \A m \in Accepted : \A n \in InQueue \cup In(received) : Before(m, n)
    /\ \A i, j \in 1..Len(queue) : i < j =>
         \A m \in In(queue[i].text), n \in In(queue[j].text) : Before(m, n)
    /\ \A m \in InQueue : \A n \in In(received) : Before(m, n)

(* A text is queued under the address of a client one of whose messages is *)
(* in it, and a queue is drained until it is empty.                        *)
Addressed ==
    /\ \A i \in 1..Len(queue) : \E m \in In(queue[i].text) : m.client = queue[i].ip
    /\ draining => queue # <<>>

(* While connections neither overlap nor break, and messages fit, there is *)
(* one message at a time in the buffer and in each text.                   *)
Dependable == serial /\ drops = 0 /\ Frags <= Capacity
OneAtATime ==
    Dependable =>
      /\ \A c, d \in Clients : Open(c) /\ Open(d) => c = d
      /\ \A m \in In(received) : \E c \in Clients : Open(c) /\ m = Current(c)
      /\ \A i \in 1..Len(queue) : \A m, n \in In(queue[i].text) : m = n

BufferInv ==
    /\ TypeOK
    /\ BeginsAtTheBeginning
    /\ Assembled
    /\ Numbered
    /\ NotPassed
    /\ Ordered
    /\ Addressed
    /\ OneAtATime
-----------------------------------------------------------------------------
(* What the operators on texts do when a fragment is appended.             *)

LEMMA PlacesAreFinite ==
    ASSUME NEW text \in Seq(Fragments), NEW m
    PROVE  /\ IsFiniteSet(Places(text, m))
           /\ Cardinality(Places(text, m)) \in Nat
           /\ Places(text, m) \subseteq 1..Len(text)
<1>1. Places(text, m) \subseteq 1..Len(text) /\ Len(text) \in Nat
  BY DEF Places
<1>2. IsFiniteSet(1..Len(text))
  BY <1>1, FS_Interval
<1>3. IsFiniteSet(Places(text, m))
  BY <1>1, <1>2, FS_Subset
<1>4. QED
  BY <1>1, <1>3, FS_CardinalityType

LEMMA TextAppend ==
    ASSUME NEW text \in Seq(Fragments), NEW f \in Fragments
    PROVE  /\ Append(text, f) \in Seq(Fragments)
           /\ Len(Append(text, f)) = Len(text) + 1 /\ Len(text) \in Nat
           /\ \A i \in 1..Len(text) : Append(text, f)[i] = text[i]
           /\ Append(text, f)[Len(text) + 1] = f
           /\ DOMAIN text = 1..Len(text)
           /\ DOMAIN Append(text, f) = 1..Len(text) + 1
           /\ In(Append(text, f)) = In(text) \cup {f.message}
           /\ \A m : m # f.message => Places(Append(text, f), m) = Places(text, m)
           /\ Cardinality(Places(Append(text, f), f.message)) =
                Cardinality(Places(text, f.message)) + 1
<1> DEFINE more == Append(text, f)
           n == Len(text) + 1
<1>1. /\ more \in Seq(Fragments) /\ Len(more) = n /\ Len(text) \in Nat
      /\ \A i \in 1..Len(text) : more[i] = text[i]
      /\ more[n] = f
      /\ DOMAIN text = 1..Len(text) /\ DOMAIN more = 1..n
  OBVIOUS
<1> HIDE DEF more
<1>2. 1..n = (1..Len(text)) \cup {n} /\ n \notin 1..Len(text)
  BY <1>1
<1> HIDE DEF n
<1>3. In(more) = In(text) \cup {f.message}
  BY <1>1, <1>2 DEF In
<1>4. \A m : m # f.message => Places(more, m) = Places(text, m)
  BY <1>1, <1>2 DEF Places
<1>5. Places(more, f.message) = Places(text, f.message) \cup {n}
  BY <1>1, <1>2 DEF Places
<1>6. n \notin Places(text, f.message)
  BY <1>1, <1>2 DEF Places
<1>7. Cardinality(Places(more, f.message)) = Cardinality(Places(text, f.message)) + 1
  BY <1>5, <1>6, PlacesAreFinite, FS_AddElement
<1>8. QED
  BY <1>1, <1>3, <1>4, <1>7 DEF more, n

(* A message is in a text when it has a place there. *)
LEMMA InText ==
    ASSUME NEW text \in Seq(Fragments), NEW m
    PROVE  /\ m \in In(text) <=> Places(text, m) # {}
           /\ m \notin In(text) => Cardinality(Places(text, m)) = 0
           /\ In(text) \subseteq Messages
<1>1. m \in In(text) <=> Places(text, m) # {}
  BY DEF In, Places
<1>2. m \notin In(text) => Cardinality(Places(text, m)) = 0
  BY <1>1, FS_EmptySet
<1>3. In(text) \subseteq Messages
  <2>1. \A f \in Fragments : f.message \in Messages
    BY DEF Fragments
  <2>2. \A i \in DOMAIN text : text[i] \in Fragments
    OBVIOUS
  <2>3. QED
    BY <2>1, <2>2 DEF In
<1>4. QED
  BY <1>1, <1>2, <1>3

(* The queue, as a text is appended and as the first one is removed.       *)
LEMMA QueueAppend ==
    ASSUME NEW texts \in Seq(Texts), NEW t \in Texts
    PROVE  /\ Append(texts, t) \in Seq(Texts)
           /\ Len(Append(texts, t)) = Len(texts) + 1 /\ Len(texts) \in Nat
           /\ \A i \in 1..Len(texts) : Append(texts, t)[i] = texts[i]
           /\ Append(texts, t)[Len(texts) + 1] = t
           /\ Append(texts, t) # <<>>
           /\ QueuedIn(Append(texts, t)) = QueuedIn(texts) \cup In(t.text)
<1> DEFINE more == Append(texts, t)
           n == Len(texts) + 1
<1>1. /\ more \in Seq(Texts) /\ Len(more) = n /\ Len(texts) \in Nat
      /\ \A i \in 1..Len(texts) : more[i] = texts[i]
      /\ more[n] = t /\ more # <<>>
      /\ DOMAIN texts = 1..Len(texts) /\ DOMAIN more = 1..n
  OBVIOUS
<1> HIDE DEF more
<1>2. 1..n = (1..Len(texts)) \cup {n} /\ n \notin 1..Len(texts)
  BY <1>1
<1> HIDE DEF n
<1>3. QueuedIn(more) = QueuedIn(texts) \cup In(t.text)
  BY <1>1, <1>2 DEF QueuedIn
<1>4. QED
  BY <1>1, <1>3 DEF more, n

LEMMA QueueTail ==
    ASSUME NEW texts \in Seq(Texts), texts # <<>>
    PROVE  /\ Head(texts) \in Texts /\ Head(texts) = texts[1]
           /\ Tail(texts) \in Seq(Texts)
           /\ Len(texts) \in Nat \ {0} /\ Len(Tail(texts)) = Len(texts) - 1
           /\ \A i \in 1..Len(Tail(texts)) : Tail(texts)[i] = texts[i + 1]
           /\ QueuedIn(texts) = In(Head(texts).text) \cup QueuedIn(Tail(texts))
<1> DEFINE rest == Tail(texts)
<1>1. /\ Head(texts) \in Texts /\ Head(texts) = texts[1]
      /\ rest \in Seq(Texts)
      /\ Len(texts) \in Nat \ {0} /\ Len(rest) = Len(texts) - 1
      /\ \A i \in 1..Len(rest) : rest[i] = texts[i + 1]
      /\ DOMAIN texts = 1..Len(texts) /\ DOMAIN rest = 1..Len(rest)
  OBVIOUS
<1> HIDE DEF rest
<1>2. QueuedIn(texts) \subseteq In(texts[1].text) \cup QueuedIn(rest)
  <2> SUFFICES ASSUME NEW i \in 1..Len(texts), NEW m \in In(texts[i].text), i # 1
               PROVE  m \in QueuedIn(rest)
    BY <1>1 DEF QueuedIn
  <2>1. i - 1 \in 1..Len(rest) /\ rest[i - 1] = texts[i]
    BY <1>1
  <2>2. QED
    BY <1>1, <2>1 DEF QueuedIn
<1>3. In(texts[1].text) \cup QueuedIn(rest) \subseteq QueuedIn(texts)
  <2>1. 1 \in 1..Len(texts) /\ \A i \in 1..Len(rest) : i + 1 \in 1..Len(texts)
    BY <1>1
  <2>2. QED
    BY <1>1, <2>1 DEF QueuedIn
<1>4. QED
  BY <1>1, <1>2, <1>3 DEF rest
-----------------------------------------------------------------------------
(* Preservation of BufferInv, action by action.                            *)

(* The state between two steps, with the definitions of types expanded.    *)
LEMMA BufferTypes ==
    ASSUME BufferInv
    PROVE  /\ part \in [Clients -> 0..Frags] /\ number \in [Clients -> 0..MaxMessages]
           /\ received \in Seq(Fragments) /\ queue \in Seq(Texts)
           /\ accepted \in Seq(Messages) /\ refused \subseteq Messages
           /\ \A c \in Clients : part[c] \in Nat /\ number[c] \in Nat /\ part[c] <= Frags
           /\ \A c \in Clients : Open(c) => Current(c) \in Messages /\ part[c] + 1 \in 1..Frags
           /\ \A c \in Clients : Current(c).client = c /\ Current(c).number = number[c]
           /\ \A m \in Messages : m.client \in Clients /\ m.number \in Nat
                                  /\ m = [client |-> m.client, number |-> m.number]
           /\ In(received) \cup InQueue \cup Accepted \subseteq Messages
<1>1. /\ part \in [Clients -> 0..Frags] /\ number \in [Clients -> 0..MaxMessages]
      /\ received \in Seq(Fragments) /\ queue \in Seq(Texts)
      /\ accepted \in Seq(Messages) /\ refused \subseteq Messages
  BY DEF BufferInv, TypeOK, Fragments, Texts
<1>2. \A c \in Clients : part[c] \in Nat /\ number[c] \in Nat /\ part[c] <= Frags
  BY <1>1
<1>3. \A c \in Clients : Current(c).client = c /\ Current(c).number = number[c]
  BY DEF Current
<1>4. \A c \in Clients : Open(c) => Current(c) \in Messages /\ part[c] + 1 \in 1..Frags
  BY <1>1 DEF BufferInv, Numbered, Open, Closed, Current, Messages
<1>5. \A m \in Messages : m.client \in Clients /\ m.number \in Nat
                          /\ m = [client |-> m.client, number |-> m.number]
  BY DEF Messages
<1>6. In(received) \subseteq Messages
  BY <1>1, InText
<1>7. InQueue \subseteq Messages
  <2>1. \A t \in Texts : t.text \in Seq(Fragments)
    BY DEF Texts
  <2>2. \A i \in DOMAIN queue : queue[i] \in Texts
    BY <1>1
  <2>3. \A i \in DOMAIN queue : In(queue[i].text) \subseteq Messages
    BY <2>1, <2>2, InText
  <2>4. QED
    BY <2>3 DEF InQueue, QueuedIn
<1>8. Accepted \subseteq Messages
  BY <1>1 DEF Accepted
<1>9. QED
  BY <1>1, <1>2, <1>3, <1>4, <1>5, <1>6, <1>7, <1>8

(* A client connects: its new message is in no place yet. *)
LEMMA ConnectPreserves ==
    ASSUME BufferInv, NEW c \in Clients, Connect(c)
    PROVE  /\ BufferInv'
           /\ Current(c)' \in Messages
           /\ Current(c)' \notin In(received) \cup InQueue \cup Accepted
           /\ \A d \in Clients : d # c => Current(d)' # Current(c)'
<1>1. /\ part' = [part EXCEPT ![c] = 0] /\ number' = [number EXCEPT ![c] = @ + 1]
      /\ part[c] = Frags /\ number[c] < MaxMessages
      /\ serial => \A d \in Clients : ~Open(d)
      /\ UNCHANGED <<serial, received, queue, draining, accepted, refused, drops>>
  BY DEF Connect, Closed, Open
<1>2. /\ part'[c] = 0 /\ number'[c] = number[c] + 1
      /\ \A d \in Clients : d # c => part'[d] = part[d] /\ number'[d] = number[d]
  BY <1>1, BufferTypes
<1>3. /\ Current(c)' = [client |-> c, number |-> number[c] + 1]
      /\ \A d \in Clients : d # c => Current(d)' = Current(d) /\ Open(d)' = Open(d)
  BY <1>2 DEF Current, Open, Closed
<1>4. UNCHANGED <<InQueue, Accepted>>
  BY <1>1 DEF InQueue, Accepted
<1>5. /\ Current(c)' \notin In(received) \cup InQueue \cup Accepted
      /\ \A d \in Clients : d # c => Current(d)' # Current(c)'
  <2>1. \A m \in In(received) \cup InQueue \cup Accepted :
          m.client = c => m.number < Current(c)'.number
    BY <1>3, BufferTypes DEF BufferInv, Numbered
  <2>2. QED
    BY <1>3, <2>1, BufferTypes
<1>6. TypeOK'
  <2>1. part' \in [Clients -> 0..Frags] /\ number' \in [Clients -> 0..MaxMessages]
    BY <1>1, BufferTypes
  <2>2. QED
    BY <1>1, <2>1 DEF BufferInv, TypeOK
<1>7. Assembled'
  <2>1. Cardinality(Places(received, Current(c)')) = 0
    BY <1>5, InText, BufferTypes
  <2>2. QED
    BY <1>1, <1>2, <1>3, <2>1 DEF BufferInv, Assembled
<1>8. Numbered'
  <2>0. \A d \in Clients : number[d] \in Nat
    BY BufferTypes
  <2>1. \A d \in Clients : number'[d] \in Nat /\ number'[d] >= number[d]
    BY <1>2, <2>0
  <2>2. \A m \in In(received) \cup InQueue \cup Accepted :
          /\ m.client \in Clients /\ m.number \in Nat
          /\ m.number <= number[m.client]
    BY BufferTypes DEF BufferInv, Numbered
  <2>4. \A m \in In(received) \cup InQueue \cup Accepted : m.number <= number'[m.client]
    BY <2>0, <2>1, <2>2
  <2>3. QED
    BY <1>1, <1>2, <1>3, <1>4, <2>0, <2>4 DEF BufferInv, Numbered
<1>9. NotPassed'
  BY <1>3, <1>4, <1>5 DEF BufferInv, NotPassed
<1>10. BeginsAtTheBeginning' /\ Ordered' /\ Addressed'
  BY <1>1, <1>4 DEF BufferInv, BeginsAtTheBeginning, Ordered, Addressed
<1>11. OneAtATime'
  BY <1>1, <1>3 DEF BufferInv, OneAtATime, Dependable
<1>12. Current(c)' \in Messages
  BY <1>1, <1>3, BufferTypes DEF Messages
<1>13. QED
  BY <1>5, <1>6, <1>7, <1>8, <1>9, <1>10, <1>11, <1>12 DEF BufferInv

(* A connection closes before its message is through. *)
LEMMA ClosePreserves ==
    ASSUME BufferInv, NEW c \in Clients, part' = [part EXCEPT ![c] = Closed],
           UNCHANGED <<serial, number, received, queue, draining, accepted>>,
           refused' \subseteq Messages, drops' \in Nat, drops' >= drops,
           Dependable' => drops = drops' /\ In(received) = {}
    PROVE  BufferInv'
<1>1. /\ \A d \in Clients : Open(d)' => d # c /\ Open(d)
      /\ \A d \in Clients : Current(d)' = Current(d)
      /\ \A d \in Clients : d # c => part'[d] = part[d]
      /\ part' \in [Clients -> 0..Frags]
  BY BufferTypes DEF Current, Open, Closed
<1>2. UNCHANGED <<InQueue, Accepted>>
  BY DEF InQueue, Accepted
<1>3. TypeOK' /\ BeginsAtTheBeginning' /\ Ordered' /\ Addressed'
  BY <1>1, <1>2 DEF BufferInv, TypeOK, BeginsAtTheBeginning, Ordered, Addressed
<1>4. Assembled' /\ Numbered' /\ NotPassed'
  BY <1>1, <1>2 DEF BufferInv, Assembled, Numbered, NotPassed
<1>5. OneAtATime'
  BY <1>1 DEF BufferInv, OneAtATime, Dependable
<1>6. QED
  BY <1>3, <1>4, <1>5 DEF BufferInv

(* What callback_echo has in its buffer after a fragment of c. *)
Text(c) == Append(received, Fragment(c))

LEMMA TextOfFragment ==
    ASSUME BufferInv, NEW c \in Clients, Open(c)
    PROVE  /\ Text(c) \in Seq(Fragments)
           /\ Len(Text(c)) = Len(received) + 1 /\ Len(received) \in Nat
           /\ In(Text(c)) = In(received) \cup {Current(c)}
           /\ \A m : m # Current(c) => Places(Text(c), m) = Places(received, m)
           /\ Cardinality(Places(Text(c), Current(c))) = part[c] + 1
           /\ Whole(Text(c), Current(c)) <=> part[c] + 1 = Frags
           /\ \A d \in Clients : Open(d) /\ d # c =>
                Current(d) # Current(c) /\ ~Whole(Text(c), Current(d))
<1> DEFINE f == Fragment(c)
<1>0. f.message = Current(c) /\ f.part = part[c] + 1
  BY DEF Fragment
<1>1. f \in Fragments
  BY BufferTypes DEF Fragment, Fragments
<1>2. received \in Seq(Fragments) /\ Text(c) = Append(received, f)
  BY BufferTypes DEF Text
<1> HIDE DEF f
<1>3. /\ Text(c) \in Seq(Fragments)
      /\ Len(Text(c)) = Len(received) + 1 /\ Len(received) \in Nat
      /\ In(Text(c)) = In(received) \cup {Current(c)}
      /\ \A m : m # Current(c) => Places(Text(c), m) = Places(received, m)
      /\ Cardinality(Places(Text(c), Current(c))) =
           Cardinality(Places(received, Current(c))) + 1
  BY <1>0, <1>1, <1>2, TextAppend
<1>4. \A d \in Clients : Open(d) => Cardinality(Places(received, Current(d))) = part[d]
  BY DEF BufferInv, Assembled
<1>5. \A d \in Clients : Open(d) /\ d # c =>
        Current(d) # Current(c) /\ ~Whole(Text(c), Current(d))
  <2> SUFFICES ASSUME NEW d \in Clients, Open(d), d # c
               PROVE  Current(d) # Current(c) /\ ~Whole(Text(c), Current(d))
    OBVIOUS
  <2>1. Current(d) # Current(c)
    BY BufferTypes
  <2>2. Cardinality(Places(Text(c), Current(d))) = part[d]
    BY <1>3, <1>4, <2>1
  <2>3. QED
    BY <2>1, <2>2 DEF Whole, Open, Closed
<1>6. QED
  BY <1>3, <1>4, <1>5 DEF Whole

(* The fragment continues its message where the buffer left it. *)
LEMMA TextBegins ==
    ASSUME BufferInv, NEW c \in Clients, Open(c),
           NEW i \in 1..Len(Text(c))
    PROVE  Text(c)[i].part =
             Cardinality({j \in Places(Text(c), Text(c)[i].message) : j <= i})
<1> DEFINE f == Fragment(c)
           n == Len(received) + 1
<1>0. f.message = Current(c) /\ f.part = part[c] + 1
  BY DEF Fragment
<1>1. f \in Fragments
  BY BufferTypes DEF Fragment, Fragments
<1>2. received \in Seq(Fragments) /\ Text(c) = Append(received, f)
  BY BufferTypes DEF Text
<1> HIDE DEF f
<1>3. /\ Len(received) \in Nat /\ Len(Text(c)) = n
      /\ \A k \in 1..Len(received) : Text(c)[k] = received[k]
      /\ Text(c)[n] = f
      /\ DOMAIN received = 1..Len(received) /\ DOMAIN Text(c) = 1..n
  BY <1>2, <1>1, TextAppend
<1>4. CASE i = n
  <2>1. \A j \in Places(Text(c), Current(c)) : j <= n
    BY <1>3 DEF Places
  <2>2. {j \in Places(Text(c), Current(c)) : j <= n} = Places(Text(c), Current(c))
    BY <2>1
  <2>3. QED
    BY <1>0, <1>3, <1>4, <2>2, TextOfFragment
<1>5. CASE i # n
  <2>1. i \in 1..Len(received) /\ Text(c)[i] = received[i]
    BY <1>3, <1>5
  <2>2. \A m : {j \in Places(Text(c), m) : j <= i} = {j \in Places(received, m) : j <= i}
    BY <1>3, <2>1 DEF Places
  <2>3. received[i].part =
          Cardinality({j \in Places(received, received[i].message) : j <= i})
    BY <1>3, <2>1 DEF BufferInv, BeginsAtTheBeginning
  <2>4. QED
    BY <2>1, <2>2, <2>3
<1>6. QED
  BY <1>4, <1>5

(* What has left the buffer was begun before what is in it now. *)
LEMMA TextIsLater ==
    ASSUME BufferInv, NEW c \in Clients, Open(c)
    PROVE  \A m \in InQueue \cup Accepted : \A n \in In(Text(c)) : Before(m, n)
<1>1. \A m \in InQueue \cup Accepted : \A n \in In(received) : Before(m, n)
  BY DEF BufferInv, Ordered
<1>2. \A m \in InQueue \cup Accepted : Before(m, Current(c))
  <2> SUFFICES ASSUME NEW m \in InQueue \cup Accepted, m.client = c
               PROVE  m.number < number[c]
    BY BufferTypes DEF Before
  <2>1. m \in Messages
    BY BufferTypes
  <2>2. m.number <= number[c] /\ m.number \in Nat /\ number[c] \in Nat
    BY <2>1, BufferTypes DEF BufferInv, Numbered
  <2>3. m # Current(c)
    BY DEF BufferInv, NotPassed
  <2>4. m.number # number[c]
    BY <2>1, <2>3, BufferTypes DEF Current
  <2>5. QED
    BY <2>2, <2>4
<1>3. In(Text(c)) = In(received) \cup {Current(c)}
  BY TextOfFragment
<1>4. QED
  BY <1>1, <1>2, <1>3

(* While nothing is lost, the buffer holds what the one open connection    *)
(* has sent.                                                               *)
LEMMA TextOfOne ==
    ASSUME BufferInv, NEW c \in Clients, Open(c), Dependable
    PROVE  /\ In(Text(c)) = {Current(c)}
           /\ IsCompleteJson(Text(c)) <=> part[c] + 1 = Frags
           /\ Len(received) = part[c]
<1>1. In(received) \subseteq {Current(c)}
  BY DEF BufferInv, OneAtATime
<1>2. In(Text(c)) = {Current(c)}
  BY <1>1, TextOfFragment
<1>3. IsCompleteJson(Text(c)) <=> part[c] + 1 = Frags
  BY <1>2, TextOfFragment DEF IsCompleteJson
<1>4. Len(received) = part[c]
  <2>1. received \in Seq(Fragments)
    BY BufferTypes
  <2> DEFINE places == 1..Len(received)
  <2>0. Len(received) \in Nat /\ DOMAIN received = places
    BY <2>1
  <2> HIDE DEF places
  <2>4. \A i \in DOMAIN received : received[i].message = Current(c)
    BY <1>1 DEF In
  <2>2. Places(received, Current(c)) = places
    BY <2>0, <2>4, Zenon DEF Places
  <2> USE DEF places
  <2>3. \A n \in Nat : Cardinality(1..n) = n
    BY FS_Interval
  <2>5. QED
    BY <2>0, <2>2, <2>3 DEF BufferInv, Assembled
<1>5. QED
  BY <1>2, <1>3, <1>4

(* What Receive does to the connections. *)
LEMMA ReceiveCounts ==
    ASSUME BufferInv, NEW c \in Clients, Receive(c)
    PROVE  /\ Open(c) /\ Len(received) < Capacity
           /\ part' \in [Clients -> 0..Frags]
           /\ part'[c] = part[c] + 1 /\ (Open(c)' <=> part[c] + 1 # Frags)
           /\ \A d \in Clients : d # c => part'[d] = part[d] /\ (Open(d)' <=> Open(d))
           /\ \A d \in Clients : Current(d)' = Current(d)
           /\ UNCHANGED <<serial, number, draining, accepted, refused, drops, Accepted>>
           /\ IF IsCompleteJson(Text(c))
              THEN /\ received' = <<>>
                   /\ queue' = Append(queue, [ip |-> c, text |-> Text(c)])
              ELSE received' = Text(c) /\ queue' = queue
<1>1. /\ part' = [part EXCEPT ![c] = @ + 1] /\ part[c] # Frags
      /\ Len(received) < Capacity
      /\ UNCHANGED <<serial, number, draining, accepted, refused, drops>>
      /\ IF IsCompleteJson(Text(c))
         THEN /\ received' = <<>>
              /\ queue' = Append(queue, [ip |-> c, text |-> Text(c)])
         ELSE received' = Text(c) /\ queue' = queue
  BY DEF Receive, Text, Closed
<1>2. part \in [Clients -> 0..Frags]
  BY BufferTypes
<1>3. /\ part' \in [Clients -> 0..Frags]
      /\ part'[c] = part[c] + 1
      /\ \A d \in Clients : d # c => part'[d] = part[d]
  BY <1>1, <1>2
<1>4. Accepted' = Accepted /\ \A d \in Clients : Current(d)' = Current(d)
  BY <1>1 DEF Accepted, Current
<1>5. QED
  BY <1>1, <1>3, <1>4 DEF Open, Closed

(* The text is not complete yet, and stays in the buffer. *)
LEMMA ReceivePartPreserves ==
    ASSUME BufferInv, NEW c \in Clients, Receive(c), ~IsCompleteJson(Text(c))
    PROVE  BufferInv'
<1>1. /\ Open(c) /\ Len(received) < Capacity
      /\ part' \in [Clients -> 0..Frags]
      /\ part'[c] = part[c] + 1 /\ (Open(c)' <=> part[c] + 1 # Frags)
      /\ \A d \in Clients : d # c => part'[d] = part[d] /\ (Open(d)' <=> Open(d))
      /\ \A d \in Clients : Current(d)' = Current(d)
      /\ UNCHANGED <<serial, number, draining, accepted, refused, drops, Accepted>>
      /\ received' = Text(c) /\ queue' = queue
  BY ReceiveCounts
<1>2. /\ Text(c) \in Seq(Fragments)
      /\ Len(Text(c)) = Len(received) + 1 /\ Len(received) \in Nat
      /\ In(Text(c)) = In(received) \cup {Current(c)}
      /\ \A m : m # Current(c) => Places(Text(c), m) = Places(received, m)
      /\ Cardinality(Places(Text(c), Current(c))) = part[c] + 1
  BY <1>1, TextOfFragment
<1>3. InQueue' = InQueue
  BY <1>1 DEF InQueue
<1>4. TypeOK'
  BY <1>1, <1>2 DEF BufferInv, TypeOK, Fragments
<1>5. BeginsAtTheBeginning'
  <2>1. DOMAIN Text(c) = 1..Len(Text(c))
    BY <1>2
  <2>2. QED
    BY <1>1, <2>1, TextBegins DEF BeginsAtTheBeginning
<1>6. Assembled'
  <2>1. \A d \in Clients : d # c => Current(d) # Current(c)
    BY BufferTypes
  <2>2. QED
    BY <1>1, <1>2, <2>1 DEF BufferInv, Assembled
<1>7. Numbered'
  <2>1. Current(c).number <= number[Current(c).client]
    BY BufferTypes
  <2>2. \A d \in Clients : Open(d)' => Open(d)
    BY <1>1
  <2>3. QED
    BY <1>1, <1>2, <1>3, <2>1, <2>2 DEF BufferInv, Numbered
<1>8. NotPassed'
  BY <1>1, <1>3 DEF BufferInv, NotPassed
<1>9. Ordered'
  BY <1>1, <1>3, TextIsLater DEF BufferInv, Ordered
<1>10. Addressed'
  BY <1>1 DEF BufferInv, Addressed
<1>11. OneAtATime'
  <2> SUFFICES ASSUME Dependable'
               PROVE  /\ \A d, e \in Clients : Open(d)' /\ Open(e)' => d = e
                      /\ \A m \in In(Text(c)) : \E d \in Clients : Open(d)' /\ m = Current(d)
                      /\ \A i \in 1..Len(queue) : \A m, n \in In(queue[i].text) : m = n
    BY <1>1 DEF OneAtATime
  <2>1. Dependable
    BY <1>1 DEF Dependable
  <2>2. In(Text(c)) = {Current(c)} /\ part[c] + 1 # Frags
    BY <1>1, <2>1, TextOfOne
  <2>3. QED
    BY <1>1, <2>1, <2>2 DEF BufferInv, OneAtATime
<1>12. QED
  BY <1>4, <1>5, <1>6, <1>7, <1>8, <1>9, <1>10, <1>11 DEF BufferInv

(* The braces balance: only whole messages are in the text, which is       *)
(* queued and leaves an empty buffer.                                      *)
LEMMA CompleteText ==
    ASSUME BufferInv, NEW c \in Clients, Open(c), IsCompleteJson(Text(c))
    PROVE  /\ part[c] + 1 = Frags
           /\ \A d \in Clients : Open(d) /\ d # c =>
                Current(d) \notin In(Text(c)) /\ part[d] = 0
<1>1. Current(c) \in In(Text(c))
  BY TextOfFragment
<1>2. part[c] + 1 = Frags
  BY <1>1, TextOfFragment DEF IsCompleteJson
<1>3. ASSUME NEW d \in Clients, Open(d), d # c
      PROVE  Current(d) \notin In(Text(c)) /\ part[d] = 0
  <2>1. Current(d) \notin In(Text(c))
    BY <1>3, TextOfFragment DEF IsCompleteJson
  <2>2. Current(d) \notin In(received)
    BY <2>1, TextOfFragment
  <2>3. Cardinality(Places(received, Current(d))) = 0
    BY <2>2, InText, BufferTypes
  <2>4. QED
    BY <1>3, <2>1, <2>3 DEF BufferInv, Assembled
<1>4. QED
  BY <1>2, <1>3

LEMMA ReceiveWholePreserves ==
    ASSUME BufferInv, NEW c \in Clients, Receive(c), IsCompleteJson(Text(c))
    PROVE  /\ BufferInv'
           /\ InQueue' = InQueue \cup In(Text(c))
           /\ In(received') = {}
<1>1. /\ Open(c)
      /\ part' \in [Clients -> 0..Frags]
      /\ part'[c] = part[c] + 1 /\ (Open(c)' <=> part[c] + 1 # Frags)
      /\ \A d \in Clients : d # c => part'[d] = part[d] /\ (Open(d)' <=> Open(d))
      /\ \A d \in Clients : Current(d)' = Current(d)
      /\ UNCHANGED <<serial, number, draining, accepted, refused, drops, Accepted>>
      /\ received' = <<>> /\ queue' = Append(queue, [ip |-> c, text |-> Text(c)])
  BY ReceiveCounts
<1> DEFINE t == [ip |-> c, text |-> Text(c)]
<1>2. /\ Text(c) \in Seq(Fragments)
      /\ In(Text(c)) = In(received) \cup {Current(c)}
      /\ part[c] + 1 = Frags
      /\ \A d \in Clients : Open(d) /\ d # c =>
           Current(d) \notin In(Text(c)) /\ part[d] = 0
  BY <1>1, TextOfFragment, CompleteText
<1>3. t \in Texts /\ queue \in Seq(Texts) /\ t.text = Text(c) /\ t.ip = c
  BY <1>2, BufferTypes DEF Texts
<1> HIDE DEF t
<1>4. /\ queue' \in Seq(Texts) /\ queue' # <<>>
      /\ Len(queue') = Len(queue) + 1 /\ Len(queue) \in Nat
      /\ \A i \in 1..Len(queue) : queue'[i] = queue[i]
      /\ queue'[Len(queue) + 1] = t
      /\ InQueue' = InQueue \cup In(Text(c))
  BY <1>1, <1>3, QueueAppend DEF t, InQueue
<1>5. /\ In(received') = {} /\ \A m : Cardinality(Places(received', m)) = 0
      /\ \A i \in DOMAIN received' : FALSE
      /\ received' \in Seq(Fragments) /\ Len(received') <= Capacity
  <2>1. \A m : Places(<<>>, m) = {}
    BY DEF Places
  <2>2. In(<<>>) = {}
    BY DEF In
  <2>3. Cardinality({}) = 0
    BY FS_EmptySet
  <2>4. /\ \A i \in DOMAIN <<>> : FALSE
        /\ <<>> \in Seq(Fragments) /\ Len(<<>>) <= Capacity
    OBVIOUS
  <2>5. \A m : Cardinality(Places(received', m)) = 0
    BY <1>1, <2>1, <2>3, Zenon
  <2>6. QED
    BY <1>1, <2>2, <2>4, <2>5, Zenon
<1>6. TypeOK'
  BY <1>1, <1>4, <1>5 DEF BufferInv, TypeOK, Fragments, Texts
<1>7. BeginsAtTheBeginning'
  BY <1>5 DEF BeginsAtTheBeginning
<1>8. \A d \in Clients : Open(d)' => Open(d) /\ d # c
  BY <1>1, <1>2
<1>9. Assembled'
  BY <1>1, <1>2, <1>5, <1>8 DEF Assembled
<1>10. Numbered'
  <2>1. Current(c).number <= number[Current(c).client]
    BY BufferTypes
  <2>2. \A m \in In(received') \cup InQueue' \cup Accepted' :
          m \in In(received) \cup InQueue \cup Accepted \/ m = Current(c)
    BY <1>1, <1>2, <1>4, <1>5
  <2>3. QED
    BY <1>1, <1>8, <2>1, <2>2 DEF BufferInv, Numbered
<1>11. NotPassed'
  BY <1>1, <1>2, <1>4, <1>8 DEF BufferInv, NotPassed
<1>12. Ordered'
  <2>1. \A m \in InQueue \cup Accepted : \A n \in In(Text(c)) : Before(m, n)
    BY <1>1, TextIsLater
  <2>2. \A i \in 1..Len(queue) : In(queue[i].text) \subseteq InQueue
    BY <1>3 DEF InQueue, QueuedIn
  <2>3. \A i, j \in 1..Len(queue') : i < j =>
          \A m \in In(queue'[i].text), n \in In(queue'[j].text) : Before(m, n)
    <3> SUFFICES ASSUME NEW i \in 1..Len(queue'), NEW j \in 1..Len(queue'), i < j,
                        NEW m \in In(queue'[i].text), NEW n \in In(queue'[j].text)
                 PROVE  Before(m, n)
      OBVIOUS
    <3>1. i \in 1..Len(queue) /\ m \in In(queue[i].text)
      BY <1>4
    <3>2. CASE j \in 1..Len(queue)
      BY <1>4, <3>1, <3>2 DEF BufferInv, Ordered
    <3>3. CASE j = Len(queue) + 1
      BY <1>3, <1>4, <2>1, <2>2, <3>1, <3>3
    <3>4. QED
      BY <1>4, <3>2, <3>3
  <2>4. QED
    BY <1>1, <1>4, <1>5, <2>1, <2>3 DEF BufferInv, Ordered
<1>13. Addressed'
  <2>1. Current(c) \in In(t.text) /\ Current(c).client = t.ip
    BY <1>2, <1>3, BufferTypes
  <2>2. QED
    BY <1>4, <2>1 DEF BufferInv, Addressed
<1>14. OneAtATime'
  <2> SUFFICES ASSUME Dependable'
               PROVE  /\ \A d, e \in Clients : Open(d)' /\ Open(e)' => d = e
                      /\ \A i \in 1..Len(queue') : \A m, n \in In(queue'[i].text) : m = n
    BY <1>5 DEF OneAtATime
  <2>1. Dependable
    BY <1>1 DEF Dependable
  <2>2. In(t.text) = {Current(c)}
    BY <1>1, <1>3, <2>1, TextOfOne
  <2>3. \A d, e \in Clients : Open(d)' /\ Open(e)' => d = e
    BY <1>8, <2>1 DEF BufferInv, OneAtATime
  <2>4. ASSUME NEW i \in 1..Len(queue')
        PROVE  \A m, n \in In(queue'[i].text) : m = n
    <3>1. CASE i \in 1..Len(queue)
      BY <1>4, <2>1, <3>1 DEF BufferInv, OneAtATime
    <3>2. CASE i = Len(queue) + 1
      BY <1>4, <2>2, <3>2
    <3>3. QED
      BY <1>4, <3>1, <3>2
  <2>5. QED
    BY <2>3, <2>4
<1>15. QED
  BY <1>4, <1>5, <1>6, <1>7, <1>9, <1>10, <1>11, <1>12, <1>13, <1>14 DEF BufferInv

(* A text that parses is one message, of the client it was queued under.   *)
LEMMA ParsedMessage ==
    ASSUME BufferInv, queue # <<>>, Cardinality(In(Head(queue).text)) = 1
    PROVE  \E m \in Messages :
             /\ In(Head(queue).text) = {m}
             /\ m = [client |-> Head(queue).ip,
                     number |-> Head(queue).text[1].message.number]
<1> DEFINE text == Head(queue).text
<1>1. Head(queue) \in Texts /\ Head(queue) = queue[1] /\ 1 \in 1..Len(queue)
  BY QueueTail, BufferTypes
<1>2. text \in Seq(Fragments)
  BY <1>1 DEF Texts
<1> HIDE DEF text
<1>3. DOMAIN text = 1..Len(text) /\ Len(text) \in Nat
  BY <1>2
<1>4. IsFiniteSet(In(text))
  <2>1. IsFiniteSet(1..Len(text))
    BY <1>3, FS_Interval
  <2> DEFINE f == [i \in 1..Len(text) |-> text[i].message]
  <2>2. f \in Surjection(1..Len(text), In(text))
    BY <1>3 DEF In, Surjection
  <2>3. QED
    BY <2>1, <2>2, FS_Surjection
<1>5. PICK m : In(text) = {m}
  BY <1>4, FS_Singleton DEF text
<1>6. m \in Messages
  BY <1>2, <1>5, InText
<1>7. m.client = Head(queue).ip
  BY <1>1, <1>5 DEF BufferInv, Addressed, text
<1>8. 1 \in DOMAIN text
  BY <1>3, <1>5 DEF In
<1>9. text[1].message = m
  BY <1>5, <1>8 DEF In
<1>10. QED
  BY <1>5, <1>6, <1>7, <1>9, BufferTypes DEF text

(* The oldest text is handled. *)
LEMMA HandlePreserves ==
    ASSUME BufferInv, Handle
    PROVE  /\ BufferInv'
           /\ InQueue = In(Head(queue).text) \cup InQueue'
           /\ \A m \in In(Head(queue).text) : \A n \in InQueue' : Before(m, n)
           /\ IF Cardinality(In(Head(queue).text)) = 1
              THEN \E m \in Messages : /\ In(Head(queue).text) = {m}
                                       /\ accepted' = Append(accepted, m)
                                       /\ Accepted' = Accepted \cup {m}
              ELSE UNCHANGED <<accepted, Accepted>>
<1>1. /\ draining /\ queue # <<>>
      /\ queue' = Tail(queue)
      /\ draining' = (queue' # <<>>)
      /\ UNCHANGED <<serial, part, number, received, refused, drops>>
      /\ accepted' = IF Cardinality(In(Head(queue).text)) = 1
                     THEN Append(accepted, [client |-> Head(queue).ip,
                                            number |-> Head(queue).text[1].message.number])
                     ELSE accepted
  BY DEF Handle, BufferInv, Addressed
<1>2. queue \in Seq(Texts) /\ accepted \in Seq(Messages)
  BY BufferTypes
<1>3. /\ Head(queue) = queue[1]
      /\ queue' \in Seq(Texts)
      /\ Len(queue) \in Nat \ {0} /\ Len(queue') = Len(queue) - 1
      /\ \A i \in 1..Len(queue') : queue'[i] = queue[i + 1]
      /\ InQueue = In(Head(queue).text) \cup InQueue'
  BY <1>1, <1>2, QueueTail DEF InQueue
<1>4. /\ \A d \in Clients : Current(d)' = Current(d) /\ (Open(d)' <=> Open(d))
      /\ Dependable' = Dependable
  BY <1>1 DEF Current, Open, Closed, Dependable
<1>5. \A m \in In(Head(queue).text) : \A n \in InQueue' : Before(m, n)
  <2>1. DOMAIN queue' = 1..Len(queue')
    BY <1>3
  <2>2. \A n \in InQueue' : \E j \in 1..Len(queue') : n \in In(queue'[j].text)
    BY <2>1 DEF InQueue, QueuedIn
  <2> SUFFICES ASSUME NEW m \in In(queue[1].text), NEW j \in 1..Len(queue'),
                      NEW n \in In(queue'[j].text)
               PROVE  Before(m, n)
    BY <1>3, <2>2
  <2>3. 1 \in 1..Len(queue) /\ j + 1 \in 1..Len(queue) /\ 1 < j + 1
    BY <1>3
  <2>4. n \in In(queue[j + 1].text)
    BY <1>3
  <2>5. QED
    BY <2>3, <2>4 DEF BufferInv, Ordered
<1>6. IF Cardinality(In(Head(queue).text)) = 1
      THEN \E m \in Messages : /\ In(Head(queue).text) = {m}
                               /\ accepted' = Append(accepted, m)
                               /\ Accepted' = Accepted \cup {m}
      ELSE UNCHANGED <<accepted, Accepted>>
  <2>1. CASE Cardinality(In(Head(queue).text)) = 1
    <3>1. PICK m \in Messages :
            /\ In(Head(queue).text) = {m}
            /\ m = [client |-> Head(queue).ip,
                    number |-> Head(queue).text[1].message.number]
      BY <1>1, <2>1, ParsedMessage
    <3>2. accepted' = Append(accepted, m)
      BY <1>1, <2>1, <3>1
    <3>3. Accepted' = Accepted \cup {m}
      <4>1. /\ DOMAIN accepted = 1..Len(accepted) /\ Len(accepted) \in Nat
            /\ DOMAIN accepted' = 1..Len(accepted) + 1
            /\ \A i \in 1..Len(accepted) : accepted'[i] = accepted[i]
            /\ accepted'[Len(accepted) + 1] = m
        BY <1>2, <3>2
      <4>2. 1..Len(accepted) + 1 = (1..Len(accepted)) \cup {Len(accepted) + 1}
        BY <4>1
      <4>3. QED
        BY <4>1, <4>2 DEF Accepted
    <3>4. QED
      BY <2>1, <3>1, <3>2, <3>3
  <2>2. CASE Cardinality(In(Head(queue).text)) # 1
    BY <1>1, <2>2 DEF Accepted
  <2>3. QED
    BY <2>1, <2>2
<1>7. InQueue' \subseteq InQueue /\ Accepted' \subseteq Accepted \cup InQueue
  BY <1>3, <1>6
<1>8. /\ accepted' \in Seq(Messages)
      /\ \A i, j \in 1..Len(accepted') : i < j => Before(accepted'[i], accepted'[j])
  <2>1. CASE accepted' = accepted
    BY <1>2, <2>1 DEF BufferInv, Ordered
  <2>2. ASSUME NEW m \in Messages, m \in InQueue, accepted' = Append(accepted, m)
        PROVE  /\ accepted' \in Seq(Messages)
               /\ \A i, j \in 1..Len(accepted') : i < j => Before(accepted'[i], accepted'[j])
    <3>1. /\ accepted' \in Seq(Messages)
          /\ Len(accepted') = Len(accepted) + 1 /\ Len(accepted) \in Nat
          /\ \A i \in 1..Len(accepted) : accepted'[i] = accepted[i]
          /\ accepted'[Len(accepted) + 1] = m
      BY <1>2, <2>2
    <3>2. \A i \in 1..Len(accepted) : Before(accepted[i], m)
      BY <1>2, <2>2 DEF BufferInv, Ordered, Accepted
    <3>3. ASSUME NEW i \in 1..Len(accepted'), NEW j \in 1..Len(accepted'), i < j
          PROVE  Before(accepted'[i], accepted'[j])
      <4>1. i \in 1..Len(accepted)
        BY <3>1, <3>3
      <4>2. CASE j \in 1..Len(accepted)
        BY <3>1, <3>3, <4>1, <4>2 DEF BufferInv, Ordered
      <4>3. CASE j = Len(accepted) + 1
        BY <3>1, <3>2, <4>1, <4>3
      <4>4. QED
        BY <3>1, <4>2, <4>3
    <3>4. QED
      BY <3>1, <3>3
  <2>3. QED
    BY <1>3, <1>6, <2>1, <2>2
<1>9. TypeOK'
  <2>1. draining' \in BOOLEAN
    BY <1>1, Zenon
  <2>2. QED
    BY <1>1, <1>3, <1>8, <2>1 DEF BufferInv, TypeOK, Fragments, Texts
<1>10. BeginsAtTheBeginning' /\ Assembled' /\ Numbered' /\ NotPassed'
  BY <1>1, <1>4, <1>7
  DEF BufferInv, BeginsAtTheBeginning, Assembled, Numbered, NotPassed
<1>11. Ordered'
  <2>1. \A m \in Accepted' : \A n \in InQueue' \cup In(received) : Before(m, n)
    BY <1>3, <1>5, <1>6 DEF BufferInv, Ordered
  <2>2. \A i, j \in 1..Len(queue') : i < j =>
          \A m \in In(queue'[i].text), n \in In(queue'[j].text) : Before(m, n)
    <3>1. \A i \in 1..Len(queue') : i + 1 \in 1..Len(queue) /\ queue'[i] = queue[i + 1]
      BY <1>3
    <3>2. \A i, j \in 1..Len(queue') : i < j => i + 1 < j + 1
      BY <1>3
    <3>3. QED
      BY <3>1, <3>2 DEF BufferInv, Ordered
  <2>3. QED
    BY <1>1, <1>7, <1>8, <2>1, <2>2 DEF BufferInv, Ordered
<1>12. Addressed'
  <2>1. \A i \in 1..Len(queue') : i + 1 \in 1..Len(queue) /\ queue'[i] = queue[i + 1]
    BY <1>3
  <2>2. draining' => queue' # <<>>
    BY <1>1, Zenon
  <2>3. \A i \in 1..Len(queue) : \E m \in In(queue[i].text) : m.client = queue[i].ip
    BY DEF BufferInv, Addressed
  <2>4. QED
    BY <2>1, <2>2, <2>3 DEF Addressed
<1>13. OneAtATime'
  <2> SUFFICES ASSUME Dependable'
               PROVE  /\ \A c, d \in Clients : Open(c)' /\ Open(d)' => c = d
                      /\ \A m \in In(received) :
                           \E c \in Clients : Open(c)' /\ m = Current(c)'
                      /\ \A i \in 1..Len(queue') : \A m, n \in In(queue'[i].text) : m = n
    BY <1>1 DEF OneAtATime
  <2>1. \A i \in 1..Len(queue') : i + 1 \in 1..Len(queue) /\ queue'[i] = queue[i + 1]
    BY <1>3
  <2>2. \A i \in 1..Len(queue) : \A m, n \in In(queue[i].text) : m = n
    BY <1>4 DEF BufferInv, OneAtATime
  <2>3. /\ \A c, d \in Clients : Open(c) /\ Open(d) => c = d
        /\ \A m \in In(received) : \E c \in Clients : Open(c) /\ m = Current(c)
    BY <1>4 DEF BufferInv, OneAtATime
  <2>4. QED
    BY <1>4, <2>1, <2>2, <2>3
<1>14. QED
  BY <1>3, <1>5, <1>6, <1>9, <1>10, <1>11, <1>12, <1>13 DEF BufferInv

(* Draining starts, or nothing happens. *)
LEMMA DrainingPreserves ==
    ASSUME BufferInv, draining' \in BOOLEAN, draining' => queue # <<>>,
           UNCHANGED <<serial, part, number, received, queue, accepted, refused, drops>>
    PROVE  /\ BufferInv'
           /\ UNCHANGED <<InQueue, Accepted>>
           /\ \A c \in Clients : Current(c)' = Current(c) /\ Open(c)' = Open(c)
<1>1. UNCHANGED <<InQueue, Accepted>>
  BY DEF InQueue, Accepted
<1>2. \A c \in Clients : Current(c)' = Current(c) /\ Open(c)' = Open(c)
  BY DEF Current, Open, Closed
<1>3. TypeOK' /\ BeginsAtTheBeginning'
  BY DEF BufferInv, TypeOK, BeginsAtTheBeginning
<1>4. Assembled' /\ Numbered' /\ NotPassed'
  BY <1>1, <1>2 DEF BufferInv, Assembled, Numbered, NotPassed
<1>5. Ordered' /\ Addressed'
  BY <1>1 DEF BufferInv, Ordered, Addressed
<1>6. Dependable' <=> Dependable
  BY DEF Dependable
<1>7. OneAtATime'
  BY <1>2, <1>6 DEF BufferInv, OneAtATime
<1>8. QED
  BY <1>1, <1>2, <1>3, <1>4, <1>5, <1>7 DEF BufferInv

(* A refused message: the buffer is full, which one message alone that     *)
(* fits never makes it.                                                    *)
LEMMA RefusedIsLossy ==
    ASSUME BufferInv, NEW c \in Clients, Open(c), Len(received) >= Capacity
    PROVE  ~Dependable
<1>1. Dependable => Len(received) = part[c]
  BY TextOfOne
<1>2. part[c] \in Nat /\ part[c] < Frags
  BY BufferTypes DEF Open, Closed
<1>3. QED
  BY <1>1, <1>2 DEF Dependable

THEOREM BufferInvariant == Spec => []BufferInv
<1>1. Init => BufferInv
  <2> SUFFICES ASSUME Init
               PROVE  BufferInv
    OBVIOUS
  <2>1. In(received) = {} /\ InQueue = {} /\ Accepted = {}
    BY DEF Init, In, InQueue, QueuedIn, Accepted
  <2>2. TypeOK
    <3>1. part \in [Clients -> 0..Frags] /\ number \in [Clients -> 0..MaxMessages]
      BY DEF Init, Closed
    <3>2. \A S : <<>> \in Seq(S)
      OBVIOUS
    <3>3. Len(<<>>) <= Capacity /\ 0 \in Nat
      OBVIOUS
    <3>4. QED
      BY <3>1, <3>2, <3>3 DEF Init, TypeOK
  <2>3. \A c \in Clients : ~Open(c)
    BY DEF Init, Open
  <2>4. Assembled /\ Numbered /\ NotPassed /\ Ordered /\ OneAtATime
    BY <2>1, <2>3
    DEF Init, Assembled, Numbered, NotPassed, Ordered, OneAtATime
  <2>5. BeginsAtTheBeginning /\ Addressed
    BY DEF Init, BeginsAtTheBeginning, Addressed
  <2>6. QED
    BY <2>2, <2>4, <2>5 DEF BufferInv
<1>2. BufferInv /\ [Next]_vars => BufferInv'
  <2> SUFFICES ASSUME BufferInv, [Next]_vars
               PROVE  BufferInv'
    OBVIOUS
  <2>1. ASSUME NEW c \in Clients, Connect(c)
        PROVE  BufferInv'
    BY <2>1, ConnectPreserves
  <2>2. ASSUME NEW c \in Clients, Receive(c)
        PROVE  BufferInv'
    BY <2>2, ReceivePartPreserves, ReceiveWholePreserves
  <2>3. ASSUME NEW c \in Clients, Refuse(c)
        PROVE  BufferInv'
    <3>1. /\ Open(c) /\ Len(received) >= Capacity
          /\ part' = [part EXCEPT ![c] = Closed]
          /\ refused' = refused \cup {Current(c)}
          /\ UNCHANGED <<serial, number, received, queue, draining, accepted, drops>>
      BY <2>3 DEF Refuse, Open
    <3>2. refused' \subseteq Messages
      BY <3>1, BufferTypes
    <3>3. ~Dependable'
      BY <3>1, RefusedIsLossy DEF Dependable
    <3>4. drops' \in Nat /\ drops' >= drops
      BY <3>1 DEF BufferInv, TypeOK
    <3>5. QED
      BY <3>1, <3>2, <3>3, <3>4, ClosePreserves
  <2>4. ASSUME NEW c \in Clients, Drop(c)
        PROVE  BufferInv'
    <3>1. /\ part' = [part EXCEPT ![c] = Closed]
          /\ UNCHANGED <<serial, number, received, queue, draining, accepted, refused>>
          /\ drops' = drops + 1 /\ drops \in Nat /\ refused \subseteq Messages
      BY <2>4 DEF Drop, BufferInv, TypeOK
    <3>2. drops' \in Nat /\ drops' >= drops /\ ~Dependable'
      BY <3>1 DEF Dependable
    <3>3. QED
      BY <3>1, <3>2, ClosePreserves
  <2>5. CASE StartDraining
    BY <2>5, DrainingPreserves DEF StartDraining
  <2>6. CASE Handle
    BY <2>6, HandlePreserves
  <2>7. CASE UNCHANGED vars
    <3>1. draining \in BOOLEAN /\ (draining => queue # <<>>)
      BY DEF BufferInv, TypeOK, Addressed
    <3>2. QED
      BY <2>7, <3>1, DrainingPreserves DEF vars
  <2>8. QED
    BY <2>1, <2>2, <2>3, <2>4, <2>5, <2>6, <2>7 DEF Next
<1>3. QED
  BY <1>1, <1>2, PTL DEF Spec

(* Every variable keeps its type, and the buffer never outgrows its array. *)
THEOREM TypeCorrect == Spec => []TypeOK
  BY BufferInvariant, PTL DEF BufferInv

(* However connections are woven together, refused or cut off, the         *)
(* fragments the buffer has of a message are its first ones, in order:     *)
(* counting braces from the start of the buffer is sound.                  *)
THEOREM BufferBegins == Spec => []BeginsAtTheBeginning
  BY BufferInvariant, PTL DEF BufferInv

(* The messages of a client reach the aggregation in the order it began    *)
(* them, none of them twice.                                               *)
THEOREM KeepsOrder == Spec => []InOrder
<1>1. BufferInv => InOrder
  <2> SUFFICES ASSUME BufferInv
               PROVE  InOrder
    OBVIOUS
  <2>1. DOMAIN accepted = 1..Len(accepted)
    BY BufferTypes
  <2>2. QED
    BY <2>1 DEF BufferInv, Ordered, Before, InOrder
<1>2. QED
  BY <1>1, BufferInvariant, PTL
-----------------------------------------------------------------------------
(* The buffer and the queue implement the channel.                         *)

(* What it is for a message to be in flight, before a step and after it. *)
LEMMA MessagesInFlight ==
    ASSUME NEW m
    PROVE  /\ m \in InFlight <=>
                \/ \E c \in Clients : Open(c) /\ m = Current(c)
                \/ m \in In(received) /\ Whole(received, m)
                \/ m \in InQueue
           /\ m \in InFlight' <=>
                \/ \E c \in Clients : Open(c)' /\ m = Current(c)'
                \/ m \in In(received') /\ Whole(received', m)
                \/ m \in InQueue'
  BY DEF InFlight, Open, InQueue, QueuedIn

(* What an open connection is sending is nowhere else, and not whole.      *)
LEMMA SendingIsApart ==
    ASSUME BufferInv, NEW c \in Clients, Open(c)
    PROVE  /\ ~Whole(received, Current(c))
           /\ Current(c) \notin InQueue
           /\ Current(c) \in InFlight
           /\ \A d \in Clients : d # c => Current(d) # Current(c)
<1>1. Cardinality(Places(received, Current(c))) = part[c] /\ part[c] # Frags
  BY DEF BufferInv, Assembled, Open, Closed
<1>2. \A d \in Clients : d # c => Current(d) # Current(c)
  BY BufferTypes
<1>3. QED
  BY <1>1, <1>2, MessagesInFlight DEF BufferInv, NotPassed, Whole

LEMMA ConnectSends ==
    ASSUME BufferInv, NEW c \in Clients, Connect(c)
    PROVE  Channel!Send(Current(c)')
<1>1. /\ ~Open(c) /\ Open(c)'
      /\ \A d \in Clients : d # c => Current(d)' = Current(d) /\ Open(d)' = Open(d)
      /\ UNCHANGED <<received, accepted, InQueue>>
  <2>1. /\ part' = [part EXCEPT ![c] = 0] /\ number' = [number EXCEPT ![c] = @ + 1]
        /\ part[c] = Frags
        /\ UNCHANGED <<received, queue, accepted>>
    BY DEF Connect, Closed
  <2>2. /\ part'[c] = 0
        /\ \A d \in Clients : d # c => part'[d] = part[d] /\ number'[d] = number[d]
    BY <2>1, BufferTypes
  <2>3. QED
    BY <2>1, <2>2 DEF Open, Closed, Current, InQueue
<1>2. /\ Current(c)' \notin In(received) \cup InQueue \cup Accepted
      /\ \A d \in Clients : d # c => Current(d)' # Current(c)'
  BY ConnectPreserves
<1>3. Current(c)' \notin InFlight
  BY <1>1, <1>2, MessagesInFlight
<1>4. \A m : m \in InFlight' <=> m \in InFlight \/ m = Current(c)'
  BY <1>1, MessagesInFlight
<1>5. InFlight' = InFlight \cup {Current(c)'}
  BY <1>4
<1>6. QED
  BY <1>1, <1>2, <1>3, <1>5 DEF Channel!Send, Channel!Delivered, Accepted

(* A fragment more changes nothing about what is under way. *)
LEMMA ReceiveStutters ==
    ASSUME BufferInv, NEW c \in Clients, Receive(c)
    PROVE  UNCHANGED <<InFlight, accepted>>
<1>1. /\ Open(c) /\ accepted' = accepted
      /\ (Open(c)' <=> part[c] + 1 # Frags)
      /\ \A d \in Clients : d # c => (Open(d)' <=> Open(d))
      /\ \A d \in Clients : Current(d)' = Current(d)
      /\ IF IsCompleteJson(Text(c))
         THEN /\ received' = <<>>
              /\ queue' = Append(queue, [ip |-> c, text |-> Text(c)])
         ELSE received' = Text(c) /\ queue' = queue
  BY ReceiveCounts
<1>2. /\ In(Text(c)) = In(received) \cup {Current(c)}
      /\ \A m : m # Current(c) => (Whole(Text(c), m) <=> Whole(received, m))
      /\ Whole(Text(c), Current(c)) <=> part[c] + 1 = Frags
  BY <1>1, TextOfFragment DEF Whole
<1>3. /\ ~Whole(received, Current(c))
      /\ Current(c) \in InFlight
  BY <1>1, SendingIsApart
<1>4. ASSUME NEW m, m # Current(c)
      PROVE  m \in InFlight' <=> m \in InFlight
  <2>1. (\E d \in Clients : Open(d)' /\ m = Current(d)') <=>
          (\E d \in Clients : Open(d) /\ m = Current(d))
    BY <1>1, <1>4
  <2>2. CASE IsCompleteJson(Text(c))
    <3>1. InQueue' = InQueue \cup In(Text(c)) /\ In(received') = {}
      BY <2>2, ReceiveWholePreserves
    <3>2. m \in In(Text(c)) <=> m \in In(received) /\ Whole(received, m)
      BY <1>2, <1>4, <2>2 DEF IsCompleteJson
    <3>3. QED
      BY <2>1, <3>1, <3>2, MessagesInFlight
  <2>3. CASE ~IsCompleteJson(Text(c))
    <3>1. InQueue' = InQueue /\ received' = Text(c)
      BY <1>1, <2>3 DEF InQueue
    <3>2. QED
      BY <1>2, <1>4, <2>1, <3>1, MessagesInFlight
  <2>4. QED
    BY <2>2, <2>3
<1>5. Current(c) \in InFlight'
  <2>1. CASE part[c] + 1 # Frags
    BY <1>1, <2>1, MessagesInFlight
  <2>2. CASE IsCompleteJson(Text(c))
    <3>1. InQueue' = InQueue \cup In(Text(c))
      BY <2>2, ReceiveWholePreserves
    <3>2. QED
      BY <1>2, <3>1, MessagesInFlight
  <2>3. CASE part[c] + 1 = Frags /\ ~IsCompleteJson(Text(c))
    <3>1. received' = Text(c)
      BY <1>1, <2>3
    <3>2. QED
      BY <1>2, <2>3, <3>1, MessagesInFlight
  <2>4. QED
    BY <2>1, <2>2, <2>3
<1>6. InFlight' = InFlight
  BY <1>3, <1>4, <1>5
<1>7. QED
  BY <1>1, <1>6

(* A connection that closes early loses what it was sending, nothing else. *)
LEMMA CloseLoses ==
    ASSUME BufferInv, NEW c \in Clients, Open(c), ~Dependable',
           part' = [part EXCEPT ![c] = Closed], drops' \in Nat,
           UNCHANGED <<serial, number, received, queue, accepted>>
    PROVE  \E lost \in SUBSET InFlight : Channel!Lose(lost)
<1>1. /\ \A d \in Clients : Open(d)' <=> d # c /\ Open(d)
      /\ \A d \in Clients : Current(d)' = Current(d)
      /\ InQueue' = InQueue
  BY BufferTypes DEF Current, Open, Closed, InQueue
<1>2. \A m : m \in InFlight' <=> m \in InFlight /\ m # Current(c)
  BY <1>1, SendingIsApart, MessagesInFlight
<1>3. InFlight' = InFlight \ {Current(c)}
  BY <1>2
<1>4. ~serial' \/ drops' > 0 \/ Frags > Capacity
  BY DEF Dependable
<1>5. {Current(c)} \in SUBSET InFlight
  BY SendingIsApart
<1>6. QED
  BY <1>3, <1>4, <1>5 DEF Channel!Lose

(* The oldest text is the one message in it, delivered, or it is several   *)
(* woven together, which are lost.                                         *)
LEMMA HandleDelivers ==
    ASSUME BufferInv, Handle
    PROVE  \/ \E m \in Messages : Channel!Deliver(m)
           \/ \E lost \in SUBSET InFlight : Channel!Lose(lost)
<1> DEFINE gone == In(Head(queue).text)
<1>1. /\ InQueue = gone \cup InQueue'
      /\ \A m \in gone : \A n \in InQueue' : Before(m, n)
      /\ IF Cardinality(gone) = 1
         THEN \E m \in Messages : /\ gone = {m}
                                  /\ accepted' = Append(accepted, m)
                                  /\ Accepted' = Accepted \cup {m}
         ELSE UNCHANGED <<accepted, Accepted>>
  BY HandlePreserves
<1>2. queue # <<>> /\ Head(queue) = queue[1] /\ 1 \in 1..Len(queue)
  BY BufferTypes, QueueTail DEF Handle, BufferInv, Addressed
<1>3. gone # {} /\ (Dependable => \A m, n \in gone : m = n)
  BY <1>2 DEF BufferInv, Addressed, OneAtATime
<1> HIDE DEF gone
<1>4. /\ \A d \in Clients : Current(d)' = Current(d) /\ (Open(d)' <=> Open(d))
      /\ received' = received /\ UNCHANGED <<serial, drops>>
  BY DEF Handle, Current, Open, Closed
<1>5. ASSUME NEW m \in gone
      PROVE  m \notin InQueue' /\ m \notin In(received)
             /\ \A c \in Clients : Open(c) => m # Current(c)
  <2>1. m \in InQueue /\ m \in Messages
    BY <1>1, <1>5, BufferTypes
  <2>2. ~Before(m, m)
    BY <2>1, BufferTypes DEF Before
  <2>3. QED
    BY <1>1, <1>5, <2>1, <2>2 DEF BufferInv, Ordered, NotPassed
<1>6. \A m : m \in InFlight' <=> m \in InFlight /\ m \notin gone
  BY <1>1, <1>4, <1>5, MessagesInFlight
<1>7. gone \subseteq InFlight
  BY <1>1, MessagesInFlight
<1>8. InFlight' = InFlight \ gone
  BY <1>6
<1>9. CASE Cardinality(gone) = 1
  <2>1. PICK m \in Messages : gone = {m} /\ accepted' = Append(accepted, m)
    BY <1>1, <1>9
  <2>2. Channel!Deliver(m)
    BY <1>7, <1>8, <2>1 DEF Channel!Deliver
  <2>3. QED
    BY <2>2
<1>10. CASE Cardinality(gone) # 1
  <2>1. ~Dependable
    <3> SUFFICES ASSUME Dependable
                 PROVE  FALSE
      OBVIOUS
    <3>1. PICK m : gone = {m}
      BY <1>3
    <3>2. Cardinality({m}) = 1
      BY FS_Singleton
    <3>3. QED
      BY <1>10, <3>1, <3>2
  <2>2. ~serial' \/ drops' > 0 \/ Frags > Capacity
    BY <1>4, <2>1 DEF Dependable, BufferInv, TypeOK
  <2>3. Channel!Lose(gone)
    BY <1>1, <1>8, <1>10, <2>2 DEF Channel!Lose
  <2>4. QED
    BY <1>7, <2>3
<1>11. QED
  BY <1>9, <1>10

(* The buffer and the queue implement the channel: however connections     *)
(* overlap and break, a message leaves the path only whole, once and as    *)
(* its sender's, or is lost; and while connections neither overlap nor     *)
(* break, and a message fits, none is lost.  (That they all arrive then,   *)
(* the liveness of the channel, is model-checked.)                         *)
THEOREM BufferImplementsChannel == Spec => ImplementsChannelSafety
<1>1. Init => Channel!Init
  <2> SUFFICES ASSUME Init
               PROVE  Channel!Init
    OBVIOUS
  <2>1. In(received) = {} /\ InQueue = {} /\ \A c \in Clients : ~Open(c)
    BY DEF Init, In, InQueue, QueuedIn, Open
  <2>2. InFlight = {}
    BY <2>1, MessagesInFlight
  <2>3. QED
    BY <2>2 DEF Init, Channel!Init
<1>2. BufferInv /\ [Next]_vars => [Channel!Next]_(Channel!vars)
  <2> SUFFICES ASSUME BufferInv, [Next]_vars
               PROVE  Channel!Next \/ UNCHANGED <<InFlight, accepted>>
    BY DEF Channel!vars
  <2>1. ASSUME NEW c \in Clients, Connect(c)
        PROVE  Channel!Next
    BY <2>1, ConnectPreserves, ConnectSends DEF Channel!Next
  <2>2. ASSUME NEW c \in Clients, Receive(c)
        PROVE  UNCHANGED <<InFlight, accepted>>
    BY <2>2, ReceiveStutters
  <2>3. ASSUME NEW c \in Clients, Refuse(c)
        PROVE  Channel!Next
    <3>1. /\ Open(c) /\ Len(received) >= Capacity
          /\ part' = [part EXCEPT ![c] = Closed]
          /\ UNCHANGED <<serial, number, received, queue, accepted, drops>>
          /\ drops \in Nat
      BY <2>3 DEF Refuse, Open, BufferInv, TypeOK
    <3>2. ~Dependable'
      BY <3>1, RefusedIsLossy DEF Dependable
    <3>3. QED
      BY <3>1, <3>2, CloseLoses DEF Channel!Next
  <2>4. ASSUME NEW c \in Clients, Drop(c)
        PROVE  Channel!Next
    <3>1. /\ Open(c) /\ part' = [part EXCEPT ![c] = Closed]
          /\ UNCHANGED <<serial, number, received, queue, accepted>>
          /\ drops' = drops + 1 /\ drops \in Nat
      BY <2>4 DEF Drop, Open, BufferInv, TypeOK
    <3>2. drops' \in Nat /\ ~Dependable'
      BY <3>1 DEF Dependable
    <3>3. QED
      BY <3>1, <3>2, CloseLoses DEF Channel!Next
  <2>5. CASE StartDraining \/ UNCHANGED vars
    BY <2>5 DEF StartDraining, vars, InFlight, Current
  <2>6. CASE Handle
    BY <2>6, HandleDelivers DEF Channel!Next
  <2>7. QED
    BY <2>1, <2>2, <2>3, <2>4, <2>5, <2>6 DEF Next
<1>3. QED
  BY <1>1, <1>2, BufferInvariant, PTL DEF Spec, ImplementsChannelSafety
=============================================================================
