# Federated learning on ESP32: specifications, model checking and proofs

This directory specifies the federated learning system of this repository in
TLA+: an aggregation server (`FederatedLearningServer/`, C, sockets and
libwebsockets) and the ESP32 clients (`FederatedLearningESP32/`, C, ESP-IDF) that
train a small neural network on data of their own and send it to the server.
TLC checks the modules on small instances; TLAPS proves theorems about every one
that models code, for every instance.

## The system

| Part | Code | State it keeps | Operations |
|---|---|---|---|
| Rounds of training | `src/federatedlearning.c` (server) | `struct FederatedLearning`: the global network, its status flag, the counters of trainings and rounds; `NodeControl`: the list of nodes, how many there are, the network in which updates are summed | `AggregationModel`: sum, test whether all nodes have interacted, divide, free, copy, clear, advance |
| Networks in memory | same file | linked lists of layers, neurons, weights | initialise, copy, free, set to zero |
| HTTP server | `src/httpserver.c`, `src/httphandlers.c` | none of its own; reads and writes the above from one thread per request | `noderegister`, `checkmodelstatus`, `getglobalmodel`, and pages without effect |
| WebSocket server | `src/websocketserver.c`, `src/websockethandlers.c` | one static receive buffer for all connections, a linked queue of complete messages | receive a fragment, queue a message, drain the queue into `AggregationModel` |
| JSON conversion | `JSONConverter.c` on both sides | none between calls; within one, local pointers into the tree | `federatedLearningToJSON`, `JSONToFederatedLearning` |
| cJSON | `cJSON.c` on both sides | linked trees of items; the buffer that a text is printed into | create, add, look up, delete, print, parse |
| Client main loop | `main/main.c` | its place in `deep_learning`, its copy of the network | wait for the server, register, poll, fetch, train, send |
| Client requests | `components/http/httpclient.c` | the global pointer `req` to the answer | four GET requests |
| Client updates | `components/websocket/websocketclient.c` | none between updates | connect, wait two seconds, send or give up |
| WebSocket client library | `components/espwebsocketclient/` | its task, connection state, buffers | start, stop, send, reconnect |
| Training | `components/federatedlearning/` | network, place in the data set, one sample, vectors and matrix of deltas and weights | `NeuralNetworkTraining`, `FeedFoward`, `BackPropagation`, `PerformanceMetrics` |
| Board set-up | `main/espconfiguration.c` | none | UART, Wi-Fi and file system, once at boot |

They interact like this. A client asks `isserverworking` until it is answered,
registers once, and then polls `checkmodelstatus` every 500 ms. The
answer is 1 when the rounds are not over, as many clients are registered as
the server waits for, the client's own count of interactions equals the
round, and the model is not being changed. It then fetches the global model,
trains it, sends the result over a WebSocket connection opened for it, waits
500 ms and polls again. Nobody acknowledges an update. On the server a single
WebSocket thread puts fragments together, and between two calls of
`lws_service` handles every complete message: it counts the sender's
interaction and runs `AggregationModel`. HTTP requests run beside it, each in a
thread of its own, with no lock: the semaphores of `handle_request`
(`httpserver.c:42` and `:70`) are commented out. All they share is therefore
read and written in interleaved steps.

What is hard: the interleaving of HTTP threads with each other and with the
aggregation; the protocol's reliance on the equality of counters (`interaction`,
`currentinteraction`, `clientnodesregistered`, `trainingscounter`); one buffer for
all connections; updates lost or late; devices that reboot; and on the client
one global pointer for all answers, and two tasks that share a WebSocket client and
its lifetime. In one thread it is memory: networks that are freed and copied from one
another round after round, vectors sized by variables carried from one layer to the next, trees
built by calls that nobody checks, and a text printed into a buffer that grows. `PROJECT.json` lists the hazards line by line.

## The modules

Twelve modules model code, two compose some of them, two are abstract
specifications of one each, and `FederatedRounds` is that of the whole.

    FederatedLearning ---implements--> FederatedRounds
      |  the list it takes as a set    NodeRegister  --implements--> Admission
      |  the channel it takes as given ReceiveBuffer --implements--> MessageChannel
      |  the numbers it leaves out     GlobalModel
      |  the answers it takes as given HttpClient
      |  the sending it takes as one    EspWebsocketClient
      |  the networks it takes as sets  NetworkCycle  = NetworkMemory (server)
      |  and the training as one step                   + Training (client)
      |  the text it takes as a model   ModelExchange = ModelToJson + CJsonPrint
                                                        + CJsonParse, on CJson

`FederatedLearning` is the whole system at the level of the protocol. What it
takes as atomic or as given is looked at in a module of its own, at the level
of the statements in question.

- **FederatedLearning**: server threads, clients and network. `pc[c]` is the place of
  client `c` in `deep_learning` and, while a request is outstanding (`compare`,
  `status`, `serialise`), that of the HTTP thread serving it. A client that stops
  waiting (`TimesOut`, `Reboot`) leaves that thread behind in `orphans`, where it goes
  on through the same handler: it may register the client late, and it may walk
  a model that is freed meanwhile. `ws` is the place of
  the WebSocket thread. `AggregationModel` is cut where it touches what HTTP
  threads can see: `LowerStatus`, `Sum`, `Await` or `CompleteRound`, `Average`,
  `FreeGlobal`, `CopyGlobal`, `SetZero`, `Advance`, `RaiseStatus`. A network is
  the set of updates averaged in it; an update remembers its sender and the
  version of the model it was trained from. Lost updates, abandoned requests and
  reboots are actions that use up `MaxFailures`. An update that is cut off in the
  middle leaves its beginning in the receive buffer (`CutOff`, `clogged`), after which
  the server receives, and drops, whatever is sent (`Swallow`); one whose connection breaks
  before that is only lost (`LoseUpdate`). Following a NULL or freed
  pointer may stop the server (`up`); reading freed memory may also go
  unnoticed, so `EndSerialise` is possible after a free as well.
- **FederatedRounds**: what the above promises: in each round every client
  contributes once, then the average of all is published.
- **NodeRegister**: `handle_get_noderegister`, one action per load or store of the
  list and its counter. A node is named after the request whose thread
  allocated it. **Admission** is what it promises when requests do not overlap.
- **ReceiveBuffer**: `callback_echo`, `is_complete_json`, the queue and
  `handle_message`. A fragment is a message and a part number; the braces of a
  text balance when every message in it is there to its last part, and a text
  parses when it holds one message. **MessageChannel** is the abstract channel:
  whole, once, under the right name, or lost.
- **GlobalModel**: the arithmetic of `FederatedAveragingSum`, `FederatedAveraging` and
  `SetNeuralNetworkZeroWeightValue` on every weight and bias of a network, in
  exact rationals. It has the assignment of `bias = 0` before the loop over the
  neurons, where the code has it.
- **HttpClient**: the life of `req` over `isserverworking`, `registernode`,
  `getglobalmodelstatus` and `getglobalmodel`: allocated by the event handler, read
  and deleted by the caller, never reset. Each event that brings a piece of a body is
  an action: `Answer` for a whole one, `Unparsed`, or `Piece`, whose tree (a number, or an
  object inside of the answer) takes the place of the one before without deleting it.
  A last piece that is an object is trained as a model, as the code does.
- **EspWebsocketClient**: one call of `websocket_send_local_model`, statement by
  statement where it matters, beside the client's task that it creates. `app` and
  `task` are their places in the code; `run`, `state`, `bits`, `lock` and `transport`
  are the fields of `struct esp_websocket_client` of those names. `SendWithOpcode`,
  `WritePiece` and `WriteFails` are the locked part of a send, in which a write may take
  less than it is given; `Poll` and `AbortPoll`
  the part of the task that runs without the lock. After a close by the server `run`
  is reset (`ConnectionClosed`), the state set (`ForgetConnection`) and the event dispatched
  (`DispatchClosed`), and `stop` and `destroy` may come in between. The `break` under "still waiting"
  (line 1045) leaves the task's loop and not a `switch`, which is what
  `StillWaiting` does.
- **NetworkMemory**: the networks of the server as nodes at addresses, `heap`. Each
  `malloc` with its linking is a step (`AddLayer`, `AddNeuron`, `AddWeight`; `CopyLayer` and
  `NeuronCopied` and so on, because `CopyNeuralNetwork` links a node when all that it
  contains has been copied), and so is each `free`. `AppendBuilt` is the linking of
  `InitializeNeuralNetWork` and `JSONToFederatedLearning`, `AppendCopied` that of the copies:
  the first node of a list is linked behind itself. An update may run out of memory
  while it is converted; what it had built is then `forgotten`, as is each update that
  was summed. A free of a freed node stops the model (`TouchFreed`).
- **Training**: one epoch, sample and layer after the other. A vector is its size, a
  value is the line of the data set that it was read from, the activation values of
  a layer are the number of the sample they belong to. `BackPropagation` carries
  `deltafunctionsnumber`, `weightslines` and `weightscolumn` from layer to layer as the code
  does, and `outside` records an access beyond what was allocated or stored. The data set
  may fail to open.
- **NetworkCycle**: one client and the server in turns: fetch, train, send, convert,
  sum, free, copy, evaluate.
- **CJson**: items at addresses, each list with the `prev` of its first item at its last
  one; creating, adding, looking up, deleting. `Fails` is an allocation that fails; one
  succeeds only where there is room (`HasRoom`).
- **ModelToJson**: the calls of `federatedLearningToJSON` in their order, as data that
  `CreateItem`, `AddItemToObject`, `AddItemToArray` and `NothingAdded` interpret.
- **CJsonPrint**: `cJSON_Print` with its buffer: `length`, `offset`, where the last piece was
  terminated and how much was ever written. `Ensured` and `Refused` are `ensure`; each
  piece is what it asks room for, what it writes and how far it advances the offset.
- **CJsonParse**: `cJSON_Parse` on tokens, with one frame per `parse_array` or `parse_object` that
  is active; on the way out of a text that is refused each frame deletes its list.
- **ModelExchange**: a model from the server to a client, which parses any piece of the
  text that one event may hold, or an update from a client to the server, which has
  the whole. A field of what is received is the set of the one value it was given, and
  empty when its memory stays uninitialised.
- `MC*` are the instances for TLC, and `*Proofs` hold the theorems about the module that
  they are named after and those it is made of: **NetworkCycleProofs** those about
  NetworkMemory and Training, **ModelExchangeProofs** those about CJson, ModelToJson,
  CJsonPrint and CJsonParse.

Definitions called `X_Something` beside an action `X` are the same action with
a plausible bug seeded in it. They are used only to make sure that each
property notices such a bug; no specification contains them.

Some choices that matter:

- The Makefile builds without optimisation, so loads and stores happen in
  program order, and x86 and the C library keep them so.
- `clientnodesregistered` is read in `getFederatedLearningInstance`'s allocation
  before anything is stored in it. The models start it at 0, what the first
  allocations of a fresh process yield.
- A client's main loop is sequential, so it has one request outstanding. Its
  own trainings counter is always sent as 1; `GlobalModel` allows for 2 too,
  which `FederatedAveragingSum` provides for.
- A weight or bias that is infinite or no number (`nan`) is printed as `null`. The
  receiver takes the weight for 0 (`valuedouble` of any item) and leaves the bias
  uninitialised. The server deletes the tree that it printed
  (`httphandlers.c:56`); the client deletes neither that of `main.c:56` nor that of
  `websocketclient.c:74`. When printing fails nobody goes on: the server does not
  answer with a model, the client's main loop returns.
- Addresses are handed out lowest first in NetworkMemory and CJson. Nothing depends
  on which free one it is: no list with freed nodes is walked while anything is
  allocated. In CJson nothing is freed before all is allocated, so that the address of an item is
  the moment of its making, which the proofs use.
- Two of the models have a variable `serial` that never changes: in behaviours
  where it is TRUE, requests or connections of different clients do not
  overlap. One run then says both what holds without overlap and what is left
  of it with overlap.

## The hypotheses

The protocol is right only under hypotheses that the code does not enforce, and
that are stated where they are used:

- `PromptUpdates`: when a client polls, its previous update has been handled or
  lost. This is what the 500 ms of `main.c:68` are for. Without it
  `EveryClientAveraged` fails (run `missing_client`).
- Registrations do not overlap, in all of FederatedLearning, where one is a single
  step. NodeRegister has the handler store by store, and run `register_lost` the node
  that is lost when two overlap.
- A client that is not answered knows it, in FederatedLearning. In HttpClient it may
  take the deleted answer of an older request for one (`silent`).
- `Undisturbed`, for the liveness of FederatedLearning: from some point on no beginning of a
  message lies in the receive buffer, the server is up, and every client past its
  registration is registered. Each of the three can fail for good in the code: by
  one connection that breaks in the middle of a message, by the thread of an abandoned
  request that reads a freed model, and by a registration that did not reach
  the server (`registernode` does not look at the answer). The safety properties
  do not need it.
- `Cardinality(Clients) = ClientNodes`: exactly the devices that the server waits
  for run. Without it a device that was told "limit reached" polls all the same, and
  the server follows a NULL pointer: `CompareWithoutNode`, which run `anytime` reaches.
  `OnlyRefusedAreUnknown` needs no such hypothesis and says that this is the only way.
- `HiddenLayersAgree` and `LinesFit`, in Training: the hidden layers have the same number
  of neurons, and a line of the data set has `Fields` values, one per input and
  output. The shipped 4-3-3-3 and its data sets are so. Without the first,
  back-propagation reads and writes past its vectors; run `networks` has such shapes.
- No layer of one neuron, in `NetworksAreSound`: a list of one node is copied into a ring
  (`federatedlearning.c:155`), whose next free does not end where it should.
- In EspWebsocketClient, two delays are taken at their word: a task created is running
  two seconds later (`Delay`), and a connection does not open before
  `esp_websocket_client_start` has gone from line 1081 to 1086 (`ConnectSucceeds`). Without
  the second, a task that came to its end that early would have its STOPPED_BIT
  cleared, and `stop` would wait for ever.
- `serial`, in NodeRegister and ReceiveBuffer: runs `register_lost` and `messages`
  show what becomes of overlap.

## The runs

| Run | Instance | Question and result |
|---|---|---|
| `rounds` | 2 clients, 2 rounds, 2 failures | Under both hypotheses: each published model averages one update of every client, trained from the model before (`RoundIsComplete`); no thread reads a freed model while its client waits for it; no client is invited twice in a round; the count of rounds stops in time; the protocol implements FederatedRounds (`RefinesRounds`); and every round completes (`TrainingCompletes`), unless what `Undisturbed` excepts stops the training. |
| `anytime` | 3 devices, 2 nodes, 2 rounds, late updates | Without the hypotheses the divisor still counts the sum (`AverageIsExact`), no client falls behind a round, and no handler searches in vain but for a device too many (`OnlyRefusedAreUnknown`). |
| `missing_client` | 2 clients, late updates | *Violated*: a round is published without one of the clients, against `federatedlearning.c:732`. |
| `register` | 3 devices, 4 requests | Without overlap the list is sound, implements Admission, and training opens. With overlap nodes get lost, but the list always ends (`WalksEnd`), so that no loop over it hangs. |
| `register_lost` | 3 devices, 3 requests | *Violated*: a client told "added" is not on the list. |
| `messages` | 2 clients, 3 messages each, 1 broken connection | A reliable channel without overlap and breaks; with them lossy, but never wrong. What is in the buffer of a message is always its beginning; without a break the buffer recovers from the first messages of all clients woven together, and no client stays refused if it has room for these (`Recovers`). After a broken connection it may fill up and refuse messages of normal size for good, which the property excepts. |
| `average` | 3 layers, 2 clients, 3 rounds | Weights and first biases are the exact weighted mean of the round's updates, and what stays behind in the other biases is bounded (it does not build up). |
| `leftover_bias` | the same, 1 round | *Violated*: a round does not start from zero. |
| `requests` | 6 requests, up to 3 pieces | Whatever arrives, whole, cut or not at all, an answer is leaked only when a later piece of the same body took its place (`NothingElseLeaks`); until a request stays unanswered none is used after it was deleted, and the client acts on what arrived last only: a whole answer, or an inner object that it takes for a model. |
| `websocket` | 4 units in a buffer of 2, 3 connections | A message is framed as one, but for a FIN repeated after a short write, and stays on one connection, although the task may abort that without the lock; the client is freed only out of the task's loop and after STOPPED_BIT, but after a close by the server; and the call always returns. |
| `networks` | 7 shapes, 3 lines, 2 samples, 2 epochs, 2 rounds | Round after round the networks are complete, share nothing, and nothing leaks but the updates (`NetworksAreSound`); back-propagation stays inside its vectors (`BackPropagationStaysInside`); a model counted as trained was (`CountedIsTrained`), by the values of each line in turn (`TrainsOnEachLine`). |
| `json` | networks 2-1 and 1-1-1, 1 failed allocation | What arrives is the model that was sent, or a part of it with everything at its place (`ArrivesAsSent`); nothing is leaked but what could not be added and the client's own trees (`NothingLeaks`); the text stays inside its buffer (`PrintStaysInside`). |

The violated runs are disagreements between the code and a comment or message
of its own, quoted in `PROJECT.json`.

### Bounds

- `MaxFailures`: lost updates, abandoned requests and reboots together. Two allow one
  failure while another is being recovered from, or two threads left behind.
  `MaxSends` (updates per client) is one per round and failure in `rounds`, so it
  never binds there. In `anytime` it cuts the behaviours off, and so does `FourEvents`: they
  have four updates, which are two rounds, or three with one failure.
- Two rounds are enough for a leftover of one round to reach the next; the
  theorems below are for any number. Two clients are one that fails and one that waits
  for the round, or two that fail; for the safety of more clients there are the
  theorems, and of liveness one failure with three clients (the shipped
  `CLIENTNODES`) gave no other result. `anytime` has three devices.
- `register`: four requests are three devices and a reboot, and reach every order
  of an empty list, a list with a lost node, a full list and a repeated address.
- `messages`: fragments in two parts are the least that can be woven together;
  `Capacity` 5 is two messages and one part, so that the buffer fills up only
  after something went wrong. `MaxMessages` and `MaxDrops` bound the messages of a
  client and the broken connections.
- `average`: two neurons in a layer are the least that tell the first from the
  others; three layers have an input, a hidden and an output layer.
  `MaxRounds` 3 lets a leftover go through two rounds.
- `requests`: three pieces are the least of which one is neither the first, which
  never parses, nor the last, which the caller deletes; `MaxRequests` 6 goes through
  the main loop twice.
- `websocket`: four units in pieces of two are one, two and, with short writes, up to
  four frames, and a last piece that is cut short; three connections are
  the one a message starts on, one to go on with by mistake, and one more.

- `networks`: the shapes <<2,2>>, <<2,3,2>>, <<2,2,2,2>>, <<3,1,2,1>>, <<1,2,1,3>>, <<3,1>> and
  <<3,2>> have no, one or two hidden layers, that agree or not, layers of one neuron
  at each place, and inputs and outputs that fit the `Fields` = 4 values of a line or do not.
  `Columns` are three lines for two `Samples`, so that an epoch that does not start from the
  first line goes on to others; two `Epochs` and one sample `Evaluated` let a file be
  opened again after each end. Two `Rounds` free what was copied. `HasRoom` ends a behaviour
  when all of the memory is in use, because most calls of `malloc` are followed without a
  test; with a `Memory` of 100 it cuts none of the run off (150 give the same states).
- `json`: `Represented` is one field of each kind that is treated differently (a
  number, the number that the list of layers depends on, a string, a number that
  may be not finite). `MaxFailures` 1 puts one failed allocation at every place. The buffer starts at
  `DefaultBufferSize` 16, so that it grows several times; `IntMax` 325 is met by the text of
  1-1-1 in full, and not if part of it was left out. `Widths` is one length of numbers and
  names; that of all lengths is the theorem's. `Items` 25 is a whole tree, so that there is always
  room, and `NestingLimit` is
  the library's 1000, which a model never reaches. 447 000 states.

Deadlock is not checked in passing runs: the registrations, messages, rounds or
requests that the bounds allow run out, a call or an exchange ends, and in the runs of
FederatedLearning an abandoned request or a device too many may stop the server.

### Fairness

`FairSpec` of FederatedLearning assumes that the WebSocket thread runs, that each
client and the threads serving it run, and that an update on its way is
delivered if it is not lost: threads and tasks are scheduled, and TCP delivers
on a connection that stays up (into the buffer, which is no use once it is
clogged). Nothing is assumed of failures but that there
are finitely many, and nothing of the threads of abandoned requests. NodeRegister assumes that every device sends its request and
every thread runs. ReceiveBuffer assumes that what is sent on an open connection
is received or refused and that the queue is drained, not that anybody sends.
EspWebsocketClient assumes that both tasks are scheduled. What the client's task
waits for in the network has time-outs; the write of a message has none
(`portMAX_DELAY`, `websocketclient.c:79`), and TCP is assumed to take some of a piece, or
to refuse it, in the end. It also assumes strong fairness of taking
the lock to send: the client's task gives it back for up to a second, while it
polls, or for five, while it sleeps, each time round. All other fairness is weak.
`networks` and `json` check safety only and assume none.

## What is proved

`FederatedLearningProofs`, for any finite set of clients, any number of rounds,
sends and failures:

- `TypeCorrect`: TypeOK, without hypotheses. It needs `WorksOnMessage`: away from
  `lws_service` the WebSocket thread has a message at the head of its queue.
- `NobodyIsLeftBehind` and `AveragesExact`, without hypotheses either: late updates and
  devices too many do not disturb their invariant, `AnytimeInv`. It says that no update
  exists before the list of nodes is full (`TrainingIsOpen`), so that nobody joins late
  with a count behind the round; that while a round is completed every node is ahead of it
  (`Ahead`); and that an update is in one place only, on the network, queued or summed
  (`OnlyOnce`), so that the counter is the size of the sum (`Counter`).
- `UnknownWereRefused`, for any devices as well: by `Admitted` the nodes are counted one by
  one, whoever is invited or has an update on its way is among them, and a search
  is begun only when the list is full.
- `RoundsComplete`, `ModelsAreReadWhole`, `InvitationsAreSingle`,
  `RoundsAreBounded` and `ImplementsRounds`, under the two hypotheses. Abandoned requests
  run on in all of them; `ModelsAreReadWhole` speaks of the others.

None of the latter invariants is inductive. `RoundInv` strengthens them with what the
design relies on and nowhere says: each client has at most one update on its way
(`OneOutstanding`), and while it has one it waits at the poll, and its count is still
equal to the round (`WaitsForUpdate`, `Uncounted`), except for the update being
handled, whose sender has just been counted (`HeadIsCounted`); a client past
the poll has the round's count, which is what keeps the round from completing
under its feet (`Invited`); the sums hold exactly the updates of the clients
that are ahead (`Sums`), and the counter is their number (`Counter`). From it:
a round completes only when the sums hold one update per client, at which point
every client is at the poll, so that nobody who still waits reads the model being freed.
The proof has one step per action and, under it, one per conjunct that the
action disturbs. A client whose status request straddles the end of the last round may still be
invited, so the number of rounds needs an invariant of its own (`BoundInv`): the
client whose update completed the last round never is, its node stays one
interaction short, and no further round completes. `ImplementsRounds` maps `Sum` to Gather, `CopyGlobal` to Publish
and every other step to a stutter; it is the safety half of `RefinesRounds`.

`HttpClientProofs`, for any number of requests and of pieces: `AnswersAreDeleted` (no leak
but of a tree that a later piece replaced), `AnsweredRequestsAreSafe` and `AnswersAreFresh` (as
long as something came of every request). The invariants are `Allocation`: what is allocated
is what `req` points to, or was replaced (with `Arrived`, that trees are of
pieces that have come); and `Fresh`: when something has come for the request, `req` is
NULL or what came last (`Latest`).

`EspWebsocketClientProofs`, for messages of any length and any number of
reconnections: `TypeCorrect`, `OneConnection`, `FramesAreOneMessage`, `FreedOutOfLoop` and
`StoppedBeforeFreed`. The invariants are `Written` (while the application writes, all
that it has written is on the present connection, since the task opens none
without the lock), `Framed` (what is written is framed as one message, and while there is more
to write FIN is only on a frame that was cut short), `Stopping` (the task loops only while
`run` is set or `stop` is waiting, and STOPPED_BIT is set only after the loop) and `Ending`
(why the task left its loop, and that it comes to the lines after a close by the
server with `run` reset and the close answered).

`NodeRegisterProofs`, for any requests and devices and any limit. What holds however the
unlocked handlers interleave is `TypeCorrect` and `EveryWalkEnds`. That the list has no cycle
is no local fact: a handler may link its node behind one that is lost. `Acyclic` says that
the nodes can be ranked by the moment each was made the last one: only such a node is given a
successor, and that has a higher rank or is still to be made the last. A path of as many
steps as there are requests would then visit one node more than there are ranks. For
requests that come one after the other, `ListStaysSound` and `AdmissionIsOneByOne` rest on
`SerialInv`: there is a sequence of requests that the links of the list spell out in both
directions (`Linked`, `Settled`), and the one handler that runs is somewhere along it
(`Knows`, `Adds`). From it `AdmissionIsOneByOne` follows step by step: the store that links a
node is an admission, the store of the counter that reaches the limit opens the training, all
others are stutters.

`ReceiveBufferProofs`, for any clients, number of fragments and messages, capacity and breaks:
`TypeCorrect`, `BufferBegins`, `KeepsOrder`, and `BufferImplementsChannel`, the safety half of
`ImplementsChannel`. The invariants are `Assembled` (of the message an open connection is
sending the buffer has as many fragments as were sent, so that counting braces tells when it
is there), `Ordered` (accepted, queued and in the buffer, a client's messages
stand in the order in which it began them), `NotPassed` (what is still being sent has not left the
buffer), `Addressed` (a text is queued under the name of one whose message it has) and
`OneAtATime` (without overlap and breaks, every text is one message). The last one is why such a
channel loses nothing.

`GlobalModelProofs`, for any shape, any number of clients, rounds and counters, and any finite set
of networks with integer parameters that a client may send (floats are finitely many):
`PublishesAverage` and `LeftoverIsBounded`. `SumInv` says that the sum of every parameter that is
cleared is that of what was received, `CounterInv` that the counter is theirs. `BoundInv`
is what makes the bound on the biases that are not cleared inductive: with a leftover of at
most n/(n-1) times the largest value, plus that value for every training counted, dividing
by the counter, which is n at least, gives the same bound again. Sums are defined by a
recursive function; their lemmas are proved by induction over the numbers in the form of a
set of numbers that is all of `Nat` (`SetInduction`, from `WFMin` of the library).

`NetworkCycleProofs`, for any set of shapes, data set and numbers of samples, epochs and
rounds. Of Training, `TypesHold` needs the ranges of the loop variables at each place (`Ranges`).
`StaysInside` rests on `Carried`, the sizes that the vector, the matrix and the three
variables have when a layer is come to, as a function of the shape. That alone shows
that the matrix is freed with all its rows, for every shape. That nothing is
accessed outside needs the hypotheses and, besides, that a sample is filled from one
line (`Filled`). `CountedWasTrained` needs how
often the weights of a layer were updated at each place of the loops (`Updated`).
`LinesInOrder` needs that the count of samples is the line read last, and that the layers
before the present one have the values of this sample (`InStep`). Of the whole cycle, with a memory
of any size, `CycleTypeCorrect`: the invariant `MemoryInv` says that nothing is ever stored
through NULL and a list that has a first node has a last one (`Heap`), that while
a network is built its last layer and neuron are there and as many as its shape has
(`Construction`), and that a copy is linked only into what is allocated (`Copies`). `CycleTrainsSafely`
carries the theorems on Training over to the cycle, whose steps are steps of Training or leave it
alone (lemma `CycleTrains`).

`NetworksStaySound` says of that memory who owns each node. A shape has sites (`Root`, a
layer, a neuron, a weight of a neuron), and a layout maps them to addresses: in `Laid` every
node is linked with those of the sites before and behind it, in `Part` as far as the network
has been built, in `Whole` with all of it. The lemmas on them say that what is allocated and appended
lengthens a part by one node (`AppendBuilt`, `AppendCopied`), that a walk along a list of a whole
network is the list of its sites (`WholeIsSound`), and that what is reached from its root is
the layout and nothing else (`WholeIsReached`: `Reach` goes on as often as the memory has
addresses, and must have stopped growing by then). The invariant is `Sound`: at each place of
the server, which networks there are, how far each has come, and that these, with what was
forgotten, share no node and are all that is allocated (`Divided`). While the global network is
freed (`Freeing`) a second heap says what it was when that began; what is left of it is `Rest`,
and the cursor of the loops stands where `Rest` begins. While the sums are copied the
cursor in the source and the end of the copy stand at corresponding sites (`BetweenLayers`,
`BetweenNeurons`, `BetweenWeights`). A layer of one neuron is excluded by `NetworksAreSound`
itself: the copy of a list of one node is a ring, which the loops never leave.

`ModelExchangeProofs`, for any networks, lengths of texts, sizes of the buffer and of memory, pieces
of the text and failing allocations: `PrintIsInside`, `ListsStayLinked` and
`NothingIsLost`.

Of the first, the invariant `PrintInv` says that before a piece is written the text reaches to
the offset and one terminator further at most, so that the piece is written over
the terminator (`Reached`); that, with the room ensured for the piece (lemma
`EnsuredIsEnough`), bounds what is written, whichever way the pieces count their
terminators. `Nested`, `NotBegun` and `AllPrinted` say when there is an innermost array or object,
and that printing starts from nothing and is left alone when it is over.

The other two are about what is reached along lists and down into items (`Elements`, `Owned`),
by recursion. What makes them provable is that an item leads only to items made after
it: in `Memory` (of either side) every next and child has a higher address (`Forest`), there is a first and a last item of the list that an item is of
(`Chains`), and the first knows the last (`Closed`). So what holds of an address whenever it holds
of all above it holds of all (lemma `Downward`, from `WFMin` of the library). From it follow
`AllAreLinked` and `AllAreHeld`: when whatever nothing points to is among some roots, all that is
allocated is what these own.

That the memories stay so is a matter of order. For the sender it is the order of the calls of
`federatedLearningToJSON`: an item is made when its variable has none still to be added, and
what it is added to was there before it and has not been added to since (`Ordered`). The calls
are put together from pieces, the loops included, of which each leaves at most the items
that it names to be added (`Block`, `Join`); all of them leave only the root (`CallsBlock`).
`Building` says what the calls so far have made: a variable whose item is still to be added has
it alone, or is NULL after a failed allocation, and what nothing points to is a variable's or
`lost`. Then the tree is `Made`, and until it is deleted `Kept`. The parser, while it reads a list, is the only one to know it: `Held`
says that its frames and the item of the whole text are what nothing points to,
`Nest` that each frame is of an item younger than the frame around it, and `Ready` what each step
of the parser finds, and that what it parses into has no children yet. The invariant
`ExchangeInv` is all of these with the types of the printer and the stages.

Assumptions on constants are the named ASSUMEs of the modules, which TLC
evaluates in every run. Only model-checked: liveness (`TrainingCompletes`, the
fairness halves of `RefinesRounds` and `ImplementsChannel`, `TrainingOpens`, `Recovers`,
`SendReturns`), which is out of the prover's reach; and `ArrivesAsSent` of ModelExchange. It
says what a model is that was made into a tree, printed as tokens, cut, and parsed into
another tree: the value of recursions over both trees, and not, as `NothingLeaks`, only which items
there are.

## What is not modelled

- Floating-point values in training, and rounding in the averages. Training that is
  run concurrently with the rest is an arbitrary update to everybody else.
- `teste`, `readCSVFile` and the functions that only print.
- Of cJSON what this program does not use: detaching, replacing, duplicating,
  comparing, minifying, references, raw items, `true` and `false`; escapes in strings, which
  none of its names and values has. Pieces of a text that begin within a token, which
  never parse as an object.
- The failed `malloc` of the network in `JSONToFederatedLearning` (`JSONConverter.c:104` of the server),
  which is not tested and followed at once.
- Of the WebSocket client library what this program does not use: closing handshakes
  begun by the client, messages sent in parts (`send_text_partial` and the like),
  `destroy_on_exit`, TLS.
- The links of the server's queue (a sequence here), and allocations that fail there.
- A restart of the server: it loses all registrations, and clients, which
  register once, would poll for ever.
- Addresses as strings (15 characters leave no room for the terminator in
  `ip_id[15]`), logging, and the metrics that the server prints.
- `postglobalmodel`, `start_websocket` and `close_websocket`, which nobody calls.
- Board set-up: calls of the vendor's API, once, that share no state with the protocol.

## Plan

What is left:

1. The queue of `websocketserver.c` as the linked list it is, refining the sequence
   in ReceiveBuffer, with allocations that fail.
2. The safety of `ArrivesAsSent` as a theorem: that the tokens which have been printed spell out the
   part of the tree before the printer's place, and that the parser's frames are the tree of
   the tokens before its own.
