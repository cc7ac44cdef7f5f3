-------------------------- MODULE EspWebsocketClient --------------------------
(***************************************************************************)
(* One call of websocket_send_local_model (websocketclient.c) and the      *)
(* WebSocket client it makes, uses and destroys (esp_websocket_client.c).  *)
(* Two tasks run, on two cores: the application's, which called it, and    *)
(* the client's own, which connects, reads and reconnects.  They share the *)
(* client: run, the connection state, the status bits, and a lock which    *)
(* neither holds everywhere.                                               *)
(*                                                                         *)
(* A message is sent in pieces of at most buffer_size bytes, and a write   *)
(* may take less of a piece than it was given.  Time-outs strike at any    *)
(* time, but for two delays of the code which are taken at their word:     *)
(* within the 2 s of websocketclient.c:76 the new task starts, and a       *)
(* connection takes longer to open than start takes from its line 1081 to  *)
(* 1086.  PING and PONG are one flag; events only log and are left out.    *)
(***************************************************************************)
EXTENDS Naturals, Sequences

CONSTANTS
    MaxLength,        \* bound: length of the message
    BufferSize,       \* client->buffer_size
    MaxConnections    \* bound: connections that open

ASSUME WebsocketAssumption ==
    MaxLength \in Nat \ {0} /\ BufferSize \in Nat \ {0} /\ MaxConnections \in Nat

VARIABLES
    app,          \* where the application task is
    task,         \* where the client's task is
    handle,       \* the client: allocated, freed, or never there
    run,          \* client->run
    state,        \* client->state
    bits,         \* client->status_bits
    lock,         \* who holds client->lock
    transport,    \* client->transport is open or closed
    peer,         \* the server's end of the connection
    connection,   \* connections opened so far
    readSelect,   \* read_select of the task: <0, 0 or >0
    waitForPong,  \* client->wait_for_pong_resp
    len,          \* the message's length, which never changes
    widx,         \* what is written of it
    sent          \* its frames: connection, header, and was the write cut short

shared == <<handle, run, state, bits>>
network == <<transport, peer, connection>>
loop == <<readSelect, waitForPong>>
message == <<len, widx, sent>>
vars == <<app, task, shared, lock, network, loop, message>>

Looping == {"while", "take", "switch", "give", "select", "abort"}
Closed == {"closed", "dispatch"}
Leaving == {"close", "stopped", "end"}
AppPC == {"init", "start", "clear", "delay", "check", "lock", "write", "abort",
          "stop", "await", "destroy", "done"}
TaskPC ==
    {"none", "created", "deleted", "crashed"} \cup Looping \cup Closed \cup Leaving

Init ==
    /\ app = "init"
    /\ task = "none"
    /\ handle = "null" /\ run = FALSE /\ state = "UNKNOW" /\ bits = {}
    /\ lock = "none"
    /\ transport = "closed" /\ peer = "gone" /\ connection = 0
    /\ readSelect = "zero" /\ waitForPong = FALSE
    /\ len \in 1..MaxLength /\ widx = 0 /\ sent = <<>>
-----------------------------------------------------------------------------
(* The application's task: websocket_send_local_model.                     *)

AppGoes(from, to) ==
    /\ app = from
    /\ app' = to

(* esp_websocket_client_init: a fresh client, or NULL. *)
InitClient ==
    /\ AppGoes("init", "start")
    /\ handle' \in {"null", "live"}
    /\ UNCHANGED <<task, run, state, bits, lock, network, loop, message>>

(* esp_websocket_client_start, to line 1085. *)
StartTask ==
    /\ handle = "live"
    /\ AppGoes("start", "clear")
    /\ task' = "created"
    /\ UNCHANGED <<shared, lock, network, loop, message>>

(* It fails: no client, no transport or no task.  Nobody looks at that.    *)
StartFails ==
    /\ AppGoes("start", "delay")
    /\ UNCHANGED <<task, shared, lock, network, loop, message>>

(* esp_websocket_client_start, line 1086. *)
ClearBits ==
    /\ AppGoes("clear", "delay")
    /\ bits' = {}
    /\ UNCHANGED <<task, handle, run, state, lock, network, loop, message>>

(* The JSON text, and vTaskDelay(2000). *)
Delay ==
    /\ AppGoes("delay", "check")
    /\ task # "created"
    /\ UNCHANGED <<task, shared, lock, network, loop, message>>

(* esp_websocket_client_is_connected, without the lock. *)
IsConnected ==
    /\ AppGoes("check", IF state = "CONNECTED" THEN "lock" ELSE "stop")
    /\ UNCHANGED <<task, shared, lock, network, loop, message>>

(* Seeded fault: the early return does not give the lock back. *)
SendWithOpcode_KeepsLock ==
    /\ lock = "none"
    /\ lock' = "app"
    /\ AppGoes("lock", IF state = "CONNECTED" THEN "write" ELSE "stop")
    /\ UNCHANGED <<task, shared, network, loop, message>>

(* Seeded fault: the lock is not waited for. *)
SendWithOpcode_NoLock ==
    /\ UNCHANGED lock
    /\ AppGoes("lock", IF state = "CONNECTED" THEN "write" ELSE "stop")
    /\ UNCHANGED <<task, shared, network, loop, message>>

(* esp_websocket_client_send_with_opcode: under the lock, ask again.       *)
SendWithOpcode ==
    /\ lock = "none"
    /\ \/ /\ state = "CONNECTED"
          /\ AppGoes("lock", "write")
          /\ lock' = "app"
       \/ /\ state # "CONNECTED"
          /\ AppGoes("lock", "stop")
          /\ UNCHANGED lock
    /\ UNCHANGED <<task, shared, network, loop, message>>

NeedWrite == IF len - widx > BufferSize THEN BufferSize ELSE len - widx

(* Seeded fault: FIN, once in opcode, stays for all pieces. *)
Frame_FinOnAll(wlen) ==
    [connection |-> connection, opcode |-> IF sent = <<>> THEN "TEXT" ELSE "CONT",
     fin |-> TRUE, cut |-> wlen < NeedWrite]

(* The header of the next piece: the opcode goes with the first only, FIN  *)
(* with what fits the buffer, whether all of it is then written or not.    *)
Frame(wlen) ==
    [connection |-> connection, opcode |-> IF sent = <<>> THEN "TEXT" ELSE "CONT",
     fin |-> len - widx <= BufferSize, cut |-> wlen < NeedWrite]

(* One turn of the loop of esp_websocket_client_send_with_exact_opcode:    *)
(* after a short write it goes on with a frame for the rest.               *)
WritePiece ==
    /\ transport = "open"
    /\ \E wlen \in 1..NeedWrite :
          /\ sent' = Append(sent, Frame(wlen))
          /\ widx' = widx + wlen
    /\ IF widx' = len THEN AppGoes("write", "stop") /\ lock' = "none"
                      ELSE AppGoes("write", "write") /\ UNCHANGED lock
    /\ UNCHANGED <<task, shared, network, loop, len>>

(* The write fails; esp_websocket_client_abort_connection, in two parts.   *)
WriteFails ==
    /\ AppGoes("write", "abort")
    /\ transport' = "closed"
    /\ UNCHANGED <<task, shared, lock, peer, connection, loop, message>>

AbortWrite ==
    /\ AppGoes("abort", "stop")
    /\ state' = "WAIT_TIMEOUT"
    /\ lock' = "none"
    /\ UNCHANGED <<task, handle, run, bits, network, loop, message>>

(* esp_websocket_client_stop: "Client was not started", or ask it to end. *)
Stop ==
    /\ \/ /\ ~run
          /\ AppGoes("stop", "destroy")
       \/ /\ run
          /\ AppGoes("stop", "await")
    /\ run' = FALSE
    /\ UNCHANGED <<task, handle, state, bits, lock, network, loop, message>>

(* Seeded fault: the wait for STOPPED_BIT times out. *)
AwaitStopped_TimesOut ==
    /\ AppGoes("await", "destroy")
    /\ state' = "UNKNOW"
    /\ UNCHANGED <<task, handle, run, bits, lock, network, loop, message>>

AwaitStopped ==
    /\ AppGoes("await", "destroy")
    /\ "STOPPED" \in bits
    /\ state' = "UNKNOW"
    /\ UNCHANGED <<task, handle, run, bits, lock, network, loop, message>>

(* esp_websocket_client_destroy. *)
Destroy ==
    /\ AppGoes("destroy", IF run THEN "stop" ELSE "done")
    /\ handle' = IF ~run /\ handle = "live" THEN "freed" ELSE handle
    /\ UNCHANGED <<task, run, state, bits, lock, network, loop, message>>

Application ==
    \/ InitClient \/ StartTask \/ StartFails \/ ClearBits \/ Delay \/ IsConnected
    \/ SendWithOpcode \/ WritePiece \/ WriteFails \/ AbortWrite
    \/ Stop \/ AwaitStopped \/ Destroy
-----------------------------------------------------------------------------
(* The client's task: esp_websocket_client_task.                           *)

TaskGoes(from, to) ==
    /\ task = from
    /\ task' = to

(* To line 919; start has looked for the transport. *)
TaskStarts ==
    /\ TaskGoes("created", "while")
    /\ run' = TRUE
    /\ state' = "INIT"
    /\ bits' = {}
    /\ UNCHANGED <<app, handle, lock, network, loop, message>>

While ==
    /\ TaskGoes("while", IF run THEN "take" ELSE "close")
    /\ UNCHANGED <<app, shared, lock, network, loop, message>>

Take ==
    /\ TaskGoes("take", "switch")
    /\ lock = "none"
    /\ lock' = "task"
    /\ UNCHANGED <<app, shared, network, loop, message>>

Case(s) ==
    /\ state = s
    /\ TaskGoes("switch", "give")
    /\ UNCHANGED <<app, handle, run, lock, message>>

AbortConnection ==
    /\ transport' = "closed"
    /\ state' = "WAIT_TIMEOUT"
    /\ UNCHANGED <<peer, connection>>

(* WEBSOCKET_STATE_INIT: the connection opens, or not. *)
ConnectSucceeds ==
    /\ Case("INIT")
    /\ app # "clear"
    /\ connection < MaxConnections
    /\ connection' = connection + 1
    /\ transport' = "open" /\ peer' = "up"
    /\ state' = "CONNECTED"
    /\ waitForPong' = FALSE
    /\ UNCHANGED <<bits, readSelect>>

ConnectFails ==
    /\ Case("INIT")
    /\ AbortConnection
    /\ UNCHANGED <<bits, loop>>

(* WEBSOCKET_STATE_CONNECTED: a PING perhaps, and nothing to read. *)
SkipRead ==
    /\ Case("CONNECTED")
    /\ readSelect = "zero"
    /\ waitForPong' \in {waitForPong, TRUE}
    /\ UNCHANGED <<state, bits, network, readSelect>>

(* No PONG for too long. *)
PongTimeout ==
    /\ Case("CONNECTED")
    /\ waitForPong
    /\ AbortConnection
    /\ UNCHANGED <<bits, loop>>

(* esp_websocket_client_recv: data, PONG, the server's close, or an error. *)
Recv ==
    /\ Case("CONNECTED")
    /\ readSelect # "zero"
    /\ \/ /\ peer = "up"
          /\ waitForPong' \in BOOLEAN
          /\ UNCHANGED <<state, network>>
       \/ /\ peer = "closing"
          /\ state' = "CLOSING"
          /\ UNCHANGED <<network, waitForPong>>
       \/ /\ peer = "gone"
          /\ AbortConnection
          /\ UNCHANGED waitForPong
    /\ UNCHANGED <<bits, readSelect>>

(* Seeded fault: auto_reconnect is off. *)
WaitTimeout_NoReconnect ==
    /\ state = "WAIT_TIMEOUT"
    /\ TaskGoes("switch", "give")
    /\ run' = FALSE
    /\ UNCHANGED <<app, handle, state, bits, lock, network, loop, message>>

(* WEBSOCKET_STATE_WAIT_TIMEOUT: auto_reconnect is on (line 367).          *)
WaitTimeout ==
    /\ Case("WAIT_TIMEOUT")
    /\ state' \in {"WAIT_TIMEOUT", "INIT"}
    /\ UNCHANGED <<bits, network, loop>>

(* WEBSOCKET_STATE_CLOSING: nobody but the server asked for it. *)
EchoClose ==
    /\ Case("CLOSING")
    /\ bits' = bits \cup {"CLOSE_FRAME_SENT"}
    /\ UNCHANGED <<state, network, loop>>

Give ==
    /\ TaskGoes("give", "select")
    /\ lock' = "none"
    /\ UNCHANGED <<app, shared, network, loop, message>>

(* Line 1023 on, without the lock.  The connection is polled...            *)
Poll ==
    /\ state = "CONNECTED"
    /\ \/ /\ TaskGoes("select", "while")
          /\ readSelect' \in IF transport = "open" THEN {"zero", "positive"} ELSE {"zero"}
          /\ UNCHANGED transport
       \/ /\ TaskGoes("select", "abort")
          /\ readSelect' = "negative"
          /\ transport' = "closed"
    /\ UNCHANGED <<app, shared, lock, peer, connection, waitForPong, message>>

(* ... its abort ends ... *)
AbortPoll ==
    /\ TaskGoes("abort", "while")
    /\ state' = "WAIT_TIMEOUT"
    /\ UNCHANGED <<app, handle, run, bits, lock, network, loop, message>>

ClosingSent == state = "CLOSING" /\ "CLOSE_FRAME_SENT" \in bits

(* ... or there is none, and the task waits or goes round at once ...      *)
NotConnected ==
    /\ TaskGoes("select", "while")
    /\ state # "CONNECTED" /\ ~ClosingSent
    /\ UNCHANGED <<app, shared, lock, network, loop, message>>

(* ... or the server was slow to close it, and the break, "still waiting", *)
(* leaves the loop without a change to run ...                             *)
StillWaiting ==
    /\ TaskGoes("select", "close")
    /\ ClosingSent
    /\ UNCHANGED <<app, shared, lock, network, loop, message>>

(* ... or the server has closed it.  With run reset, stop and destroy no   *)
(* longer wait for the task, which is still to set the state ...           *)
ConnectionClosed ==
    /\ TaskGoes("select", "closed")
    /\ ClosingSent /\ peer = "gone"
    /\ run' = FALSE
    /\ UNCHANGED <<app, handle, state, bits, lock, network, loop, message>>

ForgetConnection ==
    /\ TaskGoes("closed", "dispatch")
    /\ state' = "UNKNOW"
    /\ UNCHANGED <<app, handle, run, bits, lock, network, loop, message>>

(* ... and to dispatch WEBSOCKET_EVENT_CLOSED with client->event_handle.   *)
DispatchClosed ==
    /\ TaskGoes("dispatch", "close")
    /\ UNCHANGED <<app, shared, lock, network, loop, message>>

(* Line 1057 on.  What a freed client holds is taken to stay in memory...  *)
CloseTransport ==
    /\ TaskGoes("close", "stopped")
    /\ transport' = "closed"
    /\ UNCHANGED <<app, shared, lock, peer, connection, loop, message>>

SetStopped ==
    /\ TaskGoes("stopped", "end")
    /\ bits' = bits \cup {"STOPPED"}
    /\ UNCHANGED <<app, handle, run, state, lock, network, loop, message>>

EndTask ==
    /\ TaskGoes("end", "deleted")
    /\ state' = "UNKNOW"
    /\ UNCHANGED <<app, handle, run, bits, lock, network, loop, message>>

(* ... unless following it stops the device. *)
TouchFreed ==
    /\ handle = "freed"
    /\ task \in Closed \cup Leaving
    /\ task' = "crashed"
    /\ UNCHANGED <<app, shared, lock, network, loop, message>>

Task ==
    \/ TaskStarts \/ While \/ Take
    \/ ConnectSucceeds \/ ConnectFails \/ SkipRead \/ PongTimeout \/ Recv
    \/ WaitTimeout \/ EchoClose
    \/ Give \/ Poll \/ AbortPoll \/ NotConnected \/ StillWaiting
    \/ ConnectionClosed \/ ForgetConnection \/ DispatchClosed
    \/ CloseTransport \/ SetStopped \/ EndTask \/ TouchFreed
-----------------------------------------------------------------------------
(* The server sends a close frame, or the connection goes.                 *)
Server ==
    /\ \/ peer = "up" /\ peer' = "closing"
       \/ peer # "gone" /\ peer' = "gone"
    /\ UNCHANGED <<app, task, shared, lock, transport, connection, loop, message>>

Next == Application \/ Task \/ Server

Spec == Init /\ [][Next]_vars

(* Both tasks are scheduled.  The client's task waits with time-outs but   *)
(* for the lock, which a message holds while it is written: line 566 has   *)
(* no time-out (portMAX_DELAY, websocketclient.c:79), and TCP is assumed   *)
(* to take some of a piece or to refuse it in the end.  The lock is free   *)
(* for as long as the client's task polls or sleeps.                       *)
FairSpec ==
    Spec /\ WF_vars(Application) /\ SF_vars(SendWithOpcode) /\ WF_vars(Task)
-----------------------------------------------------------------------------
(* Every variable keeps its type, and each task gives the lock back on     *)
(* every way out of the code that takes it.                                *)
TypeOK ==
    /\ app \in AppPC
    /\ task \in TaskPC
    /\ handle \in {"null", "live", "freed"}
    /\ run \in BOOLEAN
    /\ state \in {"UNKNOW", "INIT", "CONNECTED", "WAIT_TIMEOUT", "CLOSING"}
    /\ bits \subseteq {"STOPPED", "CLOSE_FRAME_SENT"}
    /\ lock \in {"none", "app", "task"}
    /\ lock = "app" <=> app \in {"write", "abort"}
    /\ lock = "task" <=> task \in {"switch", "give"}
    /\ transport \in {"open", "closed"}
    /\ peer \in {"up", "closing", "gone"}
    /\ connection \in 0..MaxConnections
    /\ readSelect \in {"negative", "zero", "positive"}
    /\ waitForPong \in BOOLEAN
    /\ len \in 1..MaxLength /\ widx \in 0..len
    /\ sent \in Seq([connection : 1..MaxConnections, opcode : {"TEXT", "CONT"},
                     fin : BOOLEAN, cut : BOOLEAN])

(* The task's abort of a failed poll (line 1034) takes no lock and may hit *)
(* a message that is being sent; even so the rest of it never goes to the  *)
(* next connection, whose reader would take it for a message of its own.   *)
MessageOnOneConnection ==
    \A i \in 1..Len(sent) : sent[i].connection = sent[1].connection

(* The pieces of a message are framed as one: only the first begins a text *)
(* message and FIN ends it.  A write cut short (line 582) is the exception *)
(* by which a frame with FIN is followed by another.                       *)
FramedAsOneMessage ==
    /\ \A i \in 1..Len(sent) :
          /\ sent[i].opcode = "TEXT" <=> i = 1
          /\ sent[i].fin /\ i < Len(sent) => sent[i].cut
    /\ widx = len => sent[Len(sent)].fin

(* destroy frees the client, its lock and its buffers: by then the task    *)
(* takes, reads, writes, polls and reconnects no more.  Only in the lines  *)
(* after the server's close (1051 and 1052) it may still be in its loop,   *)
(* and there it does use the freed client.                                 *)
FreedAfterLoop ==
    handle = "freed" =>
        /\ task \notin Looping \cup {"created"}
        /\ task \in Closed => peer = "gone" /\ "CLOSE_FRAME_SENT" \in bits

(* Only a close by the server lets stop return before the task has closed  *)
(* the transport and set STOPPED_BIT: "Client was not started" (line 1096) *)
(* is then said of one that is still ending.                               *)
FreedAfterStopped ==
    handle = "freed" /\ task \in Closed \cup {"close", "stopped"} =>
        "CLOSE_FRAME_SENT" \in bits

(* Connected or not, closed by the server or broken in the middle, sending *)
(* the local model comes to its end: stop never waits in vain.             *)
SendReturns == <>(app = "done")
=============================================================================
