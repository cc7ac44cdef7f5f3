------------------------ MODULE EspWebsocketClientProofs ------------------------
(***************************************************************************)
(* What sending a local model relies on, for messages of any length and    *)
(* any number of reconnections: the lock keeps a message on one            *)
(* connection, and the client is not freed under its task.                 *)
(***************************************************************************)
EXTENDS EspWebsocketClient, TLAPS

Piece ==
    [connection : 1..MaxConnections, opcode : {"TEXT", "CONT"},
     fin : BOOLEAN, cut : BOOLEAN]

(* The task is created once, and a piece is written on an open connection, *)
(* which has a number.                                                     *)
TypeInv ==
    /\ TypeOK
    /\ app \in {"init", "start"} => task = "none"
    /\ transport = "open" => connection > 0

BeforeWrite == {"init", "start", "clear", "delay", "check", "lock"}

(* What has been written so far, and on which connection.                  *)
Written ==
    /\ app \in BeforeWrite => sent = <<>> /\ widx = 0
    /\ app = "write" => \A i \in 1..Len(sent) : sent[i].connection = connection
    /\ MessageOnOneConnection

(* The task loops only while run is set, except between the two halves of  *)
(* stop; and the application sees STOPPED_BIT only after the loop.         *)
Stopping ==
    /\ app \in {"init", "start"} => task = "none"
    /\ app \notin {"init", "start", "clear", "delay"} => task # "created"
    /\ ~run /\ app # "await" => task \notin Looping
    /\ "STOPPED" \in bits => task \in {"end", "deleted", "crashed"}
    /\ app \in {"destroy", "done"} => task \notin Looping
    /\ handle = "freed" => app = "done"

(* The task leaves its loop because stop asked it to, or because of a      *)
(* close by the server, which cannot come before start has returned.       *)
Ending ==
    /\ app \in {"init", "start", "clear"} =>
         /\ state \in {"UNKNOW", "INIT", "WAIT_TIMEOUT"}
         /\ task \notin Closed \cup {"close", "stopped"}
    /\ task \in Closed => ~run /\ peer = "gone" /\ "CLOSE_FRAME_SENT" \in bits
    /\ ~run /\ app # "await" /\ task \in {"close", "stopped"} =>
         "CLOSE_FRAME_SENT" \in bits
    /\ app = "done" => ~run

-----------------------------------------------------------------------------
(* TypeInv holds in every state: one step per action. *)
LEMMA TypeInvariant == Spec => []TypeInv
<1> USE WebsocketAssumption
<1>1. Init => TypeInv
  <2> SUFFICES ASSUME Init
               PROVE  TypeInv
    OBVIOUS
  <2>1. sent \in Seq(Piece) /\ len \in 1..MaxLength /\ widx \in 0..len
    BY DEF Init
  <2>2. app = "init" /\ task = "none" /\ lock = "none" /\ transport = "closed"
    BY DEF Init
  <2>3. app \in AppPC /\ task \in TaskPC
    BY <2>2 DEF AppPC, TaskPC
  <2>4. connection \in 0..MaxConnections /\ bits = {}
    BY DEF Init
  <2>5. QED
    BY <2>1, <2>2, <2>3, <2>4 DEF Init, TypeInv, TypeOK, Piece
<1>2. TypeInv /\ [Next]_vars => TypeInv'
  <2> SUFFICES ASSUME TypeInv, [Next]_vars
               PROVE  TypeInv'
    OBVIOUS
  <2>1. CASE InitClient
    BY <2>1 DEF InitClient, AppGoes, TypeInv, TypeOK, AppPC, TaskPC,
                Looping, Closed, Leaving, shared, network, loop, message
  <2>2. CASE StartTask
    <3>1. /\ app' = "clear" /\ task' = "created" /\ lock' = lock
          /\ lock = "none" /\ UNCHANGED <<shared, network, loop, message>>
      BY <2>2 DEF StartTask, AppGoes, TypeInv, TypeOK
    <3>2. QED
      BY <3>1 DEF TypeInv, TypeOK, AppPC, TaskPC, shared, network, loop,
         message
  <2>3. CASE StartFails
    BY <2>3 DEF StartFails, AppGoes, TypeInv, TypeOK, AppPC, TaskPC,
                Looping, Closed, Leaving, shared, network, loop, message
  <2>4. CASE ClearBits
    BY <2>4 DEF ClearBits, AppGoes, TypeInv, TypeOK, AppPC, TaskPC,
                Looping, Closed, Leaving, shared, network, loop, message
  <2>5. CASE Delay
    BY <2>5 DEF Delay, AppGoes, TypeInv, TypeOK, AppPC, TaskPC, Looping,
                Closed, Leaving, shared, network, loop, message
  <2>6. CASE IsConnected
    BY <2>6 DEF IsConnected, AppGoes, TypeInv, TypeOK, AppPC, TaskPC,
                Looping, Closed, Leaving, shared, network, loop, message
  <2>7. CASE SendWithOpcode
    BY <2>7 DEF SendWithOpcode, AppGoes, TypeInv, TypeOK, AppPC, TaskPC,
                Looping, Closed, Leaving, shared, network, loop, message
  <2>8. CASE WritePiece
    <3>1. PICK wlen \in 1..NeedWrite :
            /\ sent' = Append(sent, Frame(wlen))
            /\ widx' = widx + wlen
      BY <2>8 DEF WritePiece
    <3>2. /\ Frame(wlen) \in Piece /\ sent \in Seq(Piece)
          /\ len \in 1..MaxLength /\ widx \in 0..len
      <4>1. /\ connection \in 1..MaxConnections
            /\ (len - widx <= BufferSize) \in BOOLEAN
            /\ (wlen < NeedWrite) \in BOOLEAN
        BY <2>8 DEF TypeInv, TypeOK, WritePiece
      <4>2. QED
        BY <4>1 DEF TypeInv, TypeOK, Frame, Piece
    <3>3. /\ sent' \in Seq(Piece)
          /\ widx' \in 0..len
      BY <3>1, <3>2 DEF NeedWrite
    <3>4. /\ app = "write" /\ lock = "app"
          /\ UNCHANGED <<task, shared, network, loop, len>>
          /\ \/ app' = "write" /\ lock' = "app"
             \/ app' = "stop" /\ lock' = "none"
      BY <2>8 DEF TypeInv, TypeOK, WritePiece, AppGoes
    <3>5. app' \in AppPC /\ lock' # "task" /\ task \notin {"switch", "give"}
      BY <3>4 DEF TypeInv, TypeOK, AppPC
    <3>6. QED
      BY <3>3, <3>4, <3>5 DEF TypeInv, TypeOK, Piece, shared, network, loop
  <2>9. CASE WriteFails
    BY <2>9 DEF WriteFails, AppGoes, TypeInv, TypeOK, AppPC, TaskPC,
                Looping, Closed, Leaving, shared, network, loop, message
  <2>10. CASE AbortWrite
    BY <2>10 DEF AbortWrite, AppGoes, TypeInv, TypeOK, AppPC, TaskPC,
                 Looping, Closed, Leaving, shared, network, loop, message
  <2>11. CASE Stop
    <3>1. /\ app = "stop" /\ app' \in {"destroy", "await"} /\ run' \in BOOLEAN
          /\ UNCHANGED <<task, handle, state, bits, lock, network, loop, message>>
      BY <2>11 DEF Stop, AppGoes
    <3>2. app' \in AppPC /\ app \notin {"write", "abort", "init", "start"}
          /\ app' \notin {"write", "abort", "init", "start"}
      BY <3>1 DEF AppPC
    <3>3. QED
      BY <3>1, <3>2 DEF TypeInv, TypeOK, network, loop, message
  <2>12. CASE AwaitStopped
    BY <2>12 DEF AwaitStopped, AppGoes, TypeInv, TypeOK, AppPC, TaskPC,
                 Looping, Closed, Leaving, shared, network, loop, message
  <2>13. CASE Destroy
    BY <2>13 DEF Destroy, AppGoes, TypeInv, TypeOK, AppPC, TaskPC, Looping,
                 Closed, Leaving, shared, network, loop, message
  <2>14. CASE TaskStarts
    BY <2>14 DEF TaskStarts, TaskGoes, TypeInv, TypeOK, AppPC, TaskPC,
                 Looping, Closed, Leaving, shared, network, loop, message
  <2>15. CASE While
    BY <2>15 DEF While, TaskGoes, TypeInv, TypeOK, AppPC, TaskPC, Looping,
                 Closed, Leaving, shared, network, loop, message
  <2>16. CASE Take
    BY <2>16 DEF Take, TaskGoes, TypeInv, TypeOK, AppPC, TaskPC, Looping,
                 Closed, Leaving, shared, network, loop, message
  <2>17. CASE ConnectSucceeds
    <3>1. /\ task = "switch" /\ task' = "give"
          /\ UNCHANGED <<app, lock, handle, run>>
          /\ state' = "CONNECTED" /\ transport' = "open" /\ peer' = "up"
          /\ waitForPong' \in BOOLEAN /\ UNCHANGED <<bits, readSelect, message>>
      BY <2>17 DEF ConnectSucceeds, Case, TaskGoes
    <3>2. connection' \in 0..MaxConnections /\ connection' > 0
      BY <2>17 DEF ConnectSucceeds, TypeInv, TypeOK
    <3>3. QED
      BY <3>1, <3>2 DEF TypeInv, TypeOK, TaskPC, Looping, Closed, Leaving,
         message
  <2>18. CASE ConnectFails
    BY <2>18 DEF ConnectFails, Case, TaskGoes, AbortConnection, TypeInv,
                 TypeOK, AppPC, TaskPC, Looping, Closed, Leaving, shared,
                 network, loop, message
  <2>19. CASE SkipRead
    BY <2>19 DEF SkipRead, Case, TaskGoes, TypeInv, TypeOK, AppPC, TaskPC,
                 Looping, Closed, Leaving, shared, network, loop, message
  <2>20. CASE PongTimeout
    BY <2>20 DEF PongTimeout, Case, TaskGoes, AbortConnection, TypeInv,
                 TypeOK, AppPC, TaskPC, Looping, Closed, Leaving, shared,
                 network, loop, message
  <2>21. CASE Recv
    BY <2>21 DEF Recv, Case, TaskGoes, AbortConnection, TypeInv, TypeOK,
                 AppPC, TaskPC, Looping, Closed, Leaving, shared, network,
                 loop, message
  <2>22. CASE WaitTimeout
    BY <2>22 DEF WaitTimeout, Case, TaskGoes, TypeInv, TypeOK, AppPC, TaskPC,
                 Looping, Closed, Leaving, shared, network, loop, message
  <2>23. CASE EchoClose
    BY <2>23 DEF EchoClose, Case, TaskGoes, TypeInv, TypeOK, AppPC, TaskPC,
                 Looping, Closed, Leaving, shared, network, loop, message
  <2>24. CASE Give
    BY <2>24 DEF Give, TaskGoes, TypeInv, TypeOK, AppPC, TaskPC, Looping,
                 Closed, Leaving, shared, network, loop, message
  <2>25. CASE Poll
    BY <2>25 DEF Poll, TaskGoes, TypeInv, TypeOK, AppPC, TaskPC, Looping,
                 Closed, Leaving, shared, network, loop, message
  <2>26. CASE AbortPoll
    BY <2>26 DEF AbortPoll, TaskGoes, TypeInv, TypeOK, AppPC, TaskPC,
                 Looping, Closed, Leaving, shared, network, loop, message
  <2>27. CASE NotConnected
    BY <2>27 DEF NotConnected, TaskGoes, ClosingSent, TypeInv, TypeOK, AppPC,
                 TaskPC, Looping, Closed, Leaving, shared, network, loop,
                 message
  <2>28. CASE StillWaiting
    BY <2>28 DEF StillWaiting, TaskGoes, ClosingSent, TypeInv, TypeOK, AppPC,
                 TaskPC, Looping, Closed, Leaving, shared, network, loop,
                 message
  <2>29. CASE ConnectionClosed
    BY <2>29 DEF ConnectionClosed, TaskGoes, ClosingSent, TypeInv, TypeOK,
                 AppPC, TaskPC, Looping, Closed, Leaving, shared, network,
                 loop, message
  <2>30. CASE ForgetConnection
    BY <2>30 DEF ForgetConnection, TaskGoes, TypeInv, TypeOK, AppPC, TaskPC,
                 Looping, Closed, Leaving, shared, network, loop, message
  <2>31. CASE DispatchClosed
    BY <2>31 DEF DispatchClosed, TaskGoes, TypeInv, TypeOK, AppPC, TaskPC,
                 Looping, Closed, Leaving, shared, network, loop, message
  <2>32. CASE CloseTransport
    BY <2>32 DEF CloseTransport, TaskGoes, TypeInv, TypeOK, AppPC, TaskPC,
                 Looping, Closed, Leaving, shared, network, loop, message
  <2>33. CASE SetStopped
    BY <2>33 DEF SetStopped, TaskGoes, TypeInv, TypeOK, AppPC, TaskPC,
                 Looping, Closed, Leaving, shared, network, loop, message
  <2>34. CASE EndTask
    BY <2>34 DEF EndTask, TaskGoes, TypeInv, TypeOK, AppPC, TaskPC,
                 Looping, Closed, Leaving, shared, network, loop, message
  <2>35. CASE TouchFreed
    BY <2>35 DEF TouchFreed, TypeInv, TypeOK, AppPC, TaskPC, Looping, Closed,
                 Leaving, shared, network, loop, message
  <2>36. CASE Server
    BY <2>36 DEF Server, TypeInv, TypeOK, AppPC, TaskPC, Looping, Closed,
                 Leaving, shared, network, loop, message
  <2>37. CASE UNCHANGED vars
    BY <2>37 DEF vars, TypeInv, TypeOK, AppPC, TaskPC, Looping, Closed,
                 Leaving, shared, network, loop, message
  <2>38. QED
    BY <2>1, <2>2, <2>3, <2>4, <2>5, <2>6, <2>7, <2>8, <2>9, <2>10, <2>11,
       <2>12, <2>13, <2>14, <2>15, <2>16, <2>17, <2>18, <2>19, <2>20,
       <2>21, <2>22, <2>23, <2>24, <2>25, <2>26, <2>27, <2>28, <2>29,
       <2>30, <2>31, <2>32, <2>33, <2>34, <2>35, <2>36, <2>37 DEF Next, Application, Task
<1>3. QED
  BY <1>1, <1>2, PTL DEF Spec

(* Every variable keeps its type, and in both tasks the lock is held       *)
(* exactly in the code between its take and its give.                      *)
THEOREM TypeCorrect == Spec => []TypeOK
<1>1. TypeInv => TypeOK
  BY DEF TypeInv
<1>2. QED
  BY <1>1, TypeInvariant, PTL

-----------------------------------------------------------------------------
(* While the application writes it holds the lock, without which the task  *)
(* opens no connection.                                                    *)
LEMMA WrittenInvariant == Spec => []Written
<1>1. Init => Written
  BY DEF Init, Written, BeforeWrite, MessageOnOneConnection
<1>2. TypeInv /\ Written /\ [Next]_vars => Written'
  <2> SUFFICES ASSUME TypeInv, Written, [Next]_vars
               PROVE  Written'
    OBVIOUS
  <2>1. CASE InitClient
    BY <2>1 DEF InitClient, AppGoes, Written, BeforeWrite, TypeInv, TypeOK,
                MessageOnOneConnection, shared, network, loop, message
  <2>2. CASE StartTask
    BY <2>2 DEF StartTask, AppGoes, Written, BeforeWrite, TypeInv, TypeOK,
                MessageOnOneConnection, shared, network, loop, message
  <2>3. CASE StartFails
    BY <2>3 DEF StartFails, AppGoes, Written, BeforeWrite, TypeInv, TypeOK,
                MessageOnOneConnection, shared, network, loop, message
  <2>4. CASE ClearBits
    BY <2>4 DEF ClearBits, AppGoes, Written, BeforeWrite, TypeInv, TypeOK,
                MessageOnOneConnection, shared, network, loop, message
  <2>5. CASE Delay
    BY <2>5 DEF Delay, AppGoes, Written, BeforeWrite, TypeInv, TypeOK,
                MessageOnOneConnection, shared, network, loop, message
  <2>6. CASE IsConnected
    BY <2>6 DEF IsConnected, AppGoes, Written, BeforeWrite, TypeInv, TypeOK,
                MessageOnOneConnection, shared, network, loop, message
  <2>7. CASE SendWithOpcode
    <3>1. sent' = <<>> /\ widx' = 0 /\ UNCHANGED network
      BY <2>7 DEF SendWithOpcode, AppGoes, message, Written, BeforeWrite
    <3>2. QED
      BY <3>1 DEF Written, MessageOnOneConnection, network
  <2>8. CASE WritePiece
    <3>1. PICK wlen \in 1..NeedWrite : sent' = Append(sent, Frame(wlen))
      BY <2>8 DEF WritePiece
    <3>2. /\ sent \in Seq(Piece)
          /\ Frame(wlen).connection = connection /\ app = "write"
      BY <2>8 DEF WritePiece, AppGoes, Frame, Piece, TypeInv, TypeOK
    <3>3. /\ Len(sent') = Len(sent) + 1 /\ Len(sent) \in Nat
          /\ \A i \in 1..Len(sent') :
                sent'[i] = IF i = Len(sent') THEN Frame(wlen) ELSE sent[i]
      BY <3>1, <3>2
    <3>4. \A i \in 1..Len(sent') : sent'[i].connection = connection
      BY <3>2, <3>3 DEF Written
    <3>5. MessageOnOneConnection'
      BY <3>3, <3>4 DEF MessageOnOneConnection
    <3>6. app' \in {"stop", "write"} /\ UNCHANGED network
      BY <2>8 DEF WritePiece, AppGoes
    <3>7. QED
      BY <3>4, <3>5, <3>6 DEF Written, BeforeWrite, network
  <2>9. CASE WriteFails
    BY <2>9 DEF WriteFails, AppGoes, Written, BeforeWrite, TypeInv, TypeOK,
                MessageOnOneConnection, shared, network, loop, message
  <2>10. CASE AbortWrite
    BY <2>10 DEF AbortWrite, AppGoes, Written, BeforeWrite, TypeInv, TypeOK,
                 MessageOnOneConnection, shared, network, loop, message
  <2>11. CASE Stop
    BY <2>11 DEF Stop, AppGoes, Written, BeforeWrite, TypeInv, TypeOK,
                 MessageOnOneConnection, shared, network, loop, message
  <2>12. CASE AwaitStopped
    BY <2>12 DEF AwaitStopped, AppGoes, Written, BeforeWrite, TypeInv, TypeOK,
                 MessageOnOneConnection, shared, network, loop, message
  <2>13. CASE Destroy
    BY <2>13 DEF Destroy, AppGoes, Written, BeforeWrite, TypeInv, TypeOK,
                 MessageOnOneConnection, shared, network, loop, message
  <2>14. CASE TaskStarts
    BY <2>14 DEF TaskStarts, TaskGoes, Written, BeforeWrite, TypeInv, TypeOK,
                 MessageOnOneConnection, shared, network, loop, message
  <2>15. CASE While
    BY <2>15 DEF While, TaskGoes, Written, BeforeWrite, TypeInv, TypeOK,
                 MessageOnOneConnection, shared, network, loop, message
  <2>16. CASE Take
    BY <2>16 DEF Take, TaskGoes, Written, BeforeWrite, TypeInv, TypeOK,
                 MessageOnOneConnection, shared, network, loop, message
  <2>17. CASE ConnectSucceeds
    BY <2>17 DEF ConnectSucceeds, Case, TaskGoes, Written, BeforeWrite,
                 TypeInv, TypeOK, MessageOnOneConnection, shared, network,
                 loop, message
  <2>18. CASE ConnectFails
    BY <2>18 DEF ConnectFails, Case, TaskGoes, AbortConnection, Written,
                 BeforeWrite, TypeInv, TypeOK, MessageOnOneConnection, shared,
                 network, loop, message
  <2>19. CASE SkipRead
    BY <2>19 DEF SkipRead, Case, TaskGoes, Written, BeforeWrite, TypeInv,
                 TypeOK, MessageOnOneConnection, shared, network, loop,
                 message
  <2>20. CASE PongTimeout
    BY <2>20 DEF PongTimeout, Case, TaskGoes, AbortConnection, Written,
                 BeforeWrite, TypeInv, TypeOK, MessageOnOneConnection, shared,
                 network, loop, message
  <2>21. CASE Recv
    BY <2>21 DEF Recv, Case, TaskGoes, AbortConnection, Written, BeforeWrite,
                 TypeInv, TypeOK, MessageOnOneConnection, shared, network,
                 loop, message
  <2>22. CASE WaitTimeout
    BY <2>22 DEF WaitTimeout, Case, TaskGoes, Written, BeforeWrite, TypeInv,
                 TypeOK, MessageOnOneConnection, shared, network, loop,
                 message
  <2>23. CASE EchoClose
    BY <2>23 DEF EchoClose, Case, TaskGoes, Written, BeforeWrite, TypeInv,
                 TypeOK, MessageOnOneConnection, shared, network, loop,
                 message
  <2>24. CASE Give
    BY <2>24 DEF Give, TaskGoes, Written, BeforeWrite, TypeInv, TypeOK,
                 MessageOnOneConnection, shared, network, loop, message
  <2>25. CASE Poll
    BY <2>25 DEF Poll, TaskGoes, Written, BeforeWrite, TypeInv, TypeOK,
                 MessageOnOneConnection, shared, network, loop, message
  <2>26. CASE AbortPoll
    BY <2>26 DEF AbortPoll, TaskGoes, Written, BeforeWrite, TypeInv, TypeOK,
                 MessageOnOneConnection, shared, network, loop, message
  <2>27. CASE NotConnected
    BY <2>27 DEF NotConnected, TaskGoes, ClosingSent, Written, BeforeWrite,
                 TypeInv, TypeOK, MessageOnOneConnection, shared, network,
                 loop, message
  <2>28. CASE StillWaiting
    BY <2>28 DEF StillWaiting, TaskGoes, ClosingSent, Written, BeforeWrite,
                 TypeInv, TypeOK, MessageOnOneConnection, shared, network,
                 loop, message
  <2>29. CASE ConnectionClosed
    BY <2>29 DEF ConnectionClosed, TaskGoes, ClosingSent, Written,
                 BeforeWrite, TypeInv, TypeOK, MessageOnOneConnection, shared,
                 network, loop, message
  <2>30. CASE ForgetConnection
    BY <2>30 DEF ForgetConnection, TaskGoes, Written, BeforeWrite, TypeInv,
                 TypeOK, MessageOnOneConnection, shared, network, loop,
                 message
  <2>31. CASE DispatchClosed
    BY <2>31 DEF DispatchClosed, TaskGoes, Written, BeforeWrite, TypeInv,
                 TypeOK, MessageOnOneConnection, shared, network, loop,
                 message
  <2>32. CASE CloseTransport
    BY <2>32 DEF CloseTransport, TaskGoes, Written, BeforeWrite, TypeInv,
                 TypeOK, MessageOnOneConnection, shared, network, loop,
                 message
  <2>33. CASE SetStopped
    BY <2>33 DEF SetStopped, TaskGoes, Written, BeforeWrite, TypeInv, TypeOK,
                 MessageOnOneConnection, shared, network, loop, message
  <2>34. CASE EndTask
    BY <2>34 DEF EndTask, TaskGoes, Written, BeforeWrite, TypeInv, TypeOK,
                 MessageOnOneConnection, shared, network, loop, message
  <2>35. CASE TouchFreed
    BY <2>35 DEF TouchFreed, Written, BeforeWrite, TypeInv, TypeOK,
                 MessageOnOneConnection, shared, network, loop, message
  <2>36. CASE Server
    BY <2>36 DEF Server, Written, BeforeWrite, TypeInv, TypeOK,
                 MessageOnOneConnection, shared, network, loop, message
  <2>37. CASE UNCHANGED vars
    BY <2>37 DEF vars, Written, BeforeWrite, TypeInv, TypeOK,
                 MessageOnOneConnection, shared, network, loop, message
  <2>38. QED
    BY <2>1, <2>2, <2>3, <2>4, <2>5, <2>6, <2>7, <2>8, <2>9, <2>10, <2>11,
       <2>12, <2>13, <2>14, <2>15, <2>16, <2>17, <2>18, <2>19, <2>20,
       <2>21, <2>22, <2>23, <2>24, <2>25, <2>26, <2>27, <2>28, <2>29,
       <2>30, <2>31, <2>32, <2>33, <2>34, <2>35, <2>36, <2>37 DEF Next, Application, Task
<1>3. QED
  BY <1>1, <1>2, TypeInvariant, PTL DEF Spec

(* No piece of a message goes to another connection than its first, though *)
(* the task may abort the connection in the middle without the lock.       *)
THEOREM OneConnection == Spec => []MessageOnOneConnection
<1>1. Written => MessageOnOneConnection
  BY DEF Written
<1>2. QED
  BY <1>1, WrittenInvariant, PTL

(* Whatever else is done, nothing is written, and writing begins with the  *)
(* lock just taken.                                                        *)
LEMMA OnlyWritePieceWrites ==
    ASSUME Next, ~WritePiece
    PROVE  /\ UNCHANGED message
           /\ app' = "write" => app \in {"write", "lock"}
<1>1. CASE Application
  BY <1>1 DEF Application, InitClient, StartTask, StartFails, ClearBits, Delay,
     IsConnected, SendWithOpcode, WriteFails, AbortWrite, Stop, AwaitStopped,
     Destroy, AppGoes, message
<1>2. CASE Task
  BY <1>2 DEF Task, TaskStarts, While, Take, ConnectSucceeds, ConnectFails,
     SkipRead, PongTimeout, Recv, WaitTimeout, EchoClose, Give, Poll,
     AbortPoll, NotConnected, StillWaiting, ConnectionClosed,
     ForgetConnection, DispatchClosed, CloseTransport, SetStopped, EndTask,
     TouchFreed, Case
<1>3. CASE Server
  BY <1>3 DEF Server, message
<1>4. QED
  BY <1>1, <1>2, <1>3 DEF Next

(* Some of the message is missing for as long as the application writes,   *)
(* and what is written whole so far leaves FIN for a later piece.          *)
Framed ==
    /\ app = "write" =>
         /\ widx < len
         /\ \A i \in 1..Len(sent) : sent[i].fin => sent[i].cut
    /\ FramedAsOneMessage

(* However long a message is, wherever it breaks off and however its       *)
(* writes are cut short, its first frame begins a text message, the others *)
(* continue it, its end has FIN, and so has no frame before that was       *)
(* written whole.                                                          *)
THEOREM FramesAreOneMessage == Spec => []FramedAsOneMessage
<1> USE WebsocketAssumption
<1>1. Init => Framed
  BY DEF Init, Framed, FramedAsOneMessage
<1>2. TypeInv /\ Written /\ Framed /\ [Next]_vars => Framed'
  <2> SUFFICES ASSUME TypeInv, Written, Framed, [Next]_vars
               PROVE  Framed'
    OBVIOUS
  <2>1. /\ len \in Nat \ {0} /\ widx \in 0..len
        /\ sent \in Seq(Piece) /\ Len(sent) \in Nat
    BY DEF TypeInv, TypeOK, Piece
  <2>2. CASE WritePiece
    <3>1. PICK wlen \in 1..NeedWrite :
            /\ sent' = Append(sent, Frame(wlen))
            /\ widx' = widx + wlen
      BY <2>2 DEF WritePiece
    <3>2. /\ app = "write" /\ len' = len
          /\ app' = "write" \/ app' = "stop"
          /\ app' = "write" <=> widx' # len
      BY <2>2 DEF WritePiece, AppGoes
    <3>3. /\ Len(sent') = Len(sent) + 1
          /\ \A i \in 1..Len(sent) : sent'[i] = sent[i]
          /\ sent'[Len(sent) + 1] = Frame(wlen)
      BY <2>1, <3>1
    <3>4. /\ Frame(wlen).opcode = "TEXT" <=> Len(sent) + 1 = 1
          /\ Frame(wlen).fin <=> len - widx <= BufferSize
          /\ Frame(wlen).cut <=> wlen < NeedWrite
      <4>1. sent = <<>> <=> Len(sent) = 0
        BY <2>1
      <4>2. Frame(wlen).opcode = "TEXT" <=> Len(sent) + 1 = 1
        BY <2>1, <4>1 DEF Frame
      <4>3. /\ Frame(wlen).fin = (len - widx <= BufferSize)
            /\ Frame(wlen).cut = (wlen < NeedWrite)
        BY Zenon DEF Frame
      <4>4. QED
        BY <4>2, <4>3
    <3>5. /\ widx' # len => widx' < len /\ (Frame(wlen).fin => Frame(wlen).cut)
          /\ widx' = len => Frame(wlen).fin
      BY <2>1, <3>1, <3>4 DEF NeedWrite
    <3>6. \A i \in 1..Len(sent) : sent[i].fin => sent[i].cut
      BY <3>2 DEF Framed
    <3>7. FramedAsOneMessage'
      <4>1. ASSUME NEW i \in 1..Len(sent')
            PROVE  /\ sent'[i].opcode = "TEXT" <=> i = 1
                   /\ sent'[i].fin /\ i < Len(sent') => sent'[i].cut
        <5>1. CASE i \in 1..Len(sent)
          BY <3>3, <3>6, <5>1 DEF Framed, FramedAsOneMessage
        <5>2. CASE i = Len(sent) + 1
          BY <3>3, <3>4, <5>2
        <5>3. QED
          BY <2>1, <3>3, <5>1, <5>2
      <4>2. widx' = len' => sent'[Len(sent')].fin
        BY <3>2, <3>3, <3>5
      <4>3. QED
        BY <4>1, <4>2 DEF FramedAsOneMessage
    <3>8. widx' # len => \A i \in 1..Len(sent') : sent'[i].fin => sent'[i].cut
      BY <2>1, <3>3, <3>5, <3>6
    <3>9. QED
      BY <3>2, <3>5, <3>7, <3>8 DEF Framed
  <2>3. CASE Next /\ ~WritePiece
    <3>1. UNCHANGED message /\ (app' = "write" => app \in {"write", "lock"})
      BY <2>3, OnlyWritePieceWrites
    <3>2. app = "lock" => Len(sent) = 0 /\ widx = 0
      BY DEF Written, BeforeWrite
    <3>3. QED
      BY <2>1, <3>1, <3>2 DEF Framed, FramedAsOneMessage, message
  <2>4. CASE UNCHANGED vars
    BY <2>4 DEF vars, message, Framed, FramedAsOneMessage
  <2>5. QED
    BY <2>2, <2>3, <2>4
<1>3. QED
  BY <1>1, <1>2, TypeInvariant, WrittenInvariant, PTL DEF Spec, Framed

-----------------------------------------------------------------------------
(* Stopping holds in every state. *)
LEMMA StoppingInvariant == Spec => []Stopping
<1>1. Init => Stopping
  BY DEF Init, Stopping, Looping
<1>2. Stopping /\ [Next]_vars => Stopping'
  <2> SUFFICES ASSUME Stopping, [Next]_vars
               PROVE  Stopping'
    OBVIOUS
  <2>1. CASE InitClient
    BY <2>1 DEF InitClient, AppGoes, Stopping, Looping, shared, network,
                loop, message
  <2>2. CASE StartTask
    BY <2>2 DEF StartTask, AppGoes, Stopping, Looping, shared, network,
                loop, message
  <2>3. CASE StartFails
    BY <2>3 DEF StartFails, AppGoes, Stopping, Looping, shared, network,
                loop, message
  <2>4. CASE ClearBits
    BY <2>4 DEF ClearBits, AppGoes, Stopping, Looping, shared, network,
                loop, message
  <2>5. CASE Delay
    BY <2>5 DEF Delay, AppGoes, Stopping, Looping, shared, network, loop,
                message
  <2>6. CASE IsConnected
    BY <2>6 DEF IsConnected, AppGoes, Stopping, Looping, shared, network,
                loop, message
  <2>7. CASE SendWithOpcode
    BY <2>7 DEF SendWithOpcode, AppGoes, Stopping, Looping, shared,
                network, loop, message
  <2>8. CASE WritePiece
    BY <2>8 DEF WritePiece, AppGoes, Stopping, Looping, shared, network,
                loop, message
  <2>9. CASE WriteFails
    BY <2>9 DEF WriteFails, AppGoes, Stopping, Looping, shared, network,
                loop, message
  <2>10. CASE AbortWrite
    BY <2>10 DEF AbortWrite, AppGoes, Stopping, Looping, shared, network,
                 loop, message
  <2>11. CASE Stop
    BY <2>11 DEF Stop, AppGoes, Stopping, Looping, shared, network, loop,
                 message
  <2>12. CASE AwaitStopped
    BY <2>12 DEF AwaitStopped, AppGoes, Stopping, Looping, shared, network,
                 loop, message
  <2>13. CASE Destroy
    BY <2>13 DEF Destroy, AppGoes, Stopping, Looping, shared, network,
                 loop, message
  <2>14. CASE TaskStarts
    BY <2>14 DEF TaskStarts, TaskGoes, Stopping, Looping, shared, network,
                 loop, message
  <2>15. CASE While
    BY <2>15 DEF While, TaskGoes, Stopping, Looping, shared, network, loop,
                 message
  <2>16. CASE Take
    BY <2>16 DEF Take, TaskGoes, Stopping, Looping, shared, network, loop,
                 message
  <2>17. CASE ConnectSucceeds
    BY <2>17 DEF ConnectSucceeds, Case, TaskGoes, Stopping, Looping,
                 shared, network, loop, message
  <2>18. CASE ConnectFails
    BY <2>18 DEF ConnectFails, Case, TaskGoes, AbortConnection, Stopping,
                 Looping, shared, network, loop, message
  <2>19. CASE SkipRead
    BY <2>19 DEF SkipRead, Case, TaskGoes, Stopping, Looping, shared,
                 network, loop, message
  <2>20. CASE PongTimeout
    BY <2>20 DEF PongTimeout, Case, TaskGoes, AbortConnection, Stopping,
                 Looping, shared, network, loop, message
  <2>21. CASE Recv
    BY <2>21 DEF Recv, Case, TaskGoes, AbortConnection, Stopping, Looping,
                 shared, network, loop, message
  <2>22. CASE WaitTimeout
    BY <2>22 DEF WaitTimeout, Case, TaskGoes, Stopping, Looping, shared,
                 network, loop, message
  <2>23. CASE EchoClose
    BY <2>23 DEF EchoClose, Case, TaskGoes, Stopping, Looping, shared,
                 network, loop, message
  <2>24. CASE Give
    BY <2>24 DEF Give, TaskGoes, Stopping, Looping, shared, network, loop,
                 message
  <2>25. CASE Poll
    BY <2>25 DEF Poll, TaskGoes, Stopping, Looping, shared, network, loop,
                 message
  <2>26. CASE AbortPoll
    BY <2>26 DEF AbortPoll, TaskGoes, Stopping, Looping, shared, network,
                 loop, message
  <2>27. CASE NotConnected
    BY <2>27 DEF NotConnected, TaskGoes, ClosingSent, Stopping, Looping,
                 shared, network, loop, message
  <2>28. CASE StillWaiting
    BY <2>28 DEF StillWaiting, TaskGoes, ClosingSent, Stopping, Looping,
                 shared, network, loop, message
  <2>29. CASE ConnectionClosed
    BY <2>29 DEF ConnectionClosed, TaskGoes, ClosingSent, Stopping,
                 Looping, shared, network, loop, message
  <2>30. CASE ForgetConnection
    BY <2>30 DEF ForgetConnection, TaskGoes, Stopping,
                 Looping, shared, network, loop, message
  <2>31. CASE DispatchClosed
    BY <2>31 DEF DispatchClosed, TaskGoes, Stopping,
                 Looping, shared, network, loop, message
  <2>32. CASE CloseTransport
    BY <2>32 DEF CloseTransport, TaskGoes, Stopping, Looping, shared,
                 network, loop, message
  <2>33. CASE SetStopped
    BY <2>33 DEF SetStopped, TaskGoes, Stopping, Looping, shared, network,
                 loop, message
  <2>34. CASE EndTask
    BY <2>34 DEF EndTask, TaskGoes, Stopping, Looping, shared, network,
                 loop, message
  <2>35. CASE TouchFreed
    BY <2>35 DEF TouchFreed, Stopping, Looping, shared, network, loop,
                 message
  <2>36. CASE Server
    BY <2>36 DEF Server, Stopping, Looping, shared, network, loop, message
  <2>37. CASE UNCHANGED vars
    BY <2>37 DEF vars, Stopping, Looping, shared, network, loop, message
  <2>38. QED
    BY <2>1, <2>2, <2>3, <2>4, <2>5, <2>6, <2>7, <2>8, <2>9, <2>10, <2>11,
       <2>12, <2>13, <2>14, <2>15, <2>16, <2>17, <2>18, <2>19, <2>20,
       <2>21, <2>22, <2>23, <2>24, <2>25, <2>26, <2>27, <2>28, <2>29,
       <2>30, <2>31, <2>32, <2>33, <2>34, <2>35, <2>36, <2>37 DEF Next, Application, Task
<1>3. QED
  BY <1>1, <1>2, PTL DEF Spec

-----------------------------------------------------------------------------
(* Ending holds in every state. *)
LEMMA EndingInvariant == Spec => []Ending
<1>1. Init => Ending
  BY DEF Init, Ending, Closed
<1>2. Stopping /\ Ending /\ [Next]_vars => Ending'
  <2> SUFFICES ASSUME Stopping, Ending, [Next]_vars
               PROVE  Ending'
    OBVIOUS
  <2>1. CASE InitClient
    BY <2>1 DEF InitClient, AppGoes, Ending, Stopping, Looping, Closed, shared,
                network, loop, message
  <2>2. CASE StartTask
    BY <2>2 DEF StartTask, AppGoes, Ending, Stopping, Looping, Closed, shared,
                network, loop, message
  <2>3. CASE StartFails
    BY <2>3 DEF StartFails, AppGoes, Ending, Stopping, Looping, Closed, shared,
                network, loop, message
  <2>4. CASE ClearBits
    BY <2>4 DEF ClearBits, AppGoes, Ending, Stopping, Looping, Closed, shared,
                network, loop, message
  <2>5. CASE Delay
    BY <2>5 DEF Delay, AppGoes, Ending, Stopping, Looping, Closed, shared,
                network, loop, message
  <2>6. CASE IsConnected
    BY <2>6 DEF IsConnected, AppGoes, Ending, Stopping, Looping, Closed,
                shared, network, loop, message
  <2>7. CASE SendWithOpcode
    BY <2>7 DEF SendWithOpcode, AppGoes, Ending, Stopping, Looping, Closed,
                shared, network, loop, message
  <2>8. CASE WritePiece
    BY <2>8 DEF WritePiece, AppGoes, Ending, Stopping, Looping, Closed, shared,
                network, loop, message
  <2>9. CASE WriteFails
    BY <2>9 DEF WriteFails, AppGoes, Ending, Stopping, Looping, Closed, shared,
                network, loop, message
  <2>10. CASE AbortWrite
    BY <2>10 DEF AbortWrite, AppGoes, Ending, Stopping, Looping, Closed,
                 shared, network, loop, message
  <2>11. CASE Stop
    BY <2>11 DEF Stop, AppGoes, Ending, Stopping, Looping, Closed, shared,
                 network, loop, message
  <2>12. CASE AwaitStopped
    BY <2>12 DEF AwaitStopped, AppGoes, Ending, Stopping, Looping, Closed,
                 shared, network, loop, message
  <2>13. CASE Destroy
    BY <2>13 DEF Destroy, AppGoes, Ending, Stopping, Looping, Closed, shared,
                 network, loop, message
  <2>14. CASE TaskStarts
    BY <2>14 DEF TaskStarts, TaskGoes, Ending, Stopping, Looping, Closed,
                 shared, network, loop, message
  <2>15. CASE While
    BY <2>15 DEF While, TaskGoes, Ending, Stopping, Looping, Closed, shared,
                 network, loop, message
  <2>16. CASE Take
    BY <2>16 DEF Take, TaskGoes, Ending, Stopping, Looping, Closed, shared,
                 network, loop, message
  <2>17. CASE ConnectSucceeds
    BY <2>17 DEF ConnectSucceeds, Case, TaskGoes, Ending, Stopping,
                 Looping, Closed, shared, network, loop, message
  <2>18. CASE ConnectFails
    BY <2>18 DEF ConnectFails, Case, TaskGoes, AbortConnection, Ending,
                 Stopping, Looping, Closed, shared, network, loop, message
  <2>19. CASE SkipRead
    BY <2>19 DEF SkipRead, Case, TaskGoes, Ending, Stopping, Looping, Closed,
                 shared, network, loop, message
  <2>20. CASE PongTimeout
    BY <2>20 DEF PongTimeout, Case, TaskGoes, AbortConnection, Ending,
                 Stopping, Looping, Closed, shared, network, loop, message
  <2>21. CASE Recv
    BY <2>21 DEF Recv, Case, TaskGoes, AbortConnection, Ending, Stopping,
                 Looping, Closed, shared, network, loop, message
  <2>22. CASE WaitTimeout
    BY <2>22 DEF WaitTimeout, Case, TaskGoes, Ending, Stopping, Looping,
                 Closed, shared, network, loop, message
  <2>23. CASE EchoClose
    BY <2>23 DEF EchoClose, Case, TaskGoes, Ending, Stopping, Looping, Closed,
                 shared, network, loop, message
  <2>24. CASE Give
    BY <2>24 DEF Give, TaskGoes, Ending, Stopping, Looping, Closed, shared,
                 network, loop, message
  <2>25. CASE Poll
    BY <2>25 DEF Poll, TaskGoes, Ending, Stopping, Looping, Closed, shared,
                 network, loop, message
  <2>26. CASE AbortPoll
    BY <2>26 DEF AbortPoll, TaskGoes, Ending, Stopping, Looping, Closed,
                 shared, network, loop, message
  <2>27. CASE NotConnected
    BY <2>27 DEF NotConnected, TaskGoes, ClosingSent, Ending, Stopping,
                 Looping, Closed, shared, network, loop, message
  <2>28. CASE StillWaiting
    BY <2>28 DEF StillWaiting, TaskGoes, ClosingSent, Ending, Stopping,
                 Looping, Closed, shared, network, loop, message
  <2>29. CASE ConnectionClosed
    BY <2>29 DEF ConnectionClosed, TaskGoes, ClosingSent, Ending, Stopping,
                 Looping, Closed, shared, network, loop, message
  <2>30. CASE ForgetConnection
    BY <2>30 DEF ForgetConnection, TaskGoes, Ending, Stopping,
                 Looping, Closed, shared, network, loop, message
  <2>31. CASE DispatchClosed
    BY <2>31 DEF DispatchClosed, TaskGoes, Ending, Stopping,
                 Looping, Closed, shared, network, loop, message
  <2>32. CASE CloseTransport
    BY <2>32 DEF CloseTransport, TaskGoes, Ending, Stopping, Looping, Closed,
                 shared, network, loop, message
  <2>33. CASE SetStopped
    BY <2>33 DEF SetStopped, TaskGoes, Ending, Stopping, Looping, Closed,
                 shared, network, loop, message
  <2>34. CASE EndTask
    BY <2>34 DEF EndTask, TaskGoes, Ending, Stopping, Looping, Closed, shared,
                 network, loop, message
  <2>35. CASE TouchFreed
    BY <2>35 DEF TouchFreed, Ending, Stopping, Looping, Closed, shared,
                 network, loop, message
  <2>36. CASE Server
    BY <2>36 DEF Server, Ending, Stopping, Looping, Closed, shared, network,
                 loop, message
  <2>37. CASE UNCHANGED vars
    BY <2>37 DEF vars, Ending, Stopping, Looping, Closed, shared, network,
                 loop, message
  <2>38. QED
    BY <2>1, <2>2, <2>3, <2>4, <2>5, <2>6, <2>7, <2>8, <2>9, <2>10, <2>11,
       <2>12, <2>13, <2>14, <2>15, <2>16, <2>17, <2>18, <2>19, <2>20,
       <2>21, <2>22, <2>23, <2>24, <2>25, <2>26, <2>27, <2>28, <2>29,
       <2>30, <2>31, <2>32, <2>33, <2>34, <2>35, <2>36, <2>37 DEF Next, Application, Task
<1>3. QED
  BY <1>1, <1>2, StoppingInvariant, PTL DEF Spec

(* The client is freed only when its task is out of its loop or was never  *)
(* created, whichever way stop returned, but for the two lines after a     *)
(* close by the server.                                                    *)
THEOREM FreedOutOfLoop == Spec => []FreedAfterLoop
<1>1. Stopping /\ Ending => FreedAfterLoop
  BY DEF Stopping, Ending, FreedAfterLoop
<1>2. QED
  BY <1>1, StoppingInvariant, EndingInvariant, PTL

(* Unless the server closed the connection, the client is freed only when  *)
(* its task has closed the transport and set STOPPED_BIT.                  *)
THEOREM StoppedBeforeFreed == Spec => []FreedAfterStopped
<1>1. Stopping /\ Ending => FreedAfterStopped
  BY DEF Stopping, Ending, FreedAfterStopped
<1>2. QED
  BY <1>1, StoppingInvariant, EndingInvariant, PTL
=============================================================================
