------------------------- MODULE WebSocketPairProofs -------------------------
(***************************************************************************)
(* What is proved of the two ends of a stream, for any number of threads   *)
(* and of calls: no end lets go of its socket before the other has begun   *)
(* to close, and what on_close reports is a code that was sent.  Each end  *)
(* is the connection of WebSocketConnectionProofs, whose lemmas say what   *)
(* it owes the other end and what it relies on.                            *)
(***************************************************************************)
EXTENDS WebSocketPair, TLAPS

AtServer == INSTANCE WebSocketConnectionProofs WITH
    App <- ServerApp, Io <- ServerIo, Client <- FALSE, Ops <- ServerOps,
    HandlerOps <- {}, InFrames <- {}, MaxCalls <- ServerCalls, MaxIn <- 0,
    ExternalClose <- FALSE, Faults <- FALSE, rx <- to_server,
    tx <- to_client, peer <- "open", peer_frames <- 0,
    is_closing <- s_is_closing, closed <- s_closed,
    handshake_complete <- s_handshake_complete, handlers <- s_handlers,
    sock <- s_sock, write_queue <- s_write_queue,
    write_in_progress <- s_write_in_progress,
    close_after_write <- s_close_after_write,
    socket_op_mutex <- s_socket_op_mutex,
    close_handler_mutex <- s_close_handler_mutex, close_code <- s_close_code,
    frame_buffer <- s_frame_buffer, read_op <- s_read_op,
    write_op <- s_write_op, pc <- s_pc, stack <- s_stack, frame <- s_frame,
    on_close <- s_on_close, calls <- s_calls

AtClient == INSTANCE WebSocketConnectionProofs WITH
    App <- ClientApp, Io <- ClientIo, Client <- TRUE, Ops <- ClientOps,
    HandlerOps <- {}, InFrames <- {}, MaxCalls <- ClientCalls, MaxIn <- 0,
    ExternalClose <- FALSE, Faults <- FALSE, rx <- to_client,
    tx <- to_server, peer <- "open", peer_frames <- 0,
    is_closing <- c_is_closing, closed <- c_closed,
    handshake_complete <- c_handshake_complete, handlers <- c_handlers,
    sock <- c_sock, write_queue <- c_write_queue,
    write_in_progress <- c_write_in_progress,
    close_after_write <- c_close_after_write,
    socket_op_mutex <- c_socket_op_mutex,
    close_handler_mutex <- c_close_handler_mutex, close_code <- c_close_code,
    frame_buffer <- c_frame_buffer, read_op <- c_read_op,
    write_op <- c_write_op, pc <- c_pc, stack <- c_stack, frame <- c_frame,
    on_close <- c_on_close, calls <- c_calls

-----------------------------------------------------------------------------
(* The two names of each end.                                              *)

\* What is assumed of the threads and of the calls holds of the server ...
LEMMA ServerAssumptions ==
  /\ AtServer!ThreadsAssumption /\ AtServer!BoundsAssumption /\ AtServer!FlagsAssumption
  /\ AtServer!CallsAssumption /\ AtServer!FramesAssumption /\ AtServer!Orderly
BY ThreadsAssumption, OpsAssumption, BoundsAssumption
   DEF AtServer!ThreadsAssumption, AtServer!BoundsAssumption, AtServer!FlagsAssumption,
       AtServer!CallsAssumption, AtServer!FramesAssumption, AtServer!Orderly, AtServer!Thread, AtServer!Call

\* ... and of the client.
LEMMA ClientAssumptions ==
  /\ AtClient!ThreadsAssumption /\ AtClient!BoundsAssumption /\ AtClient!FlagsAssumption
  /\ AtClient!CallsAssumption /\ AtClient!FramesAssumption /\ AtClient!Orderly
BY ThreadsAssumption, OpsAssumption, BoundsAssumption
   DEF AtClient!ThreadsAssumption, AtClient!BoundsAssumption, AtClient!FlagsAssumption,
       AtClient!CallsAssumption, AtClient!FramesAssumption, AtClient!Orderly, AtClient!Thread, AtClient!Call

\* The steps of the server are those of its connection.
LEMMA ServerMoves ==
  ASSUME NEW t, ServerEnd!Step(t) \/ ServerEnd!UserStep(t)
  PROVE  AtServer!Step(t) \/ AtServer!UserStep(t)
<1> USE DEF ServerEnd!At, AtServer!At, ServerEnd!Goto, AtServer!Goto, ServerEnd!CallThen, AtServer!CallThen,
      ServerEnd!Return, AtServer!Return, ServerEnd!Free, AtServer!Free, ServerEnd!SocketOpen,
      AtServer!SocketOpen, ServerEnd!conn, AtServer!conn, ServerEnd!out, AtServer!out, ServerEnd!net,
      AtServer!net, ServerEnd!locks, AtServer!locks, ServerEnd!env, AtServer!env
<1>1. ServerEnd!Writing(t) => AtServer!Writing(t)
  BY DEF ServerEnd!Writing, AtServer!Writing, ServerEnd!SendFrame, AtServer!SendFrame, ServerEnd!SendSocket,
     AtServer!SendSocket, ServerEnd!Enqueue, AtServer!Enqueue, ServerEnd!Dequeue, AtServer!Dequeue,
     ServerEnd!StartWrite, AtServer!StartWrite
<1>2. ServerEnd!Closing(t) => AtServer!Closing(t)
  BY DEF ServerEnd!Closing, AtServer!Closing, ServerEnd!Close, AtServer!Close, ServerEnd!CloseCode,
     AtServer!CloseCode, ServerEnd!AnswerClose, AtServer!AnswerClose, ServerEnd!ScheduleClose,
     AtServer!ScheduleClose, ServerEnd!DoClose, AtServer!DoClose, ServerEnd!DispatchClose,
     AtServer!DispatchClose, ServerEnd!CloseHandlerReturns, AtServer!CloseHandlerReturns,
     ServerEnd!CloseSocket, AtServer!CloseSocket, ServerEnd!HangUp, AtServer!HangUp, ServerEnd!Unread,
     AtServer!Unread
<1>3. ServerEnd!ForceClosing(t) => AtServer!ForceClosing(t)
  BY DEF ServerEnd!ForceClosing, AtServer!ForceClosing, ServerEnd!ForceClose, AtServer!ForceClose,
     ServerEnd!ForceCloseHandlers, AtServer!ForceCloseHandlers, ServerEnd!ForceCloseClosed,
     AtServer!ForceCloseClosed, ServerEnd!ForceCloseSocket, AtServer!ForceCloseSocket, ServerEnd!HangUp,
     AtServer!HangUp, ServerEnd!Unread, AtServer!Unread
<1>4. ServerEnd!Opening(t) => AtServer!Opening(t)
  BY DEF ServerEnd!Opening, AtServer!Opening, ServerEnd!HandshakeRejected, AtServer!HandshakeRejected,
     ServerEnd!HandshakeAccepted, AtServer!HandshakeAccepted, ServerEnd!HandshakeWritten,
     AtServer!HandshakeWritten, ServerEnd!HandshakeFailed, AtServer!HandshakeFailed,
     ServerEnd!WriteCompletes, AtServer!WriteCompletes
<1>5. ServerEnd!Completing(t) => AtServer!Completing(t)
  BY DEF ServerEnd!Completing, AtServer!Completing, ServerEnd!OnWrite, AtServer!OnWrite,
     ServerEnd!OnWriteError, AtServer!OnWriteError, ServerEnd!WriteFailed, AtServer!WriteFailed,
     ServerEnd!OnRead, AtServer!OnRead, ServerEnd!OnReadError, AtServer!OnReadError,
     ServerEnd!WriteCompletes, AtServer!WriteCompletes, ServerEnd!Outbound, AtServer!Outbound,
     ServerEnd!Contains, AtServer!Contains
<1>6. ServerEnd!Reading(t) => AtServer!Reading(t)
  BY DEF ServerEnd!Reading, AtServer!Reading, ServerEnd!StartRead, AtServer!StartRead, ServerEnd!LockRead,
     AtServer!LockRead, ServerEnd!NoMoreFrames, AtServer!NoMoreFrames, ServerEnd!DiscardFrames,
     AtServer!DiscardFrames, ServerEnd!HandleMessage, AtServer!HandleMessage, ServerEnd!HandlePing,
     AtServer!HandlePing, ServerEnd!HandlePong, AtServer!HandlePong, ServerEnd!HandleBad,
     AtServer!HandleBad, ServerEnd!HandleClose, AtServer!HandleClose, ServerEnd!AfterFrame,
     AtServer!AfterFrame, ServerEnd!CheckClosed, AtServer!CheckClosed, ServerEnd!Dispatch,
     AtServer!Dispatch, ServerEnd!NextFrame, AtServer!NextFrame
<1>7. ServerEnd!HandlerReturns(t) => AtServer!HandlerReturns(t)
  BY DEF ServerEnd!HandlerReturns, AtServer!HandlerReturns, ServerEnd!InHandler, AtServer!InHandler
<1>8. ServerEnd!UserStep(t) => AtServer!UserStep(t)
  BY DEF ServerEnd!UserStep, AtServer!UserStep, ServerEnd!AppCall, AtServer!AppCall, ServerEnd!HandlerCall,
     AtServer!HandlerCall, ServerEnd!InHandler, AtServer!InHandler, ServerEnd!Entry, AtServer!Entry,
     ServerEnd!Argument, AtServer!Argument
<1> QED
  BY <1>1, <1>2, <1>3, <1>4, <1>5, <1>6, <1>7, <1>8 DEF ServerEnd!Step, AtServer!Step

\* So are those of its asio.
LEMMA ServerCompletes == ASSUME ServerEnd!Asio PROVE AtServer!Asio
BY DEF ServerEnd!Asio, AtServer!Asio, ServerEnd!Transmit, AtServer!Transmit, ServerEnd!Receive,
   AtServer!Receive, ServerEnd!SocketOpen, AtServer!SocketOpen, ServerEnd!conn, AtServer!conn,
   ServerEnd!out, AtServer!out, ServerEnd!locks, AtServer!locks, ServerEnd!env, AtServer!env

\* The steps of the client are those of its connection.
LEMMA ClientMoves ==
  ASSUME NEW t, ClientEnd!Step(t) \/ ClientEnd!UserStep(t)
  PROVE  AtClient!Step(t) \/ AtClient!UserStep(t)
<1> USE DEF ClientEnd!At, AtClient!At, ClientEnd!Goto, AtClient!Goto, ClientEnd!CallThen, AtClient!CallThen,
      ClientEnd!Return, AtClient!Return, ClientEnd!Free, AtClient!Free, ClientEnd!SocketOpen,
      AtClient!SocketOpen, ClientEnd!conn, AtClient!conn, ClientEnd!out, AtClient!out, ClientEnd!net,
      AtClient!net, ClientEnd!locks, AtClient!locks, ClientEnd!env, AtClient!env
<1>1. ClientEnd!Writing(t) => AtClient!Writing(t)
  BY DEF ClientEnd!Writing, AtClient!Writing, ClientEnd!SendFrame, AtClient!SendFrame, ClientEnd!SendSocket,
     AtClient!SendSocket, ClientEnd!Enqueue, AtClient!Enqueue, ClientEnd!Dequeue, AtClient!Dequeue,
     ClientEnd!StartWrite, AtClient!StartWrite
<1>2. ClientEnd!Closing(t) => AtClient!Closing(t)
  BY DEF ClientEnd!Closing, AtClient!Closing, ClientEnd!Close, AtClient!Close, ClientEnd!CloseCode,
     AtClient!CloseCode, ClientEnd!AnswerClose, AtClient!AnswerClose, ClientEnd!ScheduleClose,
     AtClient!ScheduleClose, ClientEnd!DoClose, AtClient!DoClose, ClientEnd!DispatchClose,
     AtClient!DispatchClose, ClientEnd!CloseHandlerReturns, AtClient!CloseHandlerReturns,
     ClientEnd!CloseSocket, AtClient!CloseSocket, ClientEnd!HangUp, AtClient!HangUp, ClientEnd!Unread,
     AtClient!Unread
<1>3. ClientEnd!ForceClosing(t) => AtClient!ForceClosing(t)
  BY DEF ClientEnd!ForceClosing, AtClient!ForceClosing, ClientEnd!ForceClose, AtClient!ForceClose,
     ClientEnd!ForceCloseHandlers, AtClient!ForceCloseHandlers, ClientEnd!ForceCloseClosed,
     AtClient!ForceCloseClosed, ClientEnd!ForceCloseSocket, AtClient!ForceCloseSocket, ClientEnd!HangUp,
     AtClient!HangUp, ClientEnd!Unread, AtClient!Unread
<1>4. ClientEnd!Opening(t) => AtClient!Opening(t)
  BY DEF ClientEnd!Opening, AtClient!Opening, ClientEnd!HandshakeRejected, AtClient!HandshakeRejected,
     ClientEnd!HandshakeAccepted, AtClient!HandshakeAccepted, ClientEnd!HandshakeWritten,
     AtClient!HandshakeWritten, ClientEnd!HandshakeFailed, AtClient!HandshakeFailed,
     ClientEnd!WriteCompletes, AtClient!WriteCompletes
<1>5. ClientEnd!Completing(t) => AtClient!Completing(t)
  BY DEF ClientEnd!Completing, AtClient!Completing, ClientEnd!OnWrite, AtClient!OnWrite,
     ClientEnd!OnWriteError, AtClient!OnWriteError, ClientEnd!WriteFailed, AtClient!WriteFailed,
     ClientEnd!OnRead, AtClient!OnRead, ClientEnd!OnReadError, AtClient!OnReadError,
     ClientEnd!WriteCompletes, AtClient!WriteCompletes, ClientEnd!Outbound, AtClient!Outbound,
     ClientEnd!Contains, AtClient!Contains
<1>6. ClientEnd!Reading(t) => AtClient!Reading(t)
  BY DEF ClientEnd!Reading, AtClient!Reading, ClientEnd!StartRead, AtClient!StartRead, ClientEnd!LockRead,
     AtClient!LockRead, ClientEnd!NoMoreFrames, AtClient!NoMoreFrames, ClientEnd!DiscardFrames,
     AtClient!DiscardFrames, ClientEnd!HandleMessage, AtClient!HandleMessage, ClientEnd!HandlePing,
     AtClient!HandlePing, ClientEnd!HandlePong, AtClient!HandlePong, ClientEnd!HandleBad,
     AtClient!HandleBad, ClientEnd!HandleClose, AtClient!HandleClose, ClientEnd!AfterFrame,
     AtClient!AfterFrame, ClientEnd!CheckClosed, AtClient!CheckClosed, ClientEnd!Dispatch,
     AtClient!Dispatch, ClientEnd!NextFrame, AtClient!NextFrame
<1>7. ClientEnd!HandlerReturns(t) => AtClient!HandlerReturns(t)
  BY DEF ClientEnd!HandlerReturns, AtClient!HandlerReturns, ClientEnd!InHandler, AtClient!InHandler
<1>8. ClientEnd!UserStep(t) => AtClient!UserStep(t)
  BY DEF ClientEnd!UserStep, AtClient!UserStep, ClientEnd!AppCall, AtClient!AppCall, ClientEnd!HandlerCall,
     AtClient!HandlerCall, ClientEnd!InHandler, AtClient!InHandler, ClientEnd!Entry, AtClient!Entry,
     ClientEnd!Argument, AtClient!Argument
<1> QED
  BY <1>1, <1>2, <1>3, <1>4, <1>5, <1>6, <1>7, <1>8 DEF ClientEnd!Step, AtClient!Step

\* So are those of its asio.
LEMMA ClientCompletes == ASSUME ClientEnd!Asio PROVE AtClient!Asio
BY DEF ClientEnd!Asio, AtClient!Asio, ClientEnd!Transmit, AtClient!Transmit, ClientEnd!Receive,
   AtClient!Receive, ClientEnd!SocketOpen, AtClient!SocketOpen, ClientEnd!conn, AtClient!conn,
   ClientEnd!out, AtClient!out, ClientEnd!locks, AtClient!locks, ClientEnd!env, AtClient!env

-----------------------------------------------------------------------------
(* The pair.                                                               *)

\* Both ends are in order, and neither has heard of a Close, or of the end of the stream,
\* before the other has begun to close.
PairInv ==
    /\ AtServer!ConnectionInv /\ AtClient!ConnectionInv
    /\ AtServer!Heard => AtClient!Begun
    /\ AtClient!Heard => AtServer!Begun

\* It holds after the opening handshake.
LEMMA PairInit == Init => PairInv
<1> SUFFICES ASSUME Init PROVE PairInv
  OBVIOUS
<1>1. AtServer!Opened
  BY DEF Init, ServerOpen, AtServer!Opened, ServerEnd!Thread, AtServer!Thread
<1>2. AtClient!Opened
  BY DEF Init, ClientOpen, AtClient!Opened, ClientEnd!Thread, AtClient!Thread
<1>3. AtServer!ConnectionInv /\ ~AtServer!Heard
  BY <1>1, AtServer!OpenedInv, ServerAssumptions
<1>4. AtClient!ConnectionInv /\ ~AtClient!Heard
  BY <1>2, AtClient!OpenedInv, ClientAssumptions
<1> QED
  BY <1>3, <1>4 DEF PairInv

\* The server hears what the client has sent, and the client has begun to close then.
LEMMA ServerKeeps ==
  ASSUME PairInv, UNCHANGED client,
         ServerEnd!Asio \/ \E t \in ServerEnd!Thread : ServerEnd!Step(t) \/ ServerEnd!UserStep(t)
  PROVE  PairInv'
<1>1. AtServer!Asio \/ \E t \in AtServer!Thread : AtServer!Step(t) \/ AtServer!UserStep(t)
  BY ServerCompletes, ServerMoves DEF ServerEnd!Thread, AtServer!Thread
<1>2. AtServer!ConnectionInv /\ AtClient!ConnectionInv
  BY DEF PairInv
<1>3. /\ to_server \in Seq(AtClient!Outbound \cup {"fin"})
      /\ AtClient!Contains(to_server, "close") => AtClient!Begun
      /\ AtClient!Contains(to_server, "fin") => AtClient!Begun /\ AtClient!Heard
  BY <1>2, AtClient!WhatIsSent, ClientAssumptions
<1>4. /\ to_server \in Seq(AtServer!Outbound \cup {"fin"})
      /\ AtServer!Contains(to_server, "close") \/ AtServer!Contains(to_server, "fin") => AtClient!Begun
      /\ AtServer!Contains(to_server, "fin") => AtServer!Begun
  BY <1>3 DEF PairInv, AtServer!Outbound, AtClient!Outbound, AtServer!Contains, AtClient!Contains
<1>5. /\ AtServer!ConnectionInv' /\ (AtServer!Begun => AtServer!Begun') /\ AtServer!Rest(to_server', to_server)
      /\ AtServer!Heard' => \/ AtServer!Heard \/ AtServer!Contains(to_server, "close")
                            \/ AtServer!Contains(to_server, "fin")
  BY <1>1, <1>2, <1>4, AtServer!OwnStep, ServerAssumptions
<1>6. UNCHANGED AtClient!own /\ AtClient!Rest(to_server', to_server)
  BY <1>5 DEF client, AtClient!own, AtServer!Rest, AtClient!Rest
<1>7. AtClient!ConnectionInv' /\ (AtClient!Begun' <=> AtClient!Begun) /\ (AtClient!Heard' => AtClient!Heard)
  BY <1>2, <1>6, AtClient!OthersStep, ClientAssumptions
<1> QED
  BY <1>4, <1>5, <1>7 DEF PairInv

\* And the other way round.
LEMMA ClientKeeps ==
  ASSUME PairInv, UNCHANGED server,
         ClientEnd!Asio \/ \E t \in ClientEnd!Thread : ClientEnd!Step(t) \/ ClientEnd!UserStep(t)
  PROVE  PairInv'
<1>1. AtClient!Asio \/ \E t \in AtClient!Thread : AtClient!Step(t) \/ AtClient!UserStep(t)
  BY ClientCompletes, ClientMoves DEF ClientEnd!Thread, AtClient!Thread
<1>2. AtServer!ConnectionInv /\ AtClient!ConnectionInv
  BY DEF PairInv
<1>3. /\ to_client \in Seq(AtServer!Outbound \cup {"fin"})
      /\ AtServer!Contains(to_client, "close") => AtServer!Begun
      /\ AtServer!Contains(to_client, "fin") => AtServer!Begun /\ AtServer!Heard
  BY <1>2, AtServer!WhatIsSent, ServerAssumptions
<1>4. /\ to_client \in Seq(AtClient!Outbound \cup {"fin"})
      /\ AtClient!Contains(to_client, "close") \/ AtClient!Contains(to_client, "fin") => AtServer!Begun
      /\ AtClient!Contains(to_client, "fin") => AtClient!Begun
  BY <1>3 DEF PairInv, AtServer!Outbound, AtClient!Outbound, AtServer!Contains, AtClient!Contains
<1>5. /\ AtClient!ConnectionInv' /\ (AtClient!Begun => AtClient!Begun') /\ AtClient!Rest(to_client', to_client)
      /\ AtClient!Heard' => \/ AtClient!Heard \/ AtClient!Contains(to_client, "close")
                            \/ AtClient!Contains(to_client, "fin")
  BY <1>1, <1>2, <1>4, AtClient!OwnStep, ClientAssumptions
<1>6. UNCHANGED AtServer!own /\ AtServer!Rest(to_client', to_client)
  BY <1>5 DEF server, AtServer!own, AtServer!Rest, AtClient!Rest
<1>7. AtServer!ConnectionInv' /\ (AtServer!Begun' <=> AtServer!Begun) /\ (AtServer!Heard' => AtServer!Heard)
  BY <1>2, <1>6, AtServer!OthersStep, ServerAssumptions
<1> QED
  BY <1>4, <1>5, <1>7 DEF PairInv

\* No step breaks PairInv.
LEMMA PairStep == PairInv /\ [Next]_vars => PairInv'
<1> SUFFICES ASSUME PairInv, [Next]_vars PROVE PairInv'
  OBVIOUS
<1>1. CASE ServerAsio \/ \E t \in ServerEnd!Thread : ServerStep(t) \/ ServerCall(t)
  BY <1>1, ServerKeeps DEF ServerAsio, ServerStep, ServerCall
<1>2. CASE ClientAsio \/ \E t \in ClientEnd!Thread : ClientStep(t) \/ ClientCall(t)
  BY <1>2, ClientKeeps DEF ClientAsio, ClientStep, ClientCall
<1>3. CASE Quiescent \/ UNCHANGED vars
  <2>1. UNCHANGED <<server, client, to_client, to_server>>
    BY <1>3 DEF Quiescent, vars
  <2>2. UNCHANGED AtServer!own /\ UNCHANGED AtClient!own
    BY <2>1 DEF server, client, AtServer!own, AtClient!own
  <2>3. AtServer!Rest(to_client', to_client) /\ AtClient!Rest(to_server', to_server)
    BY <2>1 DEF AtServer!Rest, AtClient!Rest
  <2>4. AtServer!ConnectionInv' /\ (AtServer!Begun' <=> AtServer!Begun) /\ (AtServer!Heard' => AtServer!Heard)
    BY <2>2, <2>3, AtServer!OthersStep, ServerAssumptions DEF PairInv
  <2>5. AtClient!ConnectionInv' /\ (AtClient!Begun' <=> AtClient!Begun) /\ (AtClient!Heard' => AtClient!Heard)
    BY <2>2, <2>3, AtClient!OthersStep, ClientAssumptions DEF PairInv
  <2> QED
    BY <2>4, <2>5 DEF PairInv
<1> QED
  BY <1>1, <1>2, <1>3 DEF Next

(* InitiatorWaits: an end lets go of its socket only when the other one    *)
(* has begun to close too.                                                 *)
THEOREM InitiatorAlwaysWaits == Spec => []InitiatorWaits
<1>1. PairInv => InitiatorWaits
  <2> SUFFICES ASSUME PairInv PROVE InitiatorWaits
    OBVIOUS
  <2>1. s_sock = "null" => AtServer!Heard
    BY AtServer!WhatIsSent, ServerAssumptions DEF PairInv
  <2>2. c_sock = "null" => AtClient!Heard
    BY AtClient!WhatIsSent, ClientAssumptions DEF PairInv
  <2> QED
    BY <2>1, <2>2 DEF PairInv, InitiatorWaits, AtServer!Begun, AtClient!Begun
<1> QED
  BY <1>1, PairInit, PairStep, PTL DEF Spec

(* CloseCodeIsReported: on_close reports the code of a Close that was sent.*)
THEOREM CodeIsAlwaysReported == Spec => []CloseCodeIsReported
<1>1. PairInv => CloseCodeIsReported
  <2> SUFFICES ASSUME PairInv PROVE CloseCodeIsReported
    OBVIOUS
  <2>1. s_on_close # <<>> => s_on_close = <<"peer">> \/ ("close" \in ServerOps \cup {} /\ s_on_close = <<"local">>)
    BY AtServer!WhatIsSent, ServerAssumptions DEF PairInv
  <2>2. c_on_close # <<>> => c_on_close = <<"peer">> \/ ("close" \in ClientOps \cup {} /\ c_on_close = <<"local">>)
    BY AtClient!WhatIsSent, ClientAssumptions DEF PairInv
  <2> QED
    BY <2>1, <2>2 DEF CloseCodeIsReported
<1> QED
  BY <1>1, PairInit, PairStep, PTL DEF Spec
=============================================================================
