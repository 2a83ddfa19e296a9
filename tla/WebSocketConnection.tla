------------------------ MODULE WebSocketConnection ------------------------
(***************************************************************************)
(* One glz::websocket_connection (net/websocket_connection.hpp) at the     *)
(* granularity at which its threads interleave: one step per atomic        *)
(* operation and per critical section.  Application threads call           *)
(* send_text, close and force_close; io threads run the completion         *)
(* handlers of asio; user callbacks run inside either.  The peer is the    *)
(* most general one that speaks WebSocket frames.                          *)
(*                                                                         *)
(* Abstracted: a frame is its kind.  How frames are cut out of the byte    *)
(* stream, reassembled and validated is left to another module; here       *)
(* "bad" stands for what process_frames() and handle_frame() answer with   *)
(* close(), "invalid" for what they answer with fail_connection(), and     *)
(* "flood" for a read that leaves more than max_message_size_ + 1024 bytes *)
(* in frame_buffer_.                                                       *)
(***************************************************************************)
EXTENDS Naturals, Sequences

CONSTANTS
    App,            \* application threads
    Io,             \* threads that run the io_context
    NoThread,       \* the owner of a free mutex
    Client,         \* client_mode_
    Ops,            \* what application threads may call
    HandlerOps,     \* what user callbacks may call on the connection
    InFrames,       \* the kinds of frames the peer may send
    MaxCalls,       \* bound on the calls of the application
    MaxIn,          \* bound on the frames of the peer
    ExternalClose,  \* may websocket_client::socket() be closed by its user?
    Faults          \* may the network fail a read or a write at any time?

Thread == App \cup Io

ASSUME ThreadsAssumption == NoThread \notin Thread /\ App \cap Io = {} /\ Io # {}
ASSUME BoundsAssumption == MaxCalls \in Nat /\ MaxIn \in Nat
ASSUME FlagsAssumption == {Client, ExternalClose, Faults} \subseteq BOOLEAN

Call == {"text", "close", "force_close"}
Inbound == {"text", "ping", "pong", "bad", "invalid", "flood", "close"}
Outbound == {"101", "text", "pong", "close"}

ASSUME CallsAssumption == Ops \subseteq Call /\ HandlerOps \subseteq Call
ASSUME FramesAssumption == InFrames \subseteq Inbound

VARIABLES
    is_closing,           \* atomic: a closing handshake or a failure has begun
    closed,               \* atomic: do_close() or force_close() has won
    handshake_complete,   \* frames may flow
    handlers,             \* the user's callbacks are installed
    sock,                 \* socket_: "open", "half" (send side shut down),
                          \* "shut" (closed, pointer kept), "null" (reset)
    write_queue,          \* frames waiting, oldest first
    write_in_progress,
    close_after_write,
    socket_op_mutex,
    close_handler_mutex,
    close_code,           \* who set close_code_ last
    frame_buffer,         \* received frames that are not processed yet
    read_op,              \* the outstanding async_read_some
    write_op,             \* the outstanding async_writes
    rx, tx,               \* the two directions of the TCP stream
    pc, stack,            \* where each thread is, and where it returns to
    frame,                \* the arguments of send_frame in each thread
    on_close,             \* the codes reported to the close handler, in order
    calls,                \* calls the application may still make
    peer,                 \* "open", "closing" (sent its Close), "gone" (hung up)
    peer_frames           \* frames the peer may still send

conn == <<is_closing, closed, handshake_complete, handlers, close_code>>
out  == <<write_queue, write_in_progress, close_after_write>>
net  == <<sock, read_op, write_op, rx, tx>>
locks == <<socket_op_mutex, close_handler_mutex>>
env  == <<calls, peer, peer_frames>>
vars == <<conn, out, net, locks, frame_buffer, pc, stack, frame, on_close, env>>

\* user callbacks, and the points a call may return to
InHandler == {"in_open", "in_message", "in_error", "in_close"}
ReturnPoints == InHandler \cup {"next_frame", "start_read", "process_frames", "do_close"}
Labels == ReturnPoints \cup
    {"idle", "handshake", "close", "close_code", "answer_close", "send_frame",
     "send_socket", "enqueue", "dequeue", "start_write", "schedule_close",
     "lock_close_handler", "close_socket", "force_close", "fc_handlers",
     "fc_closed", "fc_socket", "message", "call_message", "error",
     "call_error", "write_failed", "lock_read"}

Frame == [kind : Outbound, close_after : BOOLEAN]
Status == {"pending", "ok", "failed"}
Codes == {"normal", "local", "peer", "failed"}

TypeOK ==
    /\ is_closing \in BOOLEAN /\ closed \in BOOLEAN
    /\ handshake_complete \in BOOLEAN /\ handlers \in BOOLEAN
    /\ sock \in {"open", "half", "shut", "null"}
    /\ write_queue \in Seq(Outbound)
    /\ write_in_progress \in BOOLEAN /\ close_after_write \in BOOLEAN
    /\ socket_op_mutex \in Thread \cup {NoThread}
    /\ close_handler_mutex \in Thread \cup {NoThread}
    /\ close_code \in Codes
    /\ frame_buffer \in Seq(Inbound \cup Outbound)
    /\ read_op \in Status \cup {"none"}
    /\ write_op \in Seq([kind : Outbound, status : Status])
    /\ rx \in Seq(Inbound \cup Outbound \cup {"fin"})
    /\ tx \in Seq(Outbound \cup {"fin"})
    /\ pc \in [Thread -> Labels]
    /\ stack \in [Thread -> Seq(ReturnPoints)]
    /\ frame \in [Thread -> Frame]
    /\ on_close \in Seq(Codes)
    /\ calls \in Nat /\ peer_frames \in Nat
    /\ peer \in {"open", "closing", "gone"}

Contains(s, f) == \E i \in 1..Len(s) : s[i] = f
SocketOpen == sock \in {"open", "half"}

-----------------------------------------------------------------------------
(* Control flow of a thread.                                               *)

At(t, l) == pc[t] = l
Goto(t, l) == pc' = [pc EXCEPT ![t] = l] /\ UNCHANGED stack
CallThen(t, l, r) ==
    /\ pc' = [pc EXCEPT ![t] = l]
    /\ stack' = [stack EXCEPT ![t] = <<r>> \o @]
Return(t) ==
    /\ pc' = [pc EXCEPT ![t] = IF stack[t] = <<>> THEN "idle" ELSE Head(stack[t])]
    /\ stack' = [stack EXCEPT ![t] = IF @ = <<>> THEN @ ELSE Tail(@)]

Free(mutex) == mutex = NoThread

\* Where a user's call enters the connection.
Entry(op) == IF op = "text" THEN "send_frame" ELSE op
Argument(op) == [kind |-> IF op = "text" THEN "text" ELSE "close", close_after |-> FALSE]

-----------------------------------------------------------------------------
(* Calls of the user, from an application thread or from a callback.       *)

AppCall(t) ==
    /\ t \in App /\ At(t, "idle") /\ handshake_complete /\ calls > 0
    /\ \E op \in Ops :
        /\ Goto(t, Entry(op))
        /\ frame' = [frame EXCEPT ![t] = Argument(op)]
    /\ calls' = calls - 1
    /\ UNCHANGED <<conn, out, net, locks, frame_buffer, on_close, peer, peer_frames>>

HandlerCall(t) ==
    /\ pc[t] \in InHandler /\ calls > 0
    /\ \E op \in HandlerOps :
        /\ CallThen(t, Entry(op), pc[t])
        /\ frame' = [frame EXCEPT ![t] = Argument(op)]
    /\ calls' = calls - 1
    /\ UNCHANGED <<conn, out, net, locks, frame_buffer, on_close, peer, peer_frames>>

\* The callbacks other than on_close return to the code that called them.
HandlerReturns(t) ==
    /\ pc[t] \in InHandler \ {"in_close"}
    /\ Return(t)
    /\ UNCHANGED <<conn, out, net, locks, frame_buffer, frame, on_close, env>>

-----------------------------------------------------------------------------
(* close(): the first to set is_closing_ sends a Close and waits for the   *)
(* peer's; fail_connection() and the Close case of handle_frame() instead  *)
(* ask for the socket to be closed once the Close is written.              *)

\* Faulty close(): is_closing_ is set, not compared and exchanged.
CloseUnchecked(t) ==
    /\ At(t, "close")
    /\ is_closing' = TRUE
    /\ Goto(t, "close_code")
    /\ UNCHANGED <<closed, handshake_complete, handlers, close_code, out, net,
                   locks, frame_buffer, frame, on_close, env>>

Close(t) ==
    /\ At(t, "close")
    /\ is_closing' = TRUE
    /\ IF is_closing THEN Return(t) ELSE Goto(t, "close_code")
    /\ UNCHANGED <<closed, handshake_complete, handlers, close_code, out, net,
                   locks, frame_buffer, frame, on_close, env>>

\* Faulty close(): the socket is closed as soon as the Close is written.
CloseCodeAndSocket(t) ==
    /\ At(t, "close_code")
    /\ close_code' = "local"
    /\ frame' = [frame EXCEPT ![t] = [kind |-> "close", close_after |-> TRUE]]
    /\ Goto(t, "send_frame")
    /\ UNCHANGED <<is_closing, closed, handshake_complete, handlers, out, net,
                   locks, frame_buffer, on_close, env>>

CloseCode(t) ==
    /\ At(t, "close_code")
    /\ close_code' = "local"
    /\ frame' = [frame EXCEPT ![t] = [kind |-> "close", close_after |-> FALSE]]
    /\ Goto(t, "send_frame")
    /\ UNCHANGED <<is_closing, closed, handshake_complete, handlers, out, net,
                   locks, frame_buffer, on_close, env>>

AnswerClose(t) ==
    /\ At(t, "answer_close")
    /\ is_closing' = TRUE
    /\ IF is_closing
       THEN Goto(t, "do_close") /\ UNCHANGED frame
       ELSE /\ frame' = [frame EXCEPT ![t] = [kind |-> "close", close_after |-> TRUE]]
            /\ Goto(t, "send_frame")
    /\ UNCHANGED <<closed, handshake_complete, handlers, close_code, out, net,
                   locks, frame_buffer, on_close, env>>

-----------------------------------------------------------------------------
(* send_frame(): the test of is_closing_, the test of socket_ and the      *)
(* critical section on write_mutex_ are three steps.                       *)

SendFrame(t) ==
    /\ At(t, "send_frame")
    /\ IF is_closing /\ frame[t].kind # "close" THEN Return(t) ELSE Goto(t, "send_socket")
    /\ UNCHANGED <<conn, out, net, locks, frame_buffer, frame, on_close, env>>

SendSocket(t) ==
    /\ At(t, "send_socket")
    /\ \/ sock # "null" /\ Goto(t, "enqueue")
       \/ sock = "null" /\ frame[t].close_after /\ Goto(t, "do_close")
       \/ sock = "null" /\ ~frame[t].close_after /\ Return(t)
    /\ UNCHANGED <<conn, out, net, locks, frame_buffer, frame, on_close, env>>

\* Faulty send_frame(): it starts a write whether or not one is in progress.
EnqueueAndWrite(t) ==
    /\ At(t, "enqueue")
    /\ write_queue' = Append(write_queue, frame[t].kind)
    /\ close_after_write' = (close_after_write \/ frame[t].close_after)
    /\ write_in_progress' = TRUE
    /\ Goto(t, "dequeue")
    /\ UNCHANGED <<conn, net, locks, frame_buffer, frame, on_close, env>>

Enqueue(t) ==
    /\ At(t, "enqueue")
    /\ write_queue' = Append(write_queue, frame[t].kind)
    /\ close_after_write' = (close_after_write \/ frame[t].close_after)
    /\ write_in_progress' = TRUE
    /\ IF write_in_progress THEN Return(t) ELSE Goto(t, "dequeue")
    /\ UNCHANGED <<conn, net, locks, frame_buffer, frame, on_close, env>>

-----------------------------------------------------------------------------
(* do_write(): take a frame under write_mutex_, then start the write under *)
(* socket_op_mutex_.  On a socket that is gone the queue is dropped, and a *)
(* pending close runs do_close() with socket_op_mutex_ still held.         *)

Dequeue(t) ==
    /\ At(t, "dequeue")
    /\ \/ /\ write_queue # <<>>
          /\ frame' = [frame EXCEPT ![t].kind = Head(write_queue)]
          /\ write_queue' = Tail(write_queue)
          /\ Goto(t, "start_write")
          /\ UNCHANGED <<write_in_progress, close_after_write>>
       \/ /\ write_queue = <<>>
          /\ write_in_progress' = FALSE
          /\ close_after_write' = FALSE
          /\ IF close_after_write THEN Goto(t, "schedule_close") ELSE Return(t)
          /\ UNCHANGED <<write_queue, frame>>
    /\ UNCHANGED <<conn, net, locks, frame_buffer, on_close, env>>

StartWrite(t) ==
    /\ At(t, "start_write") /\ Free(socket_op_mutex)
    /\ \/ /\ SocketOpen
          /\ write_op' = Append(write_op, [kind |-> frame[t].kind, status |-> "pending"])
          /\ Return(t)
          /\ UNCHANGED <<out, socket_op_mutex>>
       \/ /\ ~SocketOpen
          /\ write_in_progress' = FALSE
          /\ write_queue' = <<>>
          /\ close_after_write' = FALSE
          /\ IF close_after_write
             THEN socket_op_mutex' = t /\ Goto(t, "do_close")
             ELSE UNCHANGED socket_op_mutex /\ Return(t)
          /\ UNCHANGED write_op
    /\ UNCHANGED <<conn, sock, read_op, rx, tx, close_handler_mutex,
                   frame_buffer, frame, on_close, env>>

\* schedule_close(): shut the send side down, without any lock.
ScheduleClose(t) ==
    /\ At(t, "schedule_close")
    /\ IF sock = "open"
       THEN sock' = "half" /\ tx' = Append(tx, "fin")
       ELSE UNCHANGED <<sock, tx>>
    /\ Goto(t, "do_close")
    /\ UNCHANGED <<conn, out, read_op, write_op, rx, locks, frame_buffer,
                   frame, on_close, env>>

-----------------------------------------------------------------------------
(* do_close(): one caller wins closed_, runs the close handler under       *)
(* close_handler_mutex_ and closes the socket under socket_op_mutex_.      *)

\* Faulty do_close(): closed_ is set, not compared and exchanged.
DoCloseUnchecked(t) ==
    /\ At(t, "do_close")
    /\ closed' = TRUE
    /\ Goto(t, "lock_close_handler")
    /\ UNCHANGED <<is_closing, handshake_complete, handlers, close_code, out, net,
                   locks, frame_buffer, frame, on_close, env>>

DoClose(t) ==
    /\ At(t, "do_close")
    /\ closed' = TRUE
    /\ IF closed
       THEN /\ socket_op_mutex' = IF socket_op_mutex = t THEN NoThread ELSE socket_op_mutex
            /\ Return(t)
       ELSE Goto(t, "lock_close_handler") /\ UNCHANGED socket_op_mutex
    /\ UNCHANGED <<is_closing, handshake_complete, handlers, close_code, out, net,
                   close_handler_mutex, frame_buffer, frame, on_close, env>>

DispatchClose(t) ==
    /\ At(t, "lock_close_handler") /\ Free(close_handler_mutex)
    /\ IF handlers
       THEN /\ on_close' = Append(on_close, close_code)
            /\ close_handler_mutex' = t
            /\ Goto(t, "in_close")
       ELSE UNCHANGED <<on_close, close_handler_mutex>> /\ Goto(t, "close_socket")
    /\ UNCHANGED <<conn, out, net, socket_op_mutex, frame_buffer, frame, env>>

CloseHandlerReturns(t) ==
    /\ At(t, "in_close")
    /\ close_handler_mutex' = NoThread
    /\ Goto(t, "close_socket")
    /\ UNCHANGED <<conn, out, net, socket_op_mutex, frame_buffer, frame, on_close, env>>

\* cancel(), close() and reset() of socket_.  A TCP socket closed while it
\* holds unread data resets the stream: what it still had in flight is lost.
Unread == rx # <<>> /\ Head(rx) # "fin"
HangUp ==
    /\ sock' = "null"
    /\ \/ sock = "open" /\ tx' = Append(tx, "fin")
       \/ SocketOpen /\ Unread /\ tx' = <<"fin">>
       \/ sock # "open" /\ UNCHANGED tx

CloseSocket(t) ==
    /\ At(t, "close_socket") /\ Free(socket_op_mutex)
    /\ HangUp
    /\ Return(t)
    /\ UNCHANGED <<conn, out, read_op, write_op, rx, locks, frame_buffer,
                   frame, on_close, env>>

-----------------------------------------------------------------------------
(* force_close(): what the client's destructor and the server's shutdown   *)
(* call.  Only client-mode connections own the handlers it clears.         *)

ForceClose(t) ==
    /\ At(t, "force_close")
    /\ is_closing' = TRUE
    /\ Goto(t, "fc_handlers")
    /\ UNCHANGED <<closed, handshake_complete, handlers, close_code, out, net,
                   locks, frame_buffer, frame, on_close, env>>

\* Faulty force_close(): the handlers are cleared without the mutex.
ForceCloseHandlersUnlocked(t) ==
    /\ At(t, "fc_handlers")
    /\ handlers' = (handlers /\ ~Client)
    /\ Goto(t, "fc_closed")
    /\ UNCHANGED <<is_closing, closed, handshake_complete, close_code, out, net,
                   locks, frame_buffer, frame, on_close, env>>

ForceCloseHandlers(t) ==
    /\ At(t, "fc_handlers") /\ Free(close_handler_mutex)
    /\ handlers' = (handlers /\ ~Client)
    /\ Goto(t, "fc_closed")
    /\ UNCHANGED <<is_closing, closed, handshake_complete, close_code, out, net,
                   locks, frame_buffer, frame, on_close, env>>

ForceCloseClosed(t) ==
    /\ At(t, "fc_closed")
    /\ closed' = TRUE
    /\ Goto(t, "fc_socket")
    /\ UNCHANGED <<is_closing, handshake_complete, handlers, close_code, out, net,
                   locks, frame_buffer, frame, on_close, env>>

ForceCloseSocket(t) ==
    /\ At(t, "fc_socket") /\ Free(socket_op_mutex)
    /\ HangUp
    /\ Return(t)
    /\ UNCHANGED <<conn, out, read_op, write_op, rx, locks, frame_buffer,
                   frame, on_close, env>>

-----------------------------------------------------------------------------
(* The opening handshake of a server-mode connection.                      *)

HandshakeRejected(t) ==
    /\ At(t, "handshake")
    /\ Goto(t, "do_close")
    /\ UNCHANGED <<conn, out, net, locks, frame_buffer, frame, on_close, env>>

HandshakeAccepted(t) ==
    /\ At(t, "handshake") /\ Free(socket_op_mutex)
    /\ IF SocketOpen
       THEN write_op' = Append(write_op, [kind |-> "101", status |-> "pending"])
       ELSE UNCHANGED write_op
    /\ Return(t)
    /\ UNCHANGED <<conn, out, sock, read_op, rx, tx, locks, frame_buffer,
                   frame, on_close, env>>

WriteCompletes(t, kinds, status) ==
    /\ t \in Io /\ At(t, "idle") /\ write_op # <<>>
    /\ Head(write_op).kind \in kinds /\ Head(write_op).status = status
    /\ write_op' = Tail(write_op)

HandshakeWritten(t) ==
    /\ WriteCompletes(t, {"101"}, "ok")
    /\ handshake_complete' = TRUE
    /\ CallThen(t, "in_open", "start_read")
    /\ UNCHANGED <<is_closing, closed, handlers, close_code, out, sock, read_op,
                   rx, tx, locks, frame_buffer, frame, on_close, env>>

HandshakeFailed(t) ==
    /\ WriteCompletes(t, {"101"}, "failed")
    /\ is_closing' = TRUE
    /\ CallThen(t, "in_error", "do_close")
    /\ UNCHANGED <<closed, handshake_complete, handlers, close_code, out, sock,
                   read_op, rx, tx, locks, frame_buffer, frame, on_close, env>>

-----------------------------------------------------------------------------
(* The completion handler of async_write.                                  *)

OnWrite(t) ==
    /\ WriteCompletes(t, Outbound \ {"101"}, "ok")
    /\ Goto(t, "dequeue")
    /\ UNCHANGED <<conn, out, sock, read_op, rx, tx, locks, frame_buffer,
                   frame, on_close, env>>

OnWriteError(t) ==
    /\ WriteCompletes(t, Outbound \ {"101"}, "failed")
    /\ is_closing' = TRUE
    /\ Goto(t, "write_failed")
    /\ UNCHANGED <<closed, handshake_complete, handlers, close_code, out, sock,
                   read_op, rx, tx, locks, frame_buffer, frame, on_close, env>>

\* Faulty error path: the frames behind the failed one stay in the queue.
WriteFailedKeepsQueue(t) ==
    /\ At(t, "write_failed")
    /\ write_in_progress' = FALSE
    /\ close_after_write' = FALSE
    /\ CallThen(t, "error", "do_close")
    /\ UNCHANGED <<conn, write_queue, net, locks, frame_buffer, frame, on_close, env>>

WriteFailed(t) ==
    /\ At(t, "write_failed")
    /\ write_in_progress' = FALSE
    /\ write_queue' = <<>>
    /\ close_after_write' = FALSE
    /\ CallThen(t, "error", "do_close")
    /\ UNCHANGED <<conn, net, locks, frame_buffer, frame, on_close, env>>

-----------------------------------------------------------------------------
(* The completion handler of async_read_some, and start_read().            *)

\* Faulty on_read(): the next read is started before the frames are processed.
OnReadRearms(t) ==
    /\ t \in Io /\ At(t, "idle") /\ read_op = "ok"
    /\ read_op' = "pending"
    /\ Goto(t, "process_frames")
    /\ UNCHANGED <<conn, out, sock, write_op, rx, tx, locks, frame_buffer,
                   frame, on_close, env>>

OnRead(t) ==
    /\ t \in Io /\ At(t, "idle") /\ read_op = "ok"
    /\ read_op' = "none"
    /\ IF Contains(frame_buffer, "flood")
       THEN Goto(t, "close")
       ELSE Goto(t, "process_frames")
    /\ UNCHANGED <<conn, out, sock, write_op, rx, tx, locks, frame_buffer,
                   frame, on_close, env>>

\* Faulty on_read(): an error is reported but the connection is not closed.
OnReadErrorReports(t) ==
    /\ t \in Io /\ At(t, "idle") /\ read_op = "failed"
    /\ read_op' = "none"
    /\ is_closing' = TRUE
    /\ Goto(t, "error")
    /\ UNCHANGED <<closed, handshake_complete, handlers, close_code, out, sock,
                   write_op, rx, tx, locks, frame_buffer, frame, on_close, env>>

OnReadError(t) ==
    /\ t \in Io /\ At(t, "idle") /\ read_op = "failed"
    /\ read_op' = "none"
    /\ is_closing' = TRUE
    /\ CallThen(t, "error", "do_close")
    /\ UNCHANGED <<closed, handshake_complete, handlers, close_code, out, sock,
                   write_op, rx, tx, locks, frame_buffer, frame, on_close, env>>

\* Faulty start_read(): the initiator of a close no longer reads the answer.
StartReadUntilClosing(t) ==
    /\ At(t, "start_read")
    /\ IF is_closing THEN Return(t) ELSE Goto(t, "lock_read")
    /\ UNCHANGED <<conn, out, net, locks, frame_buffer, frame, on_close, env>>

StartRead(t) ==
    /\ At(t, "start_read")
    /\ IF closed THEN Return(t) ELSE Goto(t, "lock_read")
    /\ UNCHANGED <<conn, out, net, locks, frame_buffer, frame, on_close, env>>

LockRead(t) ==
    /\ At(t, "lock_read") /\ Free(socket_op_mutex)
    /\ read_op' = IF SocketOpen THEN "pending" ELSE read_op
    /\ Return(t)
    /\ UNCHANGED <<conn, out, sock, write_op, rx, tx, locks, frame_buffer,
                   frame, on_close, env>>

-----------------------------------------------------------------------------
(* process_frames() and handle_frame(), one frame at a time.  Once closing,*)
(* the first frame that is not a Close drops everything that was read.     *)

NoMoreFrames(t) ==
    /\ At(t, "process_frames") /\ frame_buffer = <<>>
    /\ Goto(t, "start_read")
    /\ UNCHANGED <<conn, out, net, locks, frame_buffer, frame, on_close, env>>

DiscardFrames(t) ==
    /\ At(t, "process_frames") /\ frame_buffer # <<>>
    /\ is_closing /\ Head(frame_buffer) # "close"
    /\ frame_buffer' = <<>>
    /\ Goto(t, "start_read")
    /\ UNCHANGED <<conn, out, net, locks, frame, on_close, env>>

\* The next frame is of one of these kinds and is to be handled.
NextFrame(t, kinds) ==
    /\ At(t, "process_frames") /\ frame_buffer # <<>>
    /\ Head(frame_buffer) \in kinds
    /\ ~is_closing \/ Head(frame_buffer) = "close"

HandleMessage(t) ==
    /\ NextFrame(t, {"text"})
    /\ frame_buffer' = Tail(frame_buffer)
    /\ CallThen(t, "message", "next_frame")
    /\ UNCHANGED <<conn, out, net, locks, frame, on_close, env>>

HandlePing(t) ==
    /\ NextFrame(t, {"ping"})
    /\ frame_buffer' = Tail(frame_buffer)
    /\ frame' = [frame EXCEPT ![t] = [kind |-> "pong", close_after |-> FALSE]]
    /\ CallThen(t, "send_frame", "next_frame")
    /\ UNCHANGED <<conn, out, net, locks, on_close, env>>

HandlePong(t) ==
    /\ NextFrame(t, {"pong"})
    /\ frame_buffer' = Tail(frame_buffer)
    /\ Goto(t, "next_frame")
    /\ UNCHANGED <<conn, out, net, locks, frame, on_close, env>>

\* Reserved bits, an unknown opcode, a message too big, frames out of sequence.
HandleBad(t) ==
    /\ NextFrame(t, {"bad"})
    /\ frame_buffer' = <<>>
    /\ CallThen(t, "close", "start_read")
    /\ UNCHANGED <<conn, out, net, locks, frame, on_close, env>>

\* Faulty handling of a Close: the peer's code is not stored.
HandleCloseForgetsCode(t) ==
    /\ NextFrame(t, {"close", "invalid"})
    /\ frame_buffer' = <<>>
    /\ CallThen(t, "answer_close", "start_read")
    /\ UNCHANGED <<conn, out, net, locks, frame, on_close, env>>

\* The Close of the peer, or a frame that fails the connection: wrong mask,
\* invalid UTF-8, a control frame that is fragmented or too long.
HandleClose(t) ==
    /\ NextFrame(t, {"close", "invalid"})
    /\ close_code' = IF Head(frame_buffer) = "close" THEN "peer" ELSE "failed"
    /\ frame_buffer' = <<>>
    /\ CallThen(t, "answer_close", "start_read")
    /\ UNCHANGED <<is_closing, closed, handshake_complete, handlers, out, net,
                   locks, frame, on_close, env>>

AfterFrame(t) ==
    /\ At(t, "next_frame")
    /\ frame_buffer' = IF closed THEN <<>> ELSE frame_buffer
    /\ Goto(t, "process_frames")
    /\ UNCHANGED <<conn, out, net, locks, frame, on_close, env>>

\* closed_ is tested first; the handler is tested and called later, under no lock.
CheckClosed(t) ==
    /\ \/ At(t, "message") /\ ~closed /\ Goto(t, "call_message")
       \/ At(t, "error") /\ ~closed /\ Goto(t, "call_error")
       \/ pc[t] \in {"message", "error"} /\ closed /\ Return(t)
    /\ UNCHANGED <<conn, out, net, locks, frame_buffer, frame, on_close, env>>

Dispatch(t) ==
    /\ \/ At(t, "call_message") /\ handlers /\ Goto(t, "in_message")
       \/ At(t, "call_error") /\ handlers /\ Goto(t, "in_error")
       \/ pc[t] \in {"call_message", "call_error"} /\ ~handlers /\ Return(t)
    /\ UNCHANGED <<conn, out, net, locks, frame_buffer, frame, on_close, env>>

-----------------------------------------------------------------------------
(* The operating system and asio, seen through the completions they give.  *)

Transmit ==
    /\ write_op # <<>> /\ Head(write_op).status = "pending"
    /\ \/ /\ sock = "open"
          /\ write_op' = [write_op EXCEPT ![1].status = "ok"]
          /\ tx' = Append(tx, Head(write_op).kind)
       \/ /\ sock # "open" \/ Faults
          /\ write_op' = [write_op EXCEPT ![1].status = "failed"]
          /\ UNCHANGED tx
    /\ UNCHANGED <<conn, out, sock, read_op, rx, locks, frame_buffer, pc, stack,
                   frame, on_close, env>>

\* A read returns what has arrived, or a part of it, up to the end of the stream.
Receive ==
    /\ read_op = "pending"
    /\ \/ /\ SocketOpen
          /\ \E n \in 1..Len(rx) :
                /\ \A i \in 1..n : rx[i] # "fin"
                /\ frame_buffer' = frame_buffer \o SubSeq(rx, 1, n)
                /\ rx' = SubSeq(rx, n + 1, Len(rx))
          /\ read_op' = "ok"
       \/ /\ ~SocketOpen \/ Faults \/ (rx # <<>> /\ Head(rx) = "fin")
          /\ read_op' = "failed"
          /\ UNCHANGED <<frame_buffer, rx>>
    /\ UNCHANGED <<conn, out, sock, write_op, tx, locks, pc, stack, frame,
                   on_close, env>>

\* The user of websocket_client::socket() closes it behind the connection.
SocketClosedExternally ==
    /\ ExternalClose /\ sock = "open" /\ handshake_complete
    /\ sock' = "shut"
    /\ tx' = Append(tx, "fin")
    /\ UNCHANGED <<conn, out, read_op, write_op, rx, locks, frame_buffer, pc,
                   stack, frame, on_close, env>>

(* The peer: it sends frames, answers a Close with a Close, sends nothing  *)
(* after its Close, and may hang up at any time.                           *)

PeerSends ==
    /\ peer = "open" /\ peer_frames > 0 /\ handshake_complete
    /\ \E f \in InFrames :
        /\ rx' = Append(rx, f)
        /\ peer' = IF f = "close" THEN "closing" ELSE peer
    /\ peer_frames' = peer_frames - 1
    /\ UNCHANGED <<conn, out, sock, read_op, write_op, tx, locks, frame_buffer,
                   pc, stack, frame, on_close, calls>>

PeerAnswersClose ==
    /\ peer = "open" /\ Contains(tx, "close")
    /\ rx' = Append(rx, "close")
    /\ peer' = "closing"
    /\ UNCHANGED <<conn, out, sock, read_op, write_op, tx, locks, frame_buffer,
                   pc, stack, frame, on_close, calls, peer_frames>>

PeerHangsUp ==
    /\ peer # "gone"
    /\ rx' = Append(rx, "fin")
    /\ peer' = "gone"
    /\ UNCHANGED <<conn, out, sock, read_op, write_op, tx, locks, frame_buffer,
                   pc, stack, frame, on_close, calls, peer_frames>>

-----------------------------------------------------------------------------
(* A server-mode connection starts by answering the upgrade request.  A    *)
(* client-mode one starts in on_open, with what followed the 101 response  *)
(* in its frame_buffer_ (set_initial_data).                                *)

Init ==
    /\ is_closing = FALSE /\ closed = FALSE
    /\ handshake_complete = Client /\ handlers = TRUE
    /\ sock = "open" /\ rx = <<>> /\ tx = <<>>
    /\ write_queue = <<>> /\ write_in_progress = FALSE /\ close_after_write = FALSE
    /\ socket_op_mutex = NoThread /\ close_handler_mutex = NoThread
    /\ close_code = "normal"
    /\ read_op = "none" /\ write_op = <<>>
    /\ frame = [t \in Thread |-> [kind |-> "text", close_after |-> FALSE]]
    /\ on_close = <<>>
    /\ calls = MaxCalls /\ peer_frames = MaxIn
    /\ \E t \in Io :
        /\ pc = [u \in Thread |->
                    IF u # t THEN "idle" ELSE IF Client THEN "in_open" ELSE "handshake"]
        /\ stack = [u \in Thread |-> IF u = t /\ Client THEN <<"process_frames">> ELSE <<>>]
    /\ frame_buffer \in {<<>>} \cup {<<f>> : f \in IF Client THEN InFrames \ {"flood"} ELSE {}}
    /\ peer = IF Contains(frame_buffer, "close") THEN "closing" ELSE "open"

Writing(t) == SendFrame(t) \/ SendSocket(t) \/ Enqueue(t) \/ Dequeue(t) \/ StartWrite(t)
Closing(t) ==
    \/ Close(t) \/ CloseCode(t) \/ AnswerClose(t) \/ ScheduleClose(t) \/ DoClose(t)
    \/ DispatchClose(t) \/ CloseHandlerReturns(t) \/ CloseSocket(t)
ForceClosing(t) ==
    ForceClose(t) \/ ForceCloseHandlers(t) \/ ForceCloseClosed(t) \/ ForceCloseSocket(t)
Opening(t) ==
    HandshakeRejected(t) \/ HandshakeAccepted(t) \/ HandshakeWritten(t) \/ HandshakeFailed(t)
Completing(t) ==
    OnWrite(t) \/ OnWriteError(t) \/ WriteFailed(t) \/ OnRead(t) \/ OnReadError(t)
Reading(t) ==
    \/ StartRead(t) \/ LockRead(t) \/ NoMoreFrames(t) \/ DiscardFrames(t)
    \/ HandleMessage(t) \/ HandlePing(t) \/ HandlePong(t) \/ HandleBad(t)
    \/ HandleClose(t) \/ AfterFrame(t) \/ CheckClosed(t) \/ Dispatch(t)

\* What a thread does on its own once it runs; whether the user calls is up to him.
Step(t) ==
    \/ Writing(t) \/ Closing(t) \/ ForceClosing(t) \/ Opening(t)
    \/ Completing(t) \/ Reading(t) \/ HandlerReturns(t)
UserStep(t) == AppCall(t) \/ HandlerCall(t)
Asio == Transmit \/ Receive
Peer == PeerSends \/ PeerAnswersClose \/ PeerHangsUp

\* Nothing runs and nothing is outstanding.
Quiescent ==
    /\ \A t \in Thread : At(t, "idle")
    /\ write_op = <<>> /\ read_op = "none" /\ peer = "gone"
    /\ UNCHANGED vars

Next ==
    \/ \E t \in Thread : Step(t) \/ UserStep(t)
    \/ Asio \/ Peer \/ SocketClosedExternally
    \/ Quiescent

Spec == Init /\ [][Next]_vars

\* Threads are scheduled, asio completes what it started, and the peer follows
\* the closing handshake: it answers a Close and then lets go of the stream.
PeerLetsGo == (peer = "closing" \/ Contains(tx, "fin")) /\ PeerHangsUp
FairSpec ==
    /\ Spec
    /\ \A t \in Thread : WF_vars(Step(t))
    /\ WF_vars(Asio)
    /\ WF_vars(PeerAnswersClose) /\ WF_vars(PeerLetsGo)

-----------------------------------------------------------------------------
(* Safety.                                                                 *)

WriteSection == {"dequeue", "start_write", "write_failed"}
Busy(t, l) == At(t, l) \/ Contains(stack[t], l)

\* Outgoing frames are serialized: at most one async_write is outstanding on
\* the socket, and the right to start the next one belongs to one thread or to
\* the outstanding write, never to both (write_in_progress_).
OneWriter ==
    /\ Len(write_op) <= 1
    /\ \A t, u \in Thread : pc[t] \in WriteSection /\ pc[u] \in WriteSection => t = u
    /\ write_op # <<>> => \A t \in Thread : pc[t] \notin WriteSection

\* No frame is left in write_queue_ that nobody will come back for.
QueueIsDrained ==
    write_queue # <<>> =>
        write_in_progress /\ (write_op # <<>> \/ \E t \in Thread : pc[t] \in WriteSection)

\* on_close is reported once, whatever races between the peer's Close, read and
\* write errors, close() and force_close().
OnCloseOnce == Len(on_close) <= 1

\* One Close frame at most leaves the connection, though every path may send one.
CloseOnce(s) == \A i, j \in 1..Len(s) : s[i] = "close" /\ s[j] = "close" => i = j
OneCloseFrame ==
    /\ CloseOnce(write_queue) /\ CloseOnce(tx)
    /\ ~(Contains(write_queue, "close") /\ Contains(tx, "close"))

\* force_close() never clears the close handler under a thread that runs it.
CloseHandlerExcluded == ~handlers => \A t \in Thread : ~Busy(t, "in_close")

\* One completion handler at a time reads from the connection, and none while a
\* read is outstanding: frame_buffer_ needs no lock.
ReadRole == {"process_frames", "next_frame", "start_read", "lock_read"}
IsReading(t) == \E l \in ReadRole : Busy(t, l)
OneReader ==
    /\ \A t, u \in Thread : IsReading(t) /\ IsReading(u) => t = u
    /\ read_op # "none" => \A t \in Thread : ~IsReading(t)

\* No thread waits for a socket_op_mutex_ that it holds itself.
SocketMutexIsReleased ==
    \A t \in Thread : socket_op_mutex = t => pc[t] \notin {"close_socket", "fc_socket", "start_write", "lock_read"}

\* After the Close frame nothing but the end of the stream follows.
NothingAfterClose ==
    \A i, j \in 1..Len(tx) : i < j /\ tx[i] = "close" => tx[j] = "fin"

\* Once force_close() has cleared the handlers, none of them runs.
HandlersAreQuiet == ~handlers => \A t \in Thread : ~Busy(t, "in_message") /\ ~Busy(t, "in_error")

-----------------------------------------------------------------------------
(* Liveness.                                                               *)

\* A peer that hangs up is noticed.
HangUpIsNoticed == (peer = "gone") ~> closed

\* Every close that is begun is reported to on_close.
ClosingIsReported == is_closing ~> (on_close # <<>>)
============================================================================
