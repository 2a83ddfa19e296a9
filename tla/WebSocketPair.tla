--------------------------- MODULE WebSocketPair ---------------------------
(***************************************************************************)
(* A glz server-mode connection and a glz client-mode connection at the    *)
(* two ends of one TCP stream, after the opening handshake: the closing    *)
(* handshake of RFC 6455 as websocket_connection.hpp implements both of    *)
(* its roles.  What one end transmits is what the other receives.          *)
(***************************************************************************)
EXTENDS Naturals, Sequences

CONSTANTS
    ServerApp, ServerIo, ClientApp, ClientIo, NoThread,
    ServerOps, ServerCalls,   \* what the application of the server calls, how often
    ClientOps, ClientCalls    \* the same for the client

ASSUME ThreadsAssumption ==
    /\ NoThread \notin ServerApp \cup ServerIo \cup ClientApp \cup ClientIo
    /\ ServerApp \cap ServerIo = {} /\ ServerIo # {}
    /\ ClientApp \cap ClientIo = {} /\ ClientIo # {}
\* force_close() gives the closing handshake up: it is not for the two to survive.
ASSUME OpsAssumption == ServerOps \cup ClientOps \subseteq {"text", "close"}
ASSUME BoundsAssumption == ServerCalls \in Nat /\ ClientCalls \in Nat

VARIABLES
    to_client, to_server,     \* the two directions of the stream
    (* the server's connection *)
    s_is_closing, s_closed, s_handshake_complete, s_handlers, s_sock,
    s_write_queue, s_write_in_progress, s_close_after_write,
    s_socket_op_mutex, s_close_handler_mutex, s_close_code, s_frame_buffer,
    s_read_op, s_write_op, s_pc, s_stack, s_frame, s_on_close, s_calls,
    (* the client's connection *)
    c_is_closing, c_closed, c_handshake_complete, c_handlers, c_sock,
    c_write_queue, c_write_in_progress, c_close_after_write,
    c_socket_op_mutex, c_close_handler_mutex, c_close_code, c_frame_buffer,
    c_read_op, c_write_op, c_pc, c_stack, c_frame, c_on_close, c_calls

ServerEnd == INSTANCE WebSocketConnection WITH
    App <- ServerApp, Io <- ServerIo, Client <- FALSE, Ops <- ServerOps,
    HandlerOps <- {}, InFrames <- {}, MaxCalls <- ServerCalls, MaxIn <- 0,
    ExternalClose <- FALSE, Faults <- FALSE, rx <- to_server,
    tx <- to_client, peer <- "open", peer_frames <- 0,
    is_closing <- s_is_closing, closed <- s_closed,
    handshake_complete <- s_handshake_complete, handlers <- s_handlers,
    sock <- s_sock, write_queue <- s_write_queue,
    write_in_progress <- s_write_in_progress,
    close_after_write <- s_close_after_write,
    socket_op_mutex <- s_socket_op_mutex,
    close_handler_mutex <- s_close_handler_mutex, close_code <- s_close_code,
    frame_buffer <- s_frame_buffer, read_op <- s_read_op,
    write_op <- s_write_op, pc <- s_pc, stack <- s_stack, frame <- s_frame,
    on_close <- s_on_close, calls <- s_calls

ClientEnd == INSTANCE WebSocketConnection WITH
    App <- ClientApp, Io <- ClientIo, Client <- TRUE, Ops <- ClientOps,
    HandlerOps <- {}, InFrames <- {}, MaxCalls <- ClientCalls, MaxIn <- 0,
    ExternalClose <- FALSE, Faults <- FALSE, rx <- to_client,
    tx <- to_server, peer <- "open", peer_frames <- 0,
    is_closing <- c_is_closing, closed <- c_closed,
    handshake_complete <- c_handshake_complete, handlers <- c_handlers,
    sock <- c_sock, write_queue <- c_write_queue,
    write_in_progress <- c_write_in_progress,
    close_after_write <- c_close_after_write,
    socket_op_mutex <- c_socket_op_mutex,
    close_handler_mutex <- c_close_handler_mutex, close_code <- c_close_code,
    frame_buffer <- c_frame_buffer, read_op <- c_read_op,
    write_op <- c_write_op, pc <- c_pc, stack <- c_stack, frame <- c_frame,
    on_close <- c_on_close, calls <- c_calls

server == <<
    s_is_closing, s_closed, s_handshake_complete, s_handlers, s_sock,
    s_write_queue, s_write_in_progress, s_close_after_write,
    s_socket_op_mutex, s_close_handler_mutex, s_close_code, s_frame_buffer,
    s_read_op, s_write_op, s_pc, s_stack, s_frame, s_on_close, s_calls>>
client == <<
    c_is_closing, c_closed, c_handshake_complete, c_handlers, c_sock,
    c_write_queue, c_write_in_progress, c_close_after_write,
    c_socket_op_mutex, c_close_handler_mutex, c_close_code, c_frame_buffer,
    c_read_op, c_write_op, c_pc, c_stack, c_frame, c_on_close, c_calls>>
vars == <<server, client, to_client, to_server>>

-----------------------------------------------------------------------------
(* Both ends have returned from on_open and wait for a first frame.        *)

ServerOpen ==
    /\ s_is_closing = FALSE /\ s_closed = FALSE
    /\ s_handshake_complete = TRUE /\ s_handlers = TRUE
    /\ s_sock = "open" /\ s_read_op = "pending" /\ s_write_op = <<>>
    /\ s_write_queue = <<>> /\ s_write_in_progress = FALSE /\ s_close_after_write = FALSE
    /\ s_socket_op_mutex = NoThread /\ s_close_handler_mutex = NoThread
    /\ s_close_code = "normal" /\ s_frame_buffer = <<>> /\ s_on_close = <<>>
    /\ s_pc = [t \in ServerEnd!Thread |-> "idle"]
    /\ s_stack = [t \in ServerEnd!Thread |-> <<>>]
    /\ s_frame = [t \in ServerEnd!Thread |-> [kind |-> "text", close_after |-> FALSE]]
    /\ s_calls = ServerCalls

ClientOpen ==
    /\ c_is_closing = FALSE /\ c_closed = FALSE
    /\ c_handshake_complete = TRUE /\ c_handlers = TRUE
    /\ c_sock = "open" /\ c_read_op = "pending" /\ c_write_op = <<>>
    /\ c_write_queue = <<>> /\ c_write_in_progress = FALSE /\ c_close_after_write = FALSE
    /\ c_socket_op_mutex = NoThread /\ c_close_handler_mutex = NoThread
    /\ c_close_code = "normal" /\ c_frame_buffer = <<>> /\ c_on_close = <<>>
    /\ c_pc = [t \in ClientEnd!Thread |-> "idle"]
    /\ c_stack = [t \in ClientEnd!Thread |-> <<>>]
    /\ c_frame = [t \in ClientEnd!Thread |-> [kind |-> "text", close_after |-> FALSE]]
    /\ c_calls = ClientCalls

Init == ServerOpen /\ ClientOpen /\ to_client = <<>> /\ to_server = <<>>

ServerStep(t) == ServerEnd!Step(t) /\ UNCHANGED client
ClientStep(t) == ClientEnd!Step(t) /\ UNCHANGED server
ServerAsio == ServerEnd!Asio /\ UNCHANGED client
ClientAsio == ClientEnd!Asio /\ UNCHANGED server
ServerCall(t) == ServerEnd!UserStep(t) /\ UNCHANGED client
ClientCall(t) == ClientEnd!UserStep(t) /\ UNCHANGED server

\* Neither end has anything left to do: both have closed, or neither has begun to.
Quiescent ==
    /\ \A t \in ServerEnd!Thread : s_pc[t] = "idle"
    /\ \A t \in ClientEnd!Thread : c_pc[t] = "idle"
    /\ s_write_op = <<>> /\ c_write_op = <<>>
    /\ \/ s_sock = "null" /\ c_sock = "null" /\ s_read_op = "none" /\ c_read_op = "none"
       \/ ~s_is_closing /\ ~c_is_closing /\ to_server = <<>> /\ to_client = <<>>
    /\ UNCHANGED vars

Next ==
    \/ \E t \in ServerEnd!Thread : ServerStep(t) \/ ServerCall(t)
    \/ \E t \in ClientEnd!Thread : ClientStep(t) \/ ClientCall(t)
    \/ ServerAsio \/ ClientAsio
    \/ Quiescent

Spec == Init /\ [][Next]_vars

\* Threads are scheduled and asio completes what it started, on both ends.
FairSpec ==
    /\ Spec
    /\ \A t \in ServerEnd!Thread : WF_vars(ServerStep(t))
    /\ \A t \in ClientEnd!Thread : WF_vars(ClientStep(t))
    /\ WF_vars(ServerAsio) /\ WF_vars(ClientAsio)

-----------------------------------------------------------------------------
(* Properties of the closing handshake.                                    *)

\* Whoever begins the closing handshake, both ends close their socket and
\* report on_close: no peer but this one, and no timeout, is needed for it.
BothEndsClose ==
    (s_is_closing \/ c_is_closing) ~> (s_on_close # <<>> /\ c_on_close # <<>>)

\* The two ends never wait for each other: both closing, both with a read
\* outstanding, and nothing on the way to either.
NoStandoff ==
    ~ /\ s_is_closing /\ c_is_closing /\ s_read_op = "pending" /\ c_read_op = "pending"
      /\ to_server = <<>> /\ to_client = <<>>
      /\ s_write_op = <<>> /\ c_write_op = <<>>
      /\ \A t \in ServerEnd!Thread : s_pc[t] = "idle"
      /\ \A t \in ClientEnd!Thread : c_pc[t] = "idle"

\* on_close reports the code of a Close that one of the ends sent, never the
\* default one, and the own code only at an end that called close() itself.
CloseCodeIsReported ==
    /\ s_on_close # <<>> => s_on_close = <<"peer">> \/ ("close" \in ServerOps /\ s_on_close = <<"local">>)
    /\ c_on_close # <<>> => c_on_close = <<"peer">> \/ ("close" \in ClientOps /\ c_on_close = <<"local">>)

\* An end lets go of its socket only when the other one has begun to close too:
\* the initiator's Close is never lost to an early close of its own socket.
InitiatorWaits ==
    /\ c_sock = "null" => s_is_closing
    /\ s_sock = "null" => c_is_closing
============================================================================
