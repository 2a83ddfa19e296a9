----------------------------- MODULE HttpStream -----------------------------
(***************************************************************************)
(* One streamed response of glz::http_client (net/http_client.hpp): the    *)
(* chain of operations from resolving the host to the end of the body, the *)
(* timer that guards it up to the head, disconnect() from any thread or    *)
(* from a callback, and the server.  The chain and the timer run on two io *)
(* threads; the handlers of the chain never overlap, but everything else   *)
(* may come between a handler's look at should_stop and the operation it   *)
(* starts next.                                                            *)
(***************************************************************************)
EXTENDS Naturals, FiniteSets, SequencesExt

CONSTANTS
    Framings,     \* how the server may frame the body
    Spans,        \* the pieces the body arrives in
    Surplus,      \* may the server send more than it framed?
    Interim       \* may the server send a 1xx head before the real one?

\* "none": a reply to HEAD, a 204 or a 304.
ASSUME FramingsAssumption == Framings \subseteq {"none", "length", "chunked", "eof"}
ASSUME SpansAssumption == Spans \in Nat \ {0} /\ {Surplus, Interim} \subseteq BOOLEAN

VARIABLES
    is_connected, should_stop, response_complete, peer_will_close,
    framing,      \* how the head framed the body, "unknown" before it
    received,     \* bytes_received, in pieces
    timer,        \* where the timer's handler is
    at, op,       \* the operation of the chain, and how far it is
    buffer,       \* read from the socket and not consumed
    socket,       \* "held", "pooled" or "closed"
    log,          \* the callbacks the caller has seen
    answer,       \* what the server is going to send
    asked,        \* the request has reached the server
    left, wire,   \* parts of the answer to be sent, and sent but not read
    peer          \* "up", "fin" or "rst"

state == <<is_connected, should_stop, response_complete, peer_will_close, framing, received, socket, log>>
server == <<answer, asked, left, wire, peer>>
vars == <<state, timer, at, op, buffer, server>>

Early == {"resolve", "connect", "send"}
Reads == {"head", "body", "size", "chunk", "trailers"}
Results == {"ok", "eof", "failed", "aborted"}

\* The parts of a body, and of an answer; a chunk is its size line and its data.
Body(f) ==
    CASE f = "none" -> <<>>
      [] f = "chunked" -> [i \in 1..2 * Spans |-> IF i % 2 = 1 THEN "size" ELSE "data"] \o <<"last", "crlf">>
      [] OTHER -> [i \in 1..Spans |-> "data"]

Script(a) ==
    (IF a.interim THEN <<"interim">> ELSE <<>>) \o <<"head">> \o Body(a.framing)
    \o (IF a.surplus THEN <<"surplus">> ELSE <<>>) \o (IF a.close THEN <<"fin">> ELSE <<>>)

Answers ==
    {a \in [framing : Framings, close : BOOLEAN, status : {"fine", "error"}, surplus : {FALSE, Surplus},
            interim : {FALSE, Interim}] :
        a.framing = "eof" => a.close /\ ~a.surplus}

\* A pooled connection is open and saves the two first operations.
Init ==
    /\ is_connected = FALSE /\ should_stop = "no" /\ response_complete = FALSE /\ peer_will_close = FALSE
    /\ framing = "unknown" /\ received = 0 /\ timer = "armed"
    /\ at \in {"resolve", "send"} /\ op = "start"
    /\ buffer = <<>> /\ socket = "held" /\ log = <<>>
    /\ answer \in Answers /\ asked = FALSE /\ left = Script(answer) /\ wire = <<>> /\ peer = "up"

Logged(e) == e \in ToSet(log)
Stopped == should_stop # "no"
TimerCancelled == IF timer = "armed" THEN "off" ELSE timer

-----------------------------------------------------------------------------
(* disconnect(): one call wins should_stop and goes on to cancel what is   *)
(* pending on the socket, and the timer.  A name being resolved is not     *)
(* cancelled, and a connect may go on to the next address.                 *)
Disconnect ==
    /\ ~Stopped
    /\ should_stop' = "user"
    /\ UNCHANGED <<is_connected, response_complete, peer_will_close, framing, received, socket, log,
                   timer, at, op, buffer, server>>

Abort ==
    \/ op = "pending" /\ socket = "held" /\ at # "resolve" /\ op' = "aborted"
    \/ (op # "pending" \/ socket # "held" \/ at \in {"resolve", "connect"}) /\ UNCHANGED op

Cancel ==
    /\ should_stop \in {"user", "timer"}
    /\ Abort
    /\ should_stop' = "done"
    /\ timer' = IF should_stop = "timer" THEN "report" ELSE TimerCancelled
    /\ UNCHANGED <<is_connected, response_complete, peer_will_close, framing, received, socket, log,
                   at, buffer, server>>

(* internal_on_disconnect, after the callbacks in seen: the socket is      *)
(* settled, then the caller told.                                          *)
Settle(complete, seen) ==
    /\ is_connected' = FALSE
    /\ socket' \in IF socket # "held" THEN {socket} ELSE IF complete THEN {"pooled", "closed"} ELSE {"closed"}
    /\ log' = log \o seen \o <<"disconnect">>

-----------------------------------------------------------------------------
\* The timer: it expires, and its handler looks whether the head has been read.
Expire ==
    /\ timer = "armed" /\ timer' = "queued"
    /\ UNCHANGED <<state, at, op, buffer, server>>

TimerTest ==
    /\ timer = "queued"
    /\ timer' = IF ~is_connected /\ ~Stopped THEN "disconnect" ELSE "off"
    /\ UNCHANGED <<state, at, op, buffer, server>>

TimerDisconnect ==
    /\ timer = "disconnect"
    /\ IF Stopped THEN timer' = "report" /\ UNCHANGED should_stop ELSE should_stop' = "timer" /\ timer' = "cancel"
    /\ UNCHANGED <<is_connected, response_complete, peer_will_close, framing, received, socket, log,
                   at, op, buffer, server>>

TimerReport ==
    /\ timer = "report" /\ timer' = "end"
    /\ log' = Append(log, "timeout")
    /\ UNCHANGED <<is_connected, should_stop, response_complete, peer_will_close, framing, received, socket,
                   at, op, buffer, server>>

\* Closing the socket under a pending operation aborts it.
TimerEnd ==
    /\ timer = "end" /\ timer' = "off"
    /\ Settle(response_complete, <<>>)
    /\ op' = IF op = "pending" /\ at # "resolve" THEN "aborted" ELSE op
    /\ UNCHANGED <<should_stop, response_complete, peer_will_close, framing, received, at, buffer, server>>

Timer == Expire \/ TimerTest \/ TimerDisconnect \/ TimerReport \/ TimerEnd

-----------------------------------------------------------------------------
\* The chain: an operation is started, completes, and its handler runs.  Resolving
\* and connecting do without an open socket.
Start ==
    /\ op = "start"
    /\ op' = IF socket = "held" \/ at \in {"resolve", "connect"} THEN "pending" ELSE "failed"
    /\ UNCHANGED <<state, timer, at, buffer, server>>

\* A read takes at least one of the parts that are there, and may take more.
Take ==
    IF buffer # <<>>
    THEN op' = "ok" /\ UNCHANGED <<buffer, wire>>
    ELSE \/ \E k \in 1..Len(wire) :
              op' = "ok" /\ buffer' = SubSeq(wire, 1, k) /\ wire' = SubSeq(wire, k + 1, Len(wire))
         \/ /\ wire = <<>> /\ peer # "up"
            /\ op' = IF peer = "fin" THEN "eof" ELSE "failed"
            /\ UNCHANGED <<buffer, wire>>

Perform ==
    /\ op = "pending"
    /\ \/ at \in {"resolve", "connect"} /\ op' \in {"ok", "failed"} /\ UNCHANGED <<buffer, asked, wire>>
       \/ /\ at = "send"
          /\ \/ op' = "ok" /\ asked' = (peer = "up")
             \/ op' = "failed" /\ peer # "up" /\ UNCHANGED asked
          /\ UNCHANGED <<buffer, wire>>
       \/ at \in Reads /\ Take /\ UNCHANGED asked
    /\ UNCHANGED <<state, timer, at, answer, left, peer>>

\* The end of the chain.
Finish(complete, seen) == Settle(complete, seen) /\ at' = "gone" /\ op' = "none"

GoOn(place, how) == at' = place /\ op' = how /\ UNCHANGED <<is_connected, socket>>

\* Faulty: the timer is stopped when the request is out, before the head is in.
HandleEarlyDisarms ==
    /\ at \in Early /\ op \in Results
    /\ IF op # "ok" \/ Stopped
       THEN Finish(FALSE, <<"error">>) /\ UNCHANGED timer
       ELSE /\ GoOn(CASE at = "resolve" -> "connect" [] at = "connect" -> "send" [] at = "send" -> "head", "start")
            /\ timer' = TimerCancelled
            /\ UNCHANGED log
    /\ UNCHANGED <<should_stop, response_complete, peer_will_close, framing, received, buffer, server>>

\* Resolving, connecting, the TLS handshake and the request.
HandleEarly ==
    /\ at \in Early /\ op \in Results
    /\ IF op # "ok" \/ Stopped
       THEN Finish(FALSE, <<"error">>)
       ELSE /\ GoOn(CASE at = "resolve" -> "connect" [] at = "connect" -> "send" [] at = "send" -> "head", "start")
            /\ UNCHANGED log
    /\ UNCHANGED <<should_stop, response_complete, peer_will_close, framing, received, timer, buffer, server>>

(* What a callback does: nothing, call disconnect(), or, from on_progress, *)
(* refuse.  No operation is pending for it to cancel.                      *)
Reactions == {"none", "disconnect", "refuse"}
Heed(reaction) ==
    IF reaction # "none" /\ ~Stopped
    THEN should_stop' = "done" /\ timer' = TimerCancelled
    ELSE UNCHANGED <<should_stop, timer>>


(* The head: the timer has done its work.  A head that cannot be parsed,   *)
(* lengths that disagree and an error status end the stream.  A 1xx head   *)
(* is taken for a whole response without a body.                           *)
HandleHead ==
    /\ at = "head" /\ op \in Results
    /\ \/ /\ Finish(FALSE, <<"error">>)
          /\ UNCHANGED <<should_stop, peer_will_close, framing, timer, buffer>>
       \/ /\ op = "ok" /\ ~Stopped
          /\ timer' = TimerCancelled /\ buffer' = Tail(buffer)
          /\ LET last == Head(buffer) = "head" IN
             /\ framing' = IF last THEN answer.framing ELSE "none"
             /\ peer_will_close' = (last /\ answer.close)
             /\ \E reaction \in Reactions :
                   /\ should_stop' = IF reaction = "none" THEN should_stop ELSE "done"
                   /\ \/ /\ last /\ answer.status = "error" /\ reaction # "refuse"
                         /\ Finish(FALSE, <<"connect", "error">>)
                      \/ /\ ~last \/ answer.status = "fine"
                         /\ IF reaction = "refuse"
                            THEN Finish(FALSE, <<"connect">>)
                            ELSE /\ is_connected' = TRUE /\ log' = Append(log, "connect")
                                 /\ at' = IF framing' = "chunked" THEN "size" ELSE "body"
                                 /\ op' = IF framing' = "chunked" THEN "start" ELSE "enter"
                                 /\ UNCHANGED socket
    /\ UNCHANGED <<response_complete, received, server>>

\* Faulty: what the peer sent past the end of the body is not looked at.
ReusableWhenFramed(rest) == ~peer_will_close

\* mark_stream_reusable, with rest still in the buffer.
Reusable(rest) == ~peer_will_close /\ rest = <<>>

\* Faulty: only the end of the connection ends a body.
StreamBodyNeverComplete(n) == framing = "none"

StreamBodyComplete(n) == framing = "none" \/ (framing = "length" /\ n = Spans)

\* Faulty: the end of the connection is never an error.
EofIsNoError == ~Stopped /\ op \notin {"aborted", "eof"}

(* stream_read_failure_is_error: the end of the connection is the end of a *)
(* body that nothing frames, and an error in one that has a length.        *)
ReadFailureIsError ==
    ~Stopped /\ op # "aborted" /\ (op = "eof" => framing = "length" /\ received < Spans)

(* start_stream_reading: what is in the buffer goes out as one span, then  *)
(* it is looked at whether to stop, whether the body is complete, and more *)
(* is read.                                                                *)
Enter ==
    LET span == IF framing = "none" THEN 0 ELSE Cardinality({i \in DOMAIN buffer : buffer[i] = "data"})
        rest == SubSeq(buffer, span + 1, Len(buffer))
        seen == IF span > 0 THEN <<"data">> ELSE <<>> IN
    \E reaction \in IF span > 0 THEN Reactions ELSE {"none"} :
        /\ received' = received + span /\ buffer' = rest /\ Heed(reaction)
        /\ IF should_stop' # "no"
           THEN Finish(FALSE, seen) /\ UNCHANGED response_complete
           ELSE IF StreamBodyComplete(received')
           THEN response_complete' = Reusable(rest) /\ Finish(response_complete', seen)
           ELSE GoOn("body", "start") /\ log' = log \o seen /\ UNCHANGED response_complete

HandleBody ==
    /\ at = "body" /\ op \in Results \cup {"enter"}
    /\ IF op = "enter" \/ (op = "ok" /\ ~Stopped)
       THEN Enter
       ELSE /\ Finish(FALSE, IF ReadFailureIsError THEN <<"error">> ELSE <<>>)
            /\ UNCHANGED <<should_stop, timer, received, buffer, response_complete>>
    /\ UNCHANGED <<peer_will_close, framing, server>>

\* Faulty: the answer of on_progress is not looked at.
DeliverChunkAnyway(rest) ==
    \E reaction \in Reactions :
        /\ received' = received + 1 /\ buffer' = rest /\ Heed(reaction)
        /\ at' = "size" /\ op' = "start"
        /\ IF reaction = "refuse"
           THEN Settle(FALSE, <<"data">>)
           ELSE log' = Append(log, "data") /\ UNCHANGED <<is_connected, socket>>

\* A chunk, then the next size, which is read without a look at should_stop.
DeliverChunk(rest) ==
    \E reaction \in Reactions :
        /\ received' = received + 1 /\ buffer' = rest /\ Heed(reaction)
        /\ IF reaction = "refuse"
           THEN Finish(FALSE, <<"data">>)
           ELSE GoOn("size", "start") /\ log' = Append(log, "data")

\* The end of the connection inside a chunked body is passed over in silence.
EndChunked ==
    /\ Finish(FALSE, IF op = "failed" /\ ~Stopped THEN <<"error">> ELSE <<>>)
    /\ UNCHANGED <<should_stop, timer, received, buffer>>

HandleSize ==
    /\ at = "size" /\ op \in Results
    /\ \/ (op # "ok" \/ Stopped) /\ EndChunked
       \/ /\ op = "ok" /\ ~Stopped
          /\ \/ Len(buffer) > 1 /\ Head(buffer) = "size" /\ DeliverChunk(SubSeq(buffer, 3, Len(buffer)))
             \/ /\ \/ buffer = <<"size">> /\ GoOn("chunk", "start") /\ UNCHANGED log
                   \/ Head(buffer) = "last" /\ GoOn("trailers", "start") /\ UNCHANGED log
                   \/ Finish(FALSE, <<"error">>)
                /\ buffer' = Tail(buffer)
                /\ UNCHANGED <<should_stop, timer, received>>
    /\ UNCHANGED <<response_complete, peer_will_close, framing, server>>

HandleChunk ==
    /\ at = "chunk" /\ op \in Results
    /\ IF op = "ok" /\ ~Stopped THEN DeliverChunk(Tail(buffer)) ELSE EndChunked
    /\ UNCHANGED <<response_complete, peer_will_close, framing, server>>

\* The body is whole by now, so that a failure only costs the socket.
HandleTrailers ==
    /\ at = "trailers" /\ op \in Results
    /\ buffer' = IF op = "ok" /\ ~Stopped THEN Tail(buffer) ELSE buffer
    /\ response_complete' = (op = "ok" /\ ~Stopped /\ Reusable(buffer'))
    /\ Finish(response_complete', <<>>)
    /\ UNCHANGED <<should_stop, timer, received, peer_will_close, framing, server>>

Chain ==
    \/ Start \/ Perform
    \/ HandleEarly \/ HandleHead \/ HandleBody \/ HandleSize \/ HandleChunk \/ HandleTrailers

-----------------------------------------------------------------------------
\* The server answers what it was asked, and may hang up at any time.
Emit ==
    /\ asked /\ peer = "up" /\ left # <<>>
    /\ left' = Tail(left)
    /\ IF Head(left) = "fin"
       THEN peer' = "fin" /\ UNCHANGED wire
       ELSE wire' = Append(wire, Head(left)) /\ UNCHANGED peer
    /\ UNCHANGED <<state, timer, at, op, buffer, answer, asked>>

Drop ==
    /\ peer = "up"
    /\ \E how \in {"fin", "rst"} : peer' = how /\ wire' = IF how = "rst" THEN <<>> ELSE wire
    /\ UNCHANGED <<state, timer, at, op, buffer, answer, asked, left>>

Next == Disconnect \/ Cancel \/ Timer \/ Chain \/ Emit \/ Drop

(* The io_context has threads enough for the chain and the timer, a timer  *)
(* expires, and a call of disconnect() that has begun is carried through.  *)
(* The server is not trusted to go on.                                     *)
Spec == Init /\ [][Next]_vars /\ WF_vars(Chain) /\ WF_vars(Timer) /\ WF_vars(Cancel)

-----------------------------------------------------------------------------
(* The fields keep their types, and the callbacks are no more than the     *)
(* body has pieces and the two ends of a stream can report                 *)
(* (http_stream_connection).                                               *)
TypeOK ==
    /\ should_stop \in {"no", "user", "timer", "done"} /\ socket \in {"held", "pooled", "closed"}
    /\ timer \in {"armed", "queued", "disconnect", "cancel", "report", "end", "off"}
    /\ at \in Early \cup Reads \cup {"gone"} /\ op \in Results \cup {"start", "pending", "enter", "none"}
    /\ received \in 0..Spans
    /\ log \in Seq({"connect", "data", "error", "timeout", "disconnect"})

(* A socket goes back to the pool only when nothing is pending on it and   *)
(* the server has nothing more of this response to send: the next request  *)
(* finds its own status line there (mark_stream_reusable and               *)
(* internal_on_disconnect, whichever of the chain and the timer runs it).  *)
PooledInStep ==
    socket = "pooled" =>
        /\ op = "none" /\ buffer = <<>>
        /\ \A x \in ToSet(wire \o left) : x = "surplus"

(* Until the timer has reported, on_disconnect is the last callback and    *)
(* arrives once, whoever disconnects and wherever the chain is             *)
(* (perform_stream_request to start_stream_reading).                       *)
EndIsLast ==
    ~Logged("timeout") => \A i \in DOMAIN log : log[i] = "disconnect" => i = Len(log)

(* A caller that has not asked to stop and gets less than the declared     *)
(* length has an error before on_disconnect (stream_read_failure_is_error).*)
TruncationIsReported ==
    Logged("disconnect") /\ ~Stopped /\ framing = "length" /\ received < Spans =>
        \E i, j \in DOMAIN log : i < j /\ log[i] = "error" /\ log[j] = "disconnect"

(* However slow the server is, a caller that leaves the stream alone gets  *)
(* its head or the end of the stream: the timer sees to it                 *)
(* (perform_stream_request, disconnect).                                   *)
HeadOrEnd == <>(Logged("connect") \/ Logged("disconnect") \/ should_stop = "user")

(* With a server that sends what it announced, every stream ends, without  *)
(* waiting for the server to hang up if the body is framed                 *)
(* (start_stream_reading, consume_trailers).                               *)
StreamEnds == WF_vars(Emit) => <>Logged("disconnect")

(* on_disconnect arrives exactly once, the timer included                  *)
(* (perform_stream_request).                                               *)
OnDisconnectOnce == Len(SelectSeq(log, LAMBDA e : e = "disconnect")) <= 1
=============================================================================
