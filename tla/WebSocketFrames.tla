-------------------------- MODULE WebSocketFrames --------------------------
(***************************************************************************)
(* How a websocket_connection cuts frames out of what it reads and puts    *)
(* messages together (on_read, process_frames and handle_frame of          *)
(* net/websocket_connection.hpp): reads that end anywhere, fragments with  *)
(* control frames between them, text that is validated as it arrives, a    *)
(* buffer with a limit, and a close() of another thread between any two    *)
(* frames.                                                                 *)
(*                                                                         *)
(* Abstracted: a header is two units, one that tells its opcode and one    *)
(* with the rest of the length and the mask; a payload byte is one unit.   *)
(***************************************************************************)
EXTENDS Naturals, FiniteSets, SequencesExt

CONSTANTS
    Frames,           \* the frames the peer may send: [op, fin, data]
    MaxFrames,        \* bound on their number
    MaxMessageSize,   \* max_message_size_
    Overhead          \* by how much frame_buffer_ may exceed it, 1024 in the code

Opcodes == {"cont", "text", "binary", "ping", "close", "badclose", "unknown", "reserved"}

ASSUME SizeAssumption == {MaxFrames, MaxMessageSize, Overhead} \subseteq Nat
ASSUME FramesAssumption == Frames \subseteq [op : Opcodes, fin : BOOLEAN, data : Seq({"a", "l", "t"})]

VARIABLES
    stream,           \* the frames the peer sends
    got,              \* units read so far
    start,            \* units erased from frame_buffer_
    offset,           \* of process_frames(), in units of the stream
    parsing,          \* inside process_frames()
    answer,           \* what its Close is about: "local", "error", "overflow", "echo" of the peer's, "none" yet
    closed,           \* closed_
    is_reading_frame, current_opcode, message_buffer,
    utf8,             \* utf8_validator_
    incomplete,       \* incomplete_text_frame_
    log               \* messages delivered and pings answered

conn == <<answer, closed>>
assembly == <<is_reading_frame, current_opcode, message_buffer>>
text == <<utf8, incomplete>>
vars == <<stream, got, start, offset, parsing, conn, assembly, text, log>>

is_closing == answer # "none"

Header == 2
Size(f) == Header + Len(f.data)
Units(j) == UNION {{i} \X (1..Size(stream[i])) : i \in 1..(j - 1)}
Before(j) == Cardinality(Units(j))
Total == Before(Len(stream) + 1)

NothingIncomplete == [active |-> FALSE, consumed |-> 0]

Init ==
    /\ stream \in UNION {[1..n -> Frames] : n \in 1..MaxFrames}
    /\ got = 0 /\ start = 0 /\ offset = 0 /\ parsing = FALSE
    /\ answer = "none" /\ closed = FALSE
    /\ is_reading_frame = FALSE /\ current_opcode = "cont" /\ message_buffer = <<>>
    /\ utf8 = "ok" /\ incomplete = NothingIncomplete /\ log = <<>>

\* The frames that are taken, and the connection as WebSocketMessages has it.
Taken == Cardinality({j \in DOMAIN stream : Before(j + 1) <= IF parsing THEN offset ELSE start})
Messages == INSTANCE WebSocketMessages WITH
    todo <- IF is_closing THEN <<>> ELSE SubSeq(stream, Taken + 1, Len(stream)),
    message <- IF is_reading_frame /\ ~is_closing THEN [op |-> current_opcode, data |-> message_buffer]
               ELSE [op |-> "none", data |-> <<>>],
    state <- IF closed THEN "closed" ELSE IF is_closing THEN answer ELSE "open"

Utf8(v, bytes) == Messages!Utf8(v, bytes)

\* What process_frames() looks at: the frame at the offset, and how much of it is there.
InStep == \E j \in DOMAIN stream : Before(j) = offset
Frame == stream[CHOOSE j \in DOMAIN stream : Before(j) = offset]
Available == got - offset
Payload == SubSeq(Frame.data, 1, IF Available < Header THEN 0 ELSE Min({Available - Header, Len(Frame.data)}))

\* Faulty: a frame that ends with the read is taken for incomplete.
CompleteLate == Available > Size(Frame)

Complete == Available >= Size(Frame)

\* Once the connection closes, only a Close is.
Heeded == is_closing => Frame.op \in {"close", "badclose"}

\* Control frames, and opcodes and bits there are none of, apart.
Control == {"ping", "close", "badclose"}

-----------------------------------------------------------------------------
\* More is in frame_buffer_ than it may hold; on_read() has closed and reads no more.
Overfull == got - start > MaxMessageSize + Overhead

\* on_read(): whatever has arrived is appended, and parsed unless it is too much.
Read ==
    /\ ~parsing /\ ~closed /\ ~Overfull
    /\ got' \in got + 1..Total
    /\ IF got' - start > MaxMessageSize + Overhead
       THEN answer' = (IF is_closing THEN answer ELSE "overflow") /\ UNCHANGED <<parsing, offset>>
       ELSE parsing' = TRUE /\ offset' = start /\ UNCHANGED answer
    /\ UNCHANGED <<stream, start, closed, assembly, text, log>>

\* The loop ends: what is behind the offset is erased, an incomplete frame stays.
Rest == parsing' = FALSE /\ start' = offset /\ UNCHANGED <<stream, got, offset>>

\* "Consume all"
Discard == parsing' = FALSE /\ start' = got /\ UNCHANGED <<stream, got, offset>>

GoOn == offset' = offset + Size(Frame) /\ UNCHANGED <<stream, got, start, parsing>>

\* close() with an error code, or fail_connection(), which closes at once when closing already.
Fail ==
    /\ Discard /\ answer' = IF is_closing THEN answer ELSE "error"
    /\ closed' = (closed \/ is_closing)
    /\ UNCHANGED <<assembly, text, log>>

\* Nothing follows, or not the whole of a header.
Starve ==
    /\ Available = 0 \/ (Available < Header /\ (InStep => Heeded /\ Frame.op # "reserved"))
    /\ Rest /\ UNCHANGED <<conn, assembly, text, log>>

(* After a Close of ours only the peer's is of interest, and the rest of   *)
(* the buffer goes with the first other frame: also the part of a frame    *)
(* whose rest is still to come, so that the next read is out of step and   *)
(* its first bytes pass for a header, of a Close even.                     *)
Drop ==
    /\ Available > 0 /\ is_closing
    /\ InStep => ~Heeded
    /\ Discard /\ UNCHANGED <<answer, assembly, text, log>>
    /\ IF InStep THEN UNCHANGED closed ELSE closed' \in {closed, TRUE}

RefuseHeader ==
    /\ Available > 0 /\ InStep /\ ~is_closing
    /\ \/ Frame.op = "reserved"
       \/ Available >= Header /\ Len(Frame.data) > MaxMessageSize
    /\ Fail

\* Here the frame in front is one that may be taken.
Admitted ==
    /\ Available >= Header /\ InStep
    /\ Heeded /\ Frame.op # "reserved" /\ Len(Frame.data) <= MaxMessageSize

\* has_text_message_payload
HasText ==
    \/ Frame.op = "text" /\ ~is_reading_frame
    \/ Frame.op = "cont" /\ is_reading_frame /\ current_opcode = "text"

\* Faulty: the validator is started afresh by a continuation as well.
StreamedAfresh ==
    LET before == IF incomplete.active THEN utf8 ELSE "ok" IN
    Utf8(before, SubSeq(Payload, incomplete.consumed + 1, Len(Payload)))

(* consume_incomplete_text_payload: the bytes that are new, after those    *)
(* the validator has seen; a text frame starts it afresh.                  *)
Streamed ==
    LET before == IF incomplete.active \/ Frame.op # "text" THEN utf8 ELSE "ok" IN
    Utf8(before, SubSeq(Payload, incomplete.consumed + 1, Len(Payload)))

\* Faulty: an incomplete text frame is not looked at.
ValidateIncompleteLate ==
    /\ Admitted /\ ~Complete
    /\ UNCHANGED text /\ Rest /\ UNCHANGED <<conn, assembly, log>>

\* A part of a frame: the text in it is looked at, and the frame stays in the buffer.
ValidateIncomplete ==
    /\ Admitted /\ ~Complete
    /\ IF HasText /\ Streamed = "bad"
       THEN Fail
       ELSE /\ IF HasText
               THEN utf8' = Streamed /\ incomplete' = [active |-> TRUE, consumed |-> Len(Payload)]
               ELSE UNCHANGED text
            /\ Rest /\ UNCHANGED <<conn, assembly, log>>

-----------------------------------------------------------------------------
(* handle_frame() for a whole frame.  Text of which a part was validated   *)
(* before is validated to its end (text_payload_consumed), other text in   *)
(* one go; v is the validator after the frame.                             *)
Whole == Admitted /\ Complete
Consumed == HasText /\ incomplete.active
After == IF Consumed THEN Streamed ELSE Utf8(IF Frame.op = "text" THEN "ok" ELSE utf8, Frame.data)

Deliver(op, data) == log' = Append(log, [op |-> op, data |-> data])

\* A fragment of text that ends inside a character is well so far.
BadText == HasText /\ (After = "bad" \/ (Frame.fin /\ After # "ok"))

Illegal ==
    \/ Frame.op \in Control /\ ~Frame.fin
    \/ Frame.op \in {"badclose", "unknown"}
    \/ Frame.op \in {"text", "binary"} /\ is_reading_frame
    \/ Frame.op = "cont" /\ (~is_reading_frame \/ Len(message_buffer) + Len(Frame.data) > MaxMessageSize)
    \/ BadText

RefuseFrame == Whole /\ Illegal /\ Fail

HandleMessage ==
    /\ Whole /\ ~Illegal /\ Frame.op \in {"text", "binary"} /\ Frame.fin
    /\ Deliver(Frame.op, Frame.data)
    /\ utf8' = IF Consumed THEN "ok" ELSE utf8
    /\ incomplete' = NothingIncomplete
    /\ GoOn /\ UNCHANGED <<conn, assembly>>

HandleFirstFragment ==
    /\ Whole /\ ~Illegal /\ Frame.op \in {"text", "binary"} /\ ~Frame.fin
    /\ current_opcode' = Frame.op /\ message_buffer' = Frame.data /\ is_reading_frame' = TRUE
    /\ utf8' = IF Frame.op = "text" THEN After ELSE utf8
    /\ incomplete' = NothingIncomplete
    /\ GoOn /\ UNCHANGED <<conn, log>>

HandleContinuation ==
    /\ Whole /\ ~Illegal /\ Frame.op = "cont"
    /\ IF Frame.fin
       THEN /\ Deliver(current_opcode, message_buffer \o Frame.data)
            /\ is_reading_frame' = FALSE /\ current_opcode' = "cont" /\ message_buffer' = <<>> /\ utf8' = "ok"
       ELSE /\ message_buffer' = message_buffer \o Frame.data
            /\ utf8' = IF HasText THEN After ELSE utf8
            /\ UNCHANGED <<log, is_reading_frame, current_opcode>>
    /\ incomplete' = NothingIncomplete
    /\ GoOn /\ UNCHANGED conn

HandlePing ==
    /\ Whole /\ ~Illegal /\ Frame.op = "ping"
    /\ Deliver("ping", Frame.data)
    /\ GoOn /\ UNCHANGED <<conn, assembly, text>>

\* The peer's Close is answered, or is the answer to ours.
HandleClose ==
    /\ Whole /\ ~Illegal /\ Frame.op = "close"
    /\ IF is_closing THEN closed' = TRUE /\ UNCHANGED answer ELSE answer' = "echo" /\ UNCHANGED closed
    /\ Discard /\ UNCHANGED <<assembly, text, log>>

Iterate ==
    /\ parsing
    /\ \/ Starve \/ Drop \/ RefuseHeader \/ ValidateIncomplete \/ RefuseFrame
       \/ HandleMessage \/ HandleFirstFragment \/ HandleContinuation \/ HandlePing \/ HandleClose

-----------------------------------------------------------------------------
\* close() by the application, from any thread and from the callbacks.
LocalClose ==
    /\ ~is_closing /\ answer' = "local"
    /\ UNCHANGED <<stream, got, start, offset, parsing, closed, assembly, text, log>>

\* do_close() after the last write, or because the peer has hung up.
DoClose ==
    /\ is_closing /\ ~closed /\ closed' = TRUE
    /\ UNCHANGED <<stream, got, start, offset, parsing, answer, assembly, text, log>>

Next == Read \/ Iterate \/ LocalClose \/ DoClose

Spec == Init /\ [][Next]_vars

-----------------------------------------------------------------------------
(* However the frames are split over reads, the messages and pings that    *)
(* are reported are those of whole frames taken one after the other, with  *)
(* their text valid, and the connection is given up at the same frame,     *)
(* unless more waits to be taken than frame_buffer_ may hold: then it may  *)
(* be given up before, for having been read faster (on_read,               *)
(* process_frames, handle_frame, consume_incomplete_text_payload).         *)
ImplementsMessages == Messages!Spec

(* While an open connection waits for a read, no whole frame is left in    *)
(* frame_buffer_: nothing that has arrived waits for what comes next       *)
(* (process_frames).                                                       *)
NothingWithheld ==
    ~parsing /\ ~is_closing =>
        \A j \in DOMAIN stream : Before(j + 1) <= got => Before(j + 1) <= start

(* Text that cannot become valid any more ends the connection with the     *)
(* read that brings it, however long the frame is: while an open           *)
(* connection waits, the text of the message so far, the incomplete frame  *)
(* included, is valid up to its last character                             *)
(* (consume_incomplete_text_payload).                                      *)
FailsFast ==
    ~parsing /\ ~is_closing /\ start < got =>
        LET j == CHOOSE k \in DOMAIN stream : Before(k) = start
            here == SubSeq(stream[j].data, 1, IF got - start < Header THEN 0 ELSE got - start - Header) IN
        /\ stream[j].op = "text" /\ ~is_reading_frame => Utf8("ok", here) # "bad"
        /\ stream[j].op = "cont" /\ is_reading_frame /\ current_opcode = "text"
              => Utf8("ok", message_buffer \o here) # "bad"
=============================================================================
