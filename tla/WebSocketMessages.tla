------------------------- MODULE WebSocketMessages -------------------------
(***************************************************************************)
(* What the frames of a peer mean to a WebSocket endpoint, whatever pieces *)
(* they arrive in: the messages and pings that are reported, in order, and *)
(* the frame at which the connection is given up.  Only the limit on what  *)
(* may wait to be taken lets the pieces matter.                            *)
(***************************************************************************)
EXTENDS Naturals, FiniteSets, SequencesExt

CONSTANTS MaxMessageSize, Overhead

VARIABLES
    todo,      \* the frames that have not been taken
    message,   \* the message being put together: none, or its opcode and data
    log,       \* what has been reported
    state      \* "open"; "echo", "error", "overflow" or "local" for why it closes; "closed"

vars == <<todo, message, log, state>>

NoMessage == [op |-> "none", data |-> <<>>]

(* UTF-8 with characters of one and two bytes: "a", and "l" with its "t".  *)
(* A validator is "ok" between characters, "mid" inside one, then "bad".   *)
Advance(v, byte) ==
    CASE v = "ok" /\ byte = "a" -> "ok"
      [] v = "ok" /\ byte = "l" -> "mid"
      [] v = "mid" /\ byte = "t" -> "ok"
      [] OTHER -> "bad"
\* How the validator that was v meets the byte k, if all was well before.
Met(v, bytes, k) == IF k = 1 THEN v ELSE IF bytes[k - 1] = "l" THEN "mid" ELSE "ok"
Utf8(v, bytes) ==
    IF v = "bad" \/ \E k \in DOMAIN bytes : Advance(Met(v, bytes, k), bytes[k]) = "bad" THEN "bad"
    ELSE Met(v, bytes, Len(bytes) + 1)

Control == {"ping", "close", "badclose"}
Data == {"text", "binary"}

\* What frames weigh: a header of two and the data of each.
Weight(frames) == Cardinality(UNION {{i} \X (1..(2 + Len(frames[i].data))) : i \in DOMAIN frames})

\* The message a data frame makes of what came before it.
Joined(f) == IF f.op = "cont" THEN [message EXCEPT !.data = @ \o f.data] ELSE [op |-> f.op, data |-> f.data]

Legal(f) ==
    /\ Len(f.data) <= MaxMessageSize
    /\ f.op \in {"ping", "close"} => f.fin
    /\ f.op \in Data => message = NoMessage
    /\ f.op = "cont" => message # NoMessage
    /\ f.op \in Data \cup {"cont"} =>
          /\ Len(Joined(f).data) <= MaxMessageSize
          /\ Joined(f).op = "text" =>
                LET v == Utf8("ok", Joined(f).data) IN IF f.fin THEN v = "ok" ELSE v # "bad"
    /\ f.op \notin {"badclose", "unknown", "reserved"}

Init == message = NoMessage /\ log = <<>> /\ state = "open"

TakeData(f) ==
    /\ f.op \in Data \cup {"cont"}
    /\ message' = IF f.fin THEN NoMessage ELSE Joined(f)
    /\ log' = IF f.fin THEN Append(log, Joined(f)) ELSE log
    /\ UNCHANGED state

TakePing(f) ==
    /\ f.op = "ping"
    /\ log' = Append(log, [op |-> "ping", data |-> f.data])
    /\ UNCHANGED <<message, state>>

Take ==
    /\ state = "open" /\ todo # <<>> /\ Legal(Head(todo))
    /\ TakeData(Head(todo)) \/ TakePing(Head(todo))
    /\ todo' = Tail(todo)

\* The peer's Close or an illegal frame ends it, or the owner does.
Leave ==
    /\ state = "open" /\ todo # <<>> /\ (Head(todo).op = "close" \/ ~Legal(Head(todo)))
    /\ state' = (IF Legal(Head(todo)) THEN "echo" ELSE "error") /\ todo' = <<>> /\ message' = NoMessage
    /\ UNCHANGED log

\* Where more than the limit waits, it may have been read at once.
Overflow ==
    /\ state = "open" /\ Weight(todo) > MaxMessageSize + Overhead
    /\ state' = "overflow" /\ todo' = <<>> /\ message' = NoMessage
    /\ UNCHANGED log

LocalClose ==
    /\ state = "open" /\ state' = "local" /\ todo' = <<>> /\ message' = NoMessage
    /\ UNCHANGED log

Closed ==
    /\ state \notin {"open", "closed"} /\ state' = "closed"
    /\ UNCHANGED <<todo, message, log>>

Next == Take \/ Leave \/ Overflow \/ LocalClose \/ Closed
Spec == Init /\ [][Next]_vars
=============================================================================
