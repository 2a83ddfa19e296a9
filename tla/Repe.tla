-------------------------------- MODULE Repe --------------------------------
(***************************************************************************)
(* Remote calls over TCP (ext/glaze_asio.hpp, rpc/registry.hpp): callers   *)
(* in several threads share an asio_client and its socket_pool; a call     *)
(* takes a socket, writes a request, reads the next message as its answer  *)
(* and gives the socket back.  At the other end of each connection         *)
(* run_instance() of asio_server reads a request, has it carried out, and  *)
(* sends what the response buffer holds.  A notification is not answered,  *)
(* and nothing matches an answer with a request but the order on the wire. *)
(***************************************************************************)
EXTENDS Naturals, SequencesExt

CONSTANTS
    Caller,          \* the threads that share the client
    Initial,         \* the size of a new pool: 2 in the code
    MaxSockets,      \* bound on sockets.size()
    MaxCalls,        \* bound on the calls of each thread
    MaxDrops,        \* bound on the connections the server or the network ends
    MaxInits,        \* bound on the calls of init() after the first
    NotifyThrows,    \* may an endpoint throw while it serves a notification?
    CustomCall       \* is asio_server::call set, to a handler that leaves the buffer alone when it is notified?

Index == 1..MaxSockets

ASSUME BoundsAssumption == MaxSockets \in Nat /\ Initial \in Index /\ {MaxCalls, MaxDrops, MaxInits} \subseteq Nat
ASSUME FlagsAssumption == {NotifyThrows, CustomCall} \subseteq BOOLEAN

VARIABLES
    size,            \* sockets.size()
    available,       \* indices of available sockets, the last freed is last
    link,            \* per socket: "none" (null or closed), "up", or "down" (open, and good for nothing)
    is_connected,
    at, held,        \* where each caller is, and the index it holds
    msg,             \* the request of each caller
    answer,          \* what each caller got: the request it answers, or NoReply
    inbox, wire,     \* per connection, requests and responses under way
    reply,           \* per connection, response_buf of run_instance()
    sending,         \* per connection: is that on its way?
    drops, inits

pool == <<size, available>>
remote == <<inbox, wire, reply, sending>>
vars == <<pool, link, is_connected, at, held, msg, answer, remote, drops, inits>>

NoReply == <<>>
NoIndex == 0
Places == {"idle", "get", "send", "receive", "lost", "free"}

\* init(): a new pool, and one socket of it connected, or not.
NewPool ==
    /\ size' = Initial /\ available' = [k \in 1..Initial |-> k]
    /\ \E l \in {"up", "down", "none"} :
          /\ link' = [i \in Index |-> IF i = Initial THEN l ELSE "none"]
          /\ is_connected' = (l = "up")
    /\ inbox' = [i \in Index |-> <<>>] /\ wire' = [i \in Index |-> <<>>]
    /\ reply' = [i \in Index |-> NoReply] /\ sending' = [i \in Index |-> FALSE]

Init ==
    /\ size = Initial /\ available = [k \in 1..Initial |-> k]
    /\ link = [i \in Index |-> IF i = Initial THEN "up" ELSE "none"] /\ is_connected = TRUE
    /\ at = [c \in Caller |-> "idle"] /\ held = [c \in Caller |-> NoIndex]
    /\ msg = [c \in Caller |-> [n |-> 0, notify |-> FALSE]] /\ answer = [c \in Caller |-> NoReply]
    /\ inbox = [i \in Index |-> <<>>] /\ wire = [i \in Index |-> <<>>]
    /\ reply = [i \in Index |-> NoReply] /\ sending = [i \in Index |-> FALSE]
    /\ drops = 0 /\ inits = 0

\* init() again, while nobody is calling: the old pool and its sockets are gone.
Reinit ==
    /\ inits < MaxInits /\ \A c \in Caller : at[c] = "idle"
    /\ inits' = inits + 1
    /\ NewPool
    /\ UNCHANGED <<at, held, msg, answer, drops>>

Goto(c, place) == at' = [at EXCEPT ![c] = place]
Id(c) == <<c, msg[c].n>>

-----------------------------------------------------------------------------
\* call(), set(), get() and inout() of the client.
Call(c) ==
    /\ at[c] = "idle" /\ msg[c].n < MaxCalls
    /\ \E notify \in BOOLEAN : msg' = [msg EXCEPT ![c] = [n |-> @.n + 1, notify |-> notify]]
    /\ answer' = [answer EXCEPT ![c] = NoReply]
    /\ IF is_connected THEN Goto(c, "get") ELSE UNCHANGED at
    /\ UNCHANGED <<pool, link, is_connected, held, remote, drops, inits>>

\* Faulty: the indices of a grown pool begin one too early.
GrownOverlapping == IF available = <<>> THEN [k \in 1..size |-> size + k - 1] ELSE available

\* An empty pool doubles.
Grown == IF available = <<>> THEN [k \in 1..size |-> size + k] ELSE available
NewSize == IF available = <<>> THEN 2 * size ELSE size

(* socket_pool::get(), all of it under mtx: the socket is taken as it is   *)
(* if it is open, whatever has become of its peer.  A connection that      *)
(* cannot be made leaves the socket closed or open, at its index.          *)
Get(c) ==
    /\ at[c] = "get" /\ NewSize <= MaxSockets
    /\ LET i == Last(Grown) IN
       /\ size' = NewSize /\ available' = Front(Grown)
       /\ held' = [held EXCEPT ![c] = i]
       /\ \/ link[i] # "none" /\ Goto(c, "send") /\ UNCHANGED <<link, is_connected>>
          \/ /\ link[i] = "none"
             /\ link' = [link EXCEPT ![i] = "up"] /\ is_connected' = TRUE /\ Goto(c, "send")
          \/ /\ link[i] = "none"
             /\ \E l \in {"none", "up", "down"} : link' = [link EXCEPT ![i] = l]
             /\ Goto(c, "lost") /\ UNCHANGED is_connected
    /\ UNCHANGED <<msg, answer, remote, drops, inits>>

\* send_buffer(): a write to a peer that has gone may succeed.
Send(c) ==
    /\ at[c] = "send"
    /\ LET i == held[c] IN
       \/ /\ Goto(c, IF msg[c].notify THEN "free" ELSE "receive")
          /\ inbox' = IF link[i] = "up" THEN [inbox EXCEPT ![i] = Append(@, [id |-> Id(c), notify |-> msg[c].notify])]
                      ELSE inbox
       \/ link[i] = "down" /\ Goto(c, "lost") /\ UNCHANGED inbox
    /\ UNCHANGED <<pool, link, is_connected, held, msg, answer, wire, reply, sending, drops, inits>>

\* Faulty receive_buffer(): the end of the connection is not an error.
ReceiveOn(c) ==
    /\ at[c] = "receive" /\ wire[held[c]] # <<>>
    /\ answer' = [answer EXCEPT ![c] = Head(wire[held[c]])]
    /\ wire' = [wire EXCEPT ![held[c]] = Tail(@)]
    /\ Goto(c, "free")
    /\ UNCHANGED <<pool, link, is_connected, held, msg, inbox, reply, sending, drops, inits>>

\* receive_buffer(): the next message there is.
Receive(c) ==
    /\ at[c] = "receive"
    /\ LET i == held[c] IN
       \/ /\ wire[i] # <<>>
          /\ answer' = [answer EXCEPT ![c] = Head(wire[i])] /\ wire' = [wire EXCEPT ![i] = Tail(@)]
          /\ Goto(c, "free")
       \/ /\ wire[i] = <<>> /\ link[i] = "down"
          /\ Goto(c, "lost") /\ UNCHANGED <<answer, wire>>
    /\ UNCHANGED <<pool, link, is_connected, held, msg, inbox, reply, sending, drops, inits>>

\* Faulty: the socket of a call that failed is let go, and its index with it.
LostForGood(c) ==
    /\ at[c] = "lost"
    /\ is_connected' = FALSE /\ held' = [held EXCEPT ![c] = NoIndex]
    /\ Goto(c, "idle")
    /\ UNCHANGED <<pool, link, msg, answer, remote, drops, inits>>

\* A failure is made known to the callers to come; the socket stays in the pool.
Lost(c) ==
    /\ at[c] = "lost"
    /\ is_connected' = FALSE
    /\ Goto(c, "free")
    /\ UNCHANGED <<pool, link, held, msg, answer, remote, drops, inits>>

\* ~unique_socket()
Free(c) ==
    /\ at[c] = "free"
    /\ available' = Append(available, held[c])
    /\ held' = [held EXCEPT ![c] = NoIndex]
    /\ Goto(c, "idle")
    /\ UNCHANGED <<size, link, is_connected, msg, answer, remote, drops, inits>>

-----------------------------------------------------------------------------
\* Faulty registry: an error is reported to whoever asked, notified or not.
RegistryAnswersAll(m) == {NoReply, m.id}

(* registry::call() clears the buffer and answers every request, with a    *)
(* result or an error, and no notification unless its endpoint throws.     *)
Registry(m) == IF m.notify THEN {NoReply} \cup (IF NotifyThrows THEN {m.id} ELSE {}) ELSE {m.id}

\* A custom handler finds what the last request left in the buffer.
Dispatch(m, buffer) == IF ~CustomCall THEN Registry(m) ELSE IF m.notify THEN {buffer} ELSE {m.id}

\* run_instance(): what is in the buffer is sent, unless it is empty.
Serve(i) ==
    /\ link[i] = "up" /\ ~sending[i] /\ inbox[i] # <<>>
    /\ \E r \in Dispatch(Head(inbox[i]), reply[i]) :
          reply' = [reply EXCEPT ![i] = r] /\ sending' = [sending EXCEPT ![i] = r # NoReply]
    /\ inbox' = [inbox EXCEPT ![i] = Tail(@)]
    /\ UNCHANGED <<pool, link, is_connected, at, held, msg, answer, wire, drops, inits>>

Answer(i) ==
    /\ link[i] = "up" /\ sending[i]
    /\ wire' = [wire EXCEPT ![i] = Append(@, reply[i])]
    /\ sending' = [sending EXCEPT ![i] = FALSE]
    /\ UNCHANGED <<pool, link, is_connected, at, held, msg, answer, inbox, reply, drops, inits>>

\* The server stops or the network fails: what had arrived may be lost with the connection.
Drop(i) ==
    /\ link[i] = "up" /\ drops < MaxDrops
    /\ drops' = drops + 1
    /\ link' = [link EXCEPT ![i] = "down"]
    /\ inbox' = [inbox EXCEPT ![i] = <<>>] /\ sending' = [sending EXCEPT ![i] = FALSE]
    /\ reply' = [reply EXCEPT ![i] = NoReply]
    /\ wire' \in {wire, [wire EXCEPT ![i] = <<>>]}
    /\ UNCHANGED <<pool, is_connected, at, held, msg, answer, inits>>

Step(c) == Get(c) \/ Send(c) \/ Receive(c) \/ Lost(c) \/ Free(c)
Run(i) == Serve(i) \/ Answer(i)

Next ==
    \/ \E c \in Caller : Call(c) \/ Step(c)
    \/ \E i \in Index : Run(i) \/ Drop(i)
    \/ Reinit

\* A call that has begun goes on, and the io threads of the server serve every connection.
Spec ==
    /\ Init /\ [][Next]_vars
    /\ \A c \in Caller : WF_vars(Step(c))
    /\ \A i \in Index : WF_vars(Run(i))

-----------------------------------------------------------------------------
\* The variables keep their types (socket_pool, asio_client, run_instance).
TypeOK ==
    /\ size \in Nat \ {0} /\ available \in Seq(Index)
    /\ link \in [Index -> {"none", "up", "down"}] /\ is_connected \in BOOLEAN
    /\ at \in [Caller -> Places] /\ held \in [Caller -> Index \cup {NoIndex}]

(* A socket is in the hands of one call or in the pool, once, through      *)
(* growth, failures and init() (socket_pool::get, free, unique_socket).    *)
OneUser ==
    /\ \A c, d \in Caller : c # d /\ held[c] # NoIndex => held[c] # held[d]
    /\ \A i, j \in DOMAIN available : available[i] = available[j] => i = j
    /\ \A c \in Caller, i \in DOMAIN available : held[c] # available[i]

(* And every socket of the pool is in one of those places: a call that     *)
(* fails half-way gives its socket back (socket_pool, unique_socket).      *)
NoneIsMissing ==
    \A i \in 1..size :
        (\E k \in DOMAIN available : available[k] = i) \/ (\E c \in Caller : held[c] = i)

(* The answer a call returns is the answer to its own request, though      *)
(* nothing but the order on the wire says so and notifications of others   *)
(* went before it on the same socket (receive_buffer, registry::call).     *)
ResponseIsOwn == \A c \in Caller : answer[c] \in {NoReply, Id(c)}

\* Every call comes back, whatever the network does (call, receive_buffer).
CallsReturn == \A c \in Caller : at[c] # "idle" ~> at[c] = "idle"
=============================================================================
