# Verification of glaze

TLA+ models of the stateful parts of [glaze](../src/README.md), the TLC runs that
check them on small instances, and TLAPS proofs of the results that hold for every
instance. Most of glaze is compile-time code that turns C++ types into parsers and
writers; what keeps state at run time, and what threads, callbacks and peers can
interleave, is the networking layer, the RPC clients and the thread pool. The project
is about those, and about two pure algorithms whose mistakes hide in combinations:
the route tables and JSON Patch.

Paths below are relative to `src/include/glaze/` unless they start with `src/`.

## 1. Inventory

| Component | State | Operations | Interacts with |
|---|---|---|---|
| WebSocket connection, `net/websocket_connection.hpp` | `is_closing_`, `closed_`, `write_queue_`, `write_in_progress_`, `close_after_write_`, `close_code_`, `frame_buffer_`, `socket_`, four handlers; `write_mutex_`, `socket_op_mutex_`, `close_handler_mutex_` | `start`, `send_*`, `close`, `force_close`, handlers of read and write completions | user callbacks (which may call back into it), asio, the peer |
| WebSocket server, same file | `connections_` | `start_connection`, `close_all_connections` | its connections, the HTTP server's upgrade |
| WebSocket client, `net/websocket_client.hpp` | one connection, resolver, `connection_mutex` | `connect`, `send`, `close`, destructor, `socket()` | connection, io_context |
| Thread pool, `thread/threadpool.hpp` | `queue`, `working`, `closed`, two condition variables, threads | `emplace_back`, `wait`, `n_threads`, destructor | jobs (which may submit jobs) |
| HTTP client, `net/http_client.hpp` | idle sockets per host, limits, requests under way | `get/post/...`, `request`, `clear` of the pool | servers, timers |
| HTTP streams, same file | socket, timer, parser state, `is_connected`, `should_stop` | start, read, `disconnect` | user callbacks, connection pool |
| HTTP server, `net/http_server.hpp` | acceptor, connections, streaming handlers | `listen`, `start`, `stop`, keep-alive loop | router, WebSocket server |
| HTTP router, `net/http_router.hpp` | map of routes, static table, tree of segments | `add`, `match` | HTTP server |
| REPE over asio, `ext/glaze_asio.hpp` | `socket_pool` (sockets and a list of the free ones), `is_connected` | `call`, `connect`, server coroutine per connection | registry |
| JSON-RPC, `ext/jsonrpc.hpp` | pending requests per method | `request`, `call` | user callbacks |
| Buffer pool, `util/buffer_pool.hpp` | free buffers, two limits | `borrow`, return | HTTP and REPE |
| Async containers, `thread/async_*.hpp` | one value and a `shared_mutex` | every container operation, proxies | - |
| JSON Patch, `json/patch.hpp` | a document, while it is patched | `patch`, `diff`, `merge_patch`, `merge_diff` | generic JSON values, JSON pointers |
| Containers, streaming buffers | sequential data | - | readers and writers |
| Formats, reflection, TLS, CORS, URL, OpenAPI | none at run time, or a library's | - | - |

What is hard in it, component by component, and what makes each one correct:

* **WebSocket connection.** Any application thread may send and close while io threads
  read, write and report, and callbacks call back into the connection. Three mutexes and
  a handful of atomics protect parts of it; several decisions are made under one lock
  and acted on under another. Correct means: one `async_write` at a time and no frame
  forgotten in the queue; `on_close` once, and always if a close was begun; at most one
  Close frame, nothing behind it; the responder lets go of the socket only after its
  Close; handlers are not cleared while they run; no thread waits for itself.
* **The closing handshake** is a protocol of two such machines. Correct means that
  both ends report the close whoever begins it, also when both do at once, and that
  neither tears the stream down under the other's Close.
* **Thread pool.** `working` is decremented outside the mutex that `wait()` tests it
  under; jobs submit jobs; threads are replaced while jobs are queued. Correct means: no
  job lost or run twice, no lost wake-up, `wait()` complete and sure to return, a
  destroyed pool empty.
* **WebSocket frames.** Fragments, control frames between them, text cut inside a
  character and reads that end anywhere must give the messages the frames mean, and
  a connection is given up at the same frame however it arrives, unless more waits in
  `frame_buffer_` than it may hold.
* **HTTP client.** A pooled socket may be stale or hold the rest of the previous response,
  a retry must not repeat what may not be repeated, redirects must not carry
  credentials elsewhere or bring back what was dropped, and a request must not wait for
  bytes nobody is going to send.
* **HTTP streams.** A timer races resolve, connect and read, and `disconnect()` comes from any
  thread and callback: nothing may follow the end, a short body is an error, a stream
  gets a head or an end, and only a socket in step goes back to the pool.
* **REPE client, pool and server.** Nothing but the order on the wire matches an answer with its
  request: a call that fails half-way, a notification that is answered or a socket with two
  users would give a caller somebody else's answer.
* **Router.** Backtracking must forget what it has captured, and a route that is rejected
  half-way must not change what the table answers.
* **JSON Patch.** Each operation is applied to a document the earlier ones have changed.
* **JSON-RPC client.** A callback may add requests to the table it is called from.

`PROJECT.json` lists every component with its status, and every hazard at the line
where it bites.

## 2. Modules and plan

| Module | Models |
|---|---|
| `WebSocketConnection` | the connection, all threads, one peer; a frame is its kind |
| `WebSocketConnectionProofs` | theorems about `WebSocketConnection` |
| `WebSocketPair` | a server-mode and a client-mode connection on one stream (two `INSTANCE`s of the former) |
| `WebSocketPairProofs` | theorems about `WebSocketPair`, from two instances of `WebSocketConnectionProofs` |
| `WebSocketMessages` | abstract specification: what a peer's frames mean |
| `WebSocketFrames` | the parser of the connection over reads of any length, refines `WebSocketMessages` |
| `WebSocketFramesProofs` | theorems about `WebSocketFrames`, the refinement among them |
| `HttpClient` | requests that are not streamed, the connection pool, retry, redirects, and servers |
| `HttpClientProofs` | theorems about `HttpClient` |
| `HttpStream` | one streamed response, its timer and `disconnect()`, and a server |
| `HttpStreamProofs` | theorems about `HttpStream` |
| `Repe` | `asio_client`, `socket_pool`, `run_instance()` of the server and what the registry answers |
| `RepeProofs` | theorems about `Repe` |
| `TaskPool` | abstract specification of a pool of jobs |
| `ThreadPool` | `glz::pool`, refines `TaskPool` |
| `ThreadPoolProofs` | theorems about `ThreadPool` |
| `HttpRouter` | `route_table`, and what a list of routes with priorities should answer |
| `HttpRouterProofs` | theorems about `HttpRouter` |
| `JsonPatch` | patches, diffs, merge patches and merge diffs of generic values |
| `MC...` | the model values, inputs and symmetry of the runs |

Left, in this order:

1. `WebSocketClient`: `connection_mutex`, `cancel_all`, the handshake and the owner of
   the connection; composes `WebSocketConnection`.
2. The HTTP server: keep-alive, streaming handlers, `stop()`.
3. `BufferPool` and the JSON-RPC client.

## 3. How the models correspond to the code

### WebSocketConnection

A thread (`App` calls the interface, `Io` runs completion handlers) has a `pc`, a
`stack` of return points and the arguments of `send_frame` in `frame`. A step is one
atomic operation or one critical section, so every interleaving the locks allow is
there. `pc` names the next thing the thread does; `stack` is needed because a callback
may call `send_text()` or `close()` from inside the read loop or the close path.

| Code | Actions |
|---|---|
| `send_text`, `send_frame` | `SendFrame` (test of `is_closing_`), `SendSocket` (a copy of `socket_`, made without the mutex), `Enqueue` (under `write_mutex_`) |
| `do_write` | `Dequeue` (under `write_mutex_`), `StartWrite` (under `socket_op_mutex_`) and its handler `OnWrite`, `OnWriteError`, `WriteFailed` |
| `close` | `Close` (exchange of `is_closing_`), `CloseCode`, then `send_frame` |
| `schedule_close` | `ScheduleClose` (a copy of `socket_`, made without the mutex) |
| `do_close` | `DoClose` (exchange of `closed_`), `DispatchClose` (takes `close_handler_mutex_`), `CloseHandlerReturns`, `CloseSocket` |
| `force_close` | `ForceClose`, `ForceCloseHandlers`, `ForceCloseClosed`, `ForceCloseSocket` |
| `perform_handshake` | `HandshakeRejected`, `HandshakeAccepted`, `HandshakeWritten`, `HandshakeFailed` |
| `on_read` | `OnRead`, `OnReadError`, `StartRead`, `LockRead` |
| `process_frames`, `handle_frame`, `fail_connection` | `NoMoreFrames`, `DiscardFrames`, `HandleMessage`, `HandlePing`, `HandlePong`, `HandleBad`, `HandleClose`, `AnswerClose`, `AfterFrame` |
| the test of `closed_` and the call of a callback | `CheckClosed`, `Dispatch`, `HandlerCall`, `HandlerReturns` |
| asio, the peer, `websocket_client::socket()` | `Transmit`, `Receive`; `PeerSends`, `PeerAnswersClose`, `PeerHangsUp`; `SocketClosedExternally` |

A frame is its kind. "bad" stands for what the parser answers with `close()`, "invalid"
for what it answers with `fail_connection()`, "flood" for a read that leaves more than
`max_message_size_ + 1024` bytes unparsed. `Transmit` and `Receive` complete an operation
with success or, where the run sets `Faults`, an error at any time. `tx` and `rx` are the
stream: everything sent or not yet read, and "fin" for its end. Closing a socket with
unread data on it, which resets the stream, replaces `tx` by the end of the stream.

In the code the calls of a client's user also hold `websocket_client`'s
`connection_mutex`; the model leaves it out and so admits more interleavings of them than
the code has. Timers do not occur in this class: nothing bounds the closing handshake.

### WebSocketPair

Two instances with `rx` and `tx` crossed, each with its own threads, started where both
ends have returned from `on_open`. No peer and no fault is modelled beside them: the
only thing that can go wrong is the two ends themselves. `OpsAssumption` says that neither
application calls `force_close()`, which gives the handshake up.

### WebSocketFrames and WebSocketMessages

The stream is a sequence of frames; `got`, `start` and `offset` count units of it: what has
been read, what was erased from `frame_buffer_`, and where `process_frames()` stands. A header
is two units, the one that tells the opcode and the rest, so that reads end before, inside
and behind it; a byte of payload is a unit. `Read` is a read of any length, which closes
instead of parsing when `frame_buffer_` holds more than `MaxMessageSize + Overhead` units after it
(`Overfull`; `Overhead` is 1024 bytes in the code), and is then the last. Each action under
`Iterate` is one turn of the loop. A turn is atomic: `close()` of another thread is linearised at
the turn's test of `is_closing_`. "reserved" is a frame with reserved bits or the wrong mask,
"badclose" a Close whose payload is illegal. Masking and the contents of a pong are left
out. What becomes of a connection that has hit the limit is "flood" in `WebSocketConnection`.

`WebSocketMessages` takes whole frames one after the other: a frame is legal or ends the
connection. How they are cut cannot matter to it, with one exception that is a step of its own:
`Overflow` gives up while the frames still to be taken weigh more than the limit, as these
may have arrived at once or one by one. The refinement maps the frames behind `offset` or `start` to the ones still to
be taken, and the fragments put together so far to the message.

### HttpClient

A request (`at`, `sock`, `req`) steps from one point where another thread may come in to the
next, which is the same for the synchronous and the asynchronous path. `Pop` is
`acquire()` under `pool_mtx`, `Check` the look at the entry outside it (its age may be any),
`Settle` `return_connection()` or the closing of the socket, `Deliver` the redirect loop around
an attempt, `Failed` the decision to retry. A response is its parts on the wire: the first
line, the rest of a head, which tells the framing, data, and for a chunked body the last chunk and its
trailers. A connection may be lost between the two parts of a head: `response_started` is set, and
the retry ruled out, only when the whole of it was read (`Headed`). Part of what
has been received past a body's end goes with the buffer, the rest stays in the socket
(`Settle`), and what stays may be anything: where a head is awaited it may fail to parse or may spell a
head with any framing (`OutOfStep`). A body ends as `Framings` says; "bare" is a response without a
length that does not announce that it ends with the connection, "bodiless" one that has no body and a
`Content-Length` all the same, as the answer to `HEAD`, a 304 or a 204 may have it. The buffered client reads
that many bytes whatever the status. `end` is the host a connection leads to, and `away` remembers
that a redirect has led to another origin; no guard reads either, the property about credentials does.

### HttpStream

The chain of operations is `at` (which one) and `op` (not started, pending, completed and
how). Starting an operation, completing it and running its handler are steps of their own,
because the timer and `disconnect()` come in between; `Disconnect` wins `should_stop`, `Cancel`
cancels what is pending then. `Timer...` are the statements of the timer's handler. `log` is the
callbacks in the order the caller sees them, and a callback may call `disconnect()` or,
`on_progress`, refuse.

### Repe

`Get` is `socket_pool::get()` under its mutex with the connection it makes, `Free` the
destructor of `unique_socket`; `Send`, `Receive` and `Lost` are the two halves of a call and its
error path. `Serve` and `Answer` are a turn of `run_instance()`, `Registry` says which
messages are answered, `Dispatch` which of the two dispatchers is installed. A message is the
request it belongs to. `Initial` is 2 in the code, the run uses 1 so that a pool of two has grown.

### HttpRouter

A path is its segments and whether it has slashes that `split_path()` drops: two spellings
of a static route are two entries of the static table. A captured text is opaque but for
`Refused`, which stands for what `has_dot_dot_segment` refuses, and `Accepted`, the values that
satisfy a constraint; `has_root_prefix`, which only looks at the first segment of what a wildcard
captures, is left out. A node of the tree is the path that leads to it.

| Code | Actions |
|---|---|
| `route_table::add`, `add_route` | `Add`: `AddStatic`, `AddToTree`, or `Reject` with the nodes it leaves behind |
| `route_table::match` | `Match`: the static table, or the root of the tree |
| `match_node` | `TryHere` (no text left), `TryStatic`, `TryParameter`, `TryWildcard`; `Back` is its return of false |
| the caller | `Taken` |

`match_node()` calls itself; because a node is the path from the root, its stack is no more than the
node it stands at, and `Back` goes on in the caller with the kind of child that comes next. `at` is
that kind. Routes are added while nobody looks anything up, as `route_table` has no lock. `Best` is the
reference: of the routes that fit, the most static, captures taken from the route itself.

### JsonPatch

A value is its type and contents, numbers and strings are opaque; a pointer is its tokens,
unescaped. `Apply` is one turn of the loop of `patch()`, with all of the operation; each
function of the code is one operator on values. `Diff` and `MergeDiff` make what `Init` and
`Merge` hand to it.

### ThreadPool and TaskPool

A critical section on `mtx` is a step; `--working`, which is outside it, is a step of
its own (`Finish`), and so is the execution of a job (`RunJob`), whose future is ready
when it ends. A condition variable is the set of its sleepers: `notify_one` picks one,
`notify_all` all, `SpuriousWake` any. `FinishWork` is the start of `finish_work()` for
`n_threads()` and the destructor, `OwnerWaits` its `wait()`, `SpawnThreads` and
`Destroyed` what follows the joins. In `TaskPool` a job is pending, running or done;
the refinement maps the queue and the jobs held by workers to the first two.

The code's callers are restricted as its documentation shows: nobody calls into a pool
that is being destroyed, and one thread calls `n_threads()` and the destructor.

## 4. The runs

| Run | Shows | Distinct states |
|---|---|---|
| `ws_server` | writes are serialized and drained, one `on_close`, one Close frame | 1.1 million |
| `ws_client` | one reader, the close handler is not cleared under a thread that runs it, with `force_close()` and an external close of the socket | 0.6 million |
| `ws_closing` | every close that is begun is reported; a peer that hangs up is noticed | 60 thousand |
| `ws_frames` | what is reported is what the frames mean, however they are cut, up to the limit on the buffer; nothing is held back; bad text ends the connection at once | 1.0 million |
| `pair_close` | both ends end the closing handshake, with each other's or their own code, neither too early | 80 thousand |
| `pool_one_user` | the counter, completeness and termination of `wait()`, no lost wake-up, no abandoned job, the refinement of `TaskPool`, with nested jobs and a change of the number of threads | 35 thousand |
| `http_requests` | one user per connection, the own response and all of it, credentials that stay home and do not come back, no repetition, no wait in vain | 2.6 million |
| `http_stream` | the pool gets sockets in step, nothing after the end, truncation is an error, a head or an end, and an end | 0.2 million |
| `repe` | one user per socket and none lost, the own answer, every call returns | 60 thousand |
| `http_routes` | the table answers as the list of routes says, and rejects for a reason | 1.6 million |
| `json_patch` | diffs and merge diffs lead to their target, an insertion is exact | 0.5 million |

The passing runs between them take every action of the state machines: what
a run of one kind of frame does not show (a ping, a frame that makes the parser close) another
does. One run documents a disagreement between the code and what it says of itself:
`ws_socket_closed_externally`. `do_write()` calls `do_close()` inside the scope of its lock on
`socket_op_mutex_`, which `do_close()` takes (`net/websocket_connection.hpp:1214`), though the
mutex is said to be held only briefly (`:1464`).

### Known disagreements without a run

Where the code does not do what a comment or the documentation says, the passing runs leave the
case out by a constant. Each of these shows up when the constant is changed; the
property in the third column is then violated.

| What the code does | What it says | How to see it |
|---|---|---|
| `on_read()` closes on a full `frame_buffer_` and does not read again: `on_close` is never reported (`net/websocket_connection.hpp:683`) | the initiator must continue reading to receive the peer's Close (`:695`) | `ws_closing` with `InFrames = {"flood"}`, `HandlerOps = {}`, no `Faults`: `ClosingIsReported` |
| a frame that passed the test of `is_closing_` is sent behind another thread's Close (`:1119`) | other frames are blocked when closing (`:1118`) | `ws_server` with `InFrames = {"text"}`, no `Faults`: `NothingAfterClose` |
| the destructor returns while `on_message` runs or is about to (`:975`) | destruction stops callbacks (`src/docs/networking/websocket-client.md:740`) | `ws_client` with `Ops = {"force_close"}`, `InFrames = {"text"}`: `HandlersAreQuiet` |
| both ends send data and close: each drops the other's Close behind the data and both wait for ever (`:820`) | the peer tears the connection down (`:818`) | `pair_close` with `ServerOps = {"text", "close"}`, `ServerCalls = 2`: `NoStandoff` |
| `notify_one` wakes one of two threads in `wait()`, the other sleeps on (`thread/threadpool.hpp:56`) | wait until all jobs are completed (`src/docs/thread-pool.md:13`) | `pool_one_user` with `User = Waiters = {u1, u2}`, one job, one thread: `WaitReturns` |
| a response without a length or `Connection: close` is taken to be empty, and what follows is read as the next response (`net/http_client.hpp:2692`, `:3304`) | no length is a legitimate response whose body runs to the end of the connection (`:322`) | `http_requests` with `Framings <- Bare`: `ResponseIsOwn` |
| the buffered client reads as many bytes of body as `Content-Length` says, also after a 304, a 204 or an answer to `HEAD`, and waits for them until the connection ends (`:2719`, `:3310`) | these never carry a body, and to frame one by that length would wait for bytes that are never coming (`:2132`; `src/docs/networking/http-client.md:374`, of streams) | `http_requests` with `NobodyWaitsForNoBody`, of which `NoVainWait` is the part that holds |
| a connection that is lost inside a head is retried, since only the whole head sets `response_started` (`:2512`, `:2997`) | no retry once any response bytes have been received (`src/docs/networking/http-client.md:690`; `net/http_client.hpp:761`, `:784`, `:2444`) | `http_requests` with the action property `RetriedUnanswered`; `NotRepeated` speaks of whole heads |
| the timer ends a stream and the operation it cancels ends it again (`:1808`) | the disconnect handler arrives exactly once (`src/tests/networking_tests/http_client_progress_test/http_client_progress_test.cpp:135`) | `http_stream` with `OnDisconnectOnce` |
| a 1xx head is taken for a whole response, and its socket goes to the pool ahead of the real one (`:2034`) | only a socket in step is reused (`:2015`) | `http_stream` with `Interim = TRUE`: `PooledInStep` |
| an endpoint that throws answers a notification (`rpc/registry.hpp:495`) | answering one desynchronizes the connection (`:475`) | `repe` with `NotifyThrows = TRUE`: `ResponseIsOwn` |
| a custom handler that leaves the buffer alone sends the last response again (`ext/glaze_asio.hpp:1176`) | an empty buffer sends nothing (`:1179`) | `repe` with `CustomCall = TRUE`: `ResponseIsOwn` |
| with `create_intermediate`, a path that ends in an empty token below something missing reports success and inserts nothing (`json/patch.hpp:298`) | creates intermediate objects as needed (`:273`) | `json_patch` without the exception in `InsertionIsExact` |
| a route added again without constraints keeps the old ones in the tree (`net/http_router.hpp:575`) | the map stays in sync with the tree (`:445`) | `http_routes` with one route with and without a constraint (so not `Tame`): `MatchIsBest` |
| a parameter name used twice on a path loses the outer capture when the inner branch fails (`:635`) | the map of parameters reflects the matched route (`:682`) | `http_routes` with `/:x/:x/a` and `/:x/*w` (so not `Tame`): `MatchIsBest` |
| `add()` catches the exception of a conflict, writes to `stderr` and returns as if the route were there (`net/http_router.hpp:441`-`:458`) | a conflict throws `std::runtime_error` (`:955`; `src/docs/networking/http-router.md:565`) | every `Reject` in `http_routes`: the call returns and lookups go on |
| a route rejected for a wildcard that is not last leaves its parameter in the tree, which makes later routes conflict (`:543`) | the map of routes, which has neither, stays in sync with the tree (`:445`) | `http_routes` with `/:x/*w/a` and `/:y`: `RejectedForAReason` with reasons from the map only, without `rejected` |

Two more cannot be told from the models' states: `disconnect()` between a handler's look at
`should_stop` and the read it starts is noticed only when the server sends something
(`net/http_client.hpp:2345`), and a chunked body that the server cuts short ends a stream
without an error (`:2186`), while the documentation has an incomplete message reported
(`src/docs/networking/http-client.md:380`).

### Bounds

* WebSocket runs: two io threads, since a write handler and a read handler can run at once; asio
  has at most one read and one write outstanding, so a third io thread would have nothing to do
  unless a callback keeps one busy while a write completes, which two show. One
  application thread with two calls races each of them; callbacks add calls of their own
  on the io threads. `pair_close` and the violation run have one io thread for each
  connection, to keep two machines, or a short counterexample, within reach.
* `MaxIn` 1 or 2 inbound frames: one to be in a callback for, one behind it (the case
  that `DiscardFrames` is about). `MaxCalls` 2: a send and a close, in both orders.
* `ws_frames`: three of thirteen frames, `MaxMessageSize` 2, `Overhead` 6. Two frames of legal size always fit into a
  buffer of eight units and three may not, so the limit bites in some reads and not in others. Three are a first fragment, a
  control frame and the end of the message, or a message around a character that spans
  two fragments; payloads of up to three bytes fall on either side of the limit and of a
  character of two bytes.
* Pool: two threads, three jobs and one resize: one job running, one queued behind it,
  one submitted by a job; two workers are what the last-worker test and `notify_one`
  tell apart from one.
* `http_requests`: two requests over one connection per host show a full pool and one
  that is empty; two hosts and `MaxRedirects` 2 a way from the origin to the other host and back, and
  a third redirect that is refused; one drop and one `clear()`, at
  any moment. Four sockets: one held by each, and one pooled for each host. `r1` is idempotent and
  redirected, and answered in chunks or without a body; `r2` is neither, and answered with a
  length or up to the end of the connection: each framing meets a drop and another user of the
  connection, and the four are not multiplied.
* `http_stream`: a body of two pieces is cut before, inside and after.
* `repe`: two callers, a pool of one that grows to two, two calls each (a notification and
  a call behind it on the same socket, in any order), one lost connection, one more `init()`.
* `http_routes`: three calls of `add()` are a route, one that overlaps or conflicts with it, and
  one behind a rejected one; targets of three segments go below every route that can be added. Permutations
  of the methods are symmetric.
* `json_patch`: documents of two levels are the recursion and its base; arrays of three
  lose one, two or all elements; two operations are one that shifts what the other names.
* `SYMMETRY` permutes the io threads, or the methods of requests, in runs without liveness only.

`CHECK_DEADLOCK FALSE` is set where the system may stop: the pool when its owner has destroyed
it, and requests, streams, calls, parsers and patches when they are done. A route table can always be
asked, so `http_routes` checks deadlock: a lookup never gets stuck. The
WebSocket connection's runs check it, too: `Quiescent` is the only state they may stop in, so a
thread stuck on a mutex would be reported.

### Fairness

* Each thread: an io_context runs its ready handlers and the operating system runs its
  threads; `WF_vars(Step(t))` and `WF_vars(WorkerStep(w))`. The user's calls are not fair:
  nothing depends on whether somebody calls. Mutexes are held for one step, or across
  the close handler, so weak fairness is enough for a thread that waits for one.
* `WF_vars(Asio)`: asio completes the operations it has accepted. A read completes only
  if there is something to read or the stream has ended.
* In `ws_closing` the peer answers a Close and lets go of the stream in the end
  (`PeerLetsGo`). The code has no timeout, so its liveness rests on that, and it is said
  where it is assumed. `pair_close` shows that a glz peer does it, except in the case of
  the standoff above.
* `HttpStream`: the chain and the timer are handlers of an io_context, a timer expires, and a
  `disconnect()` that has won `should_stop` goes on. The server is not trusted: `HeadOrEnd` holds
  with one that says nothing for ever; `StreamEnds` assumes in its own statement that the
  server sends what it announced, since nothing in the code bounds the body.
* `Repe`: a call that has begun goes on and the server's io threads serve every connection; the
  network may break one at any time, and nothing assumes that it does.
* Spurious wake-ups are possible and never assumed.

## 5. What is proved

`ThreadPoolProofs`, for any set of jobs, any number of threads, any users, submitters and
waiters, with or without nested jobs:

| Theorem | Says | Rests on |
|---|---|---|
| `TypeCorrect` | `[]TypeOK`; the unsigned counter does not wrap | `CounterInv` |
| `WorkingIsAlwaysExact` | `[]WorkingIsExact` | `CounterInv` |
| `WaitIsAlwaysComplete` | `WaitIsComplete`: nobody leaves `wait()` before the jobs submitted before it are done | `WaitInv`, `NoJobIsLost`, `WaitEnds` |
| `PoolImplementsTaskPool` | `Spec => ImplementsTaskPool`: every behaviour of the pool is one of `TaskPool` | `RefinementInv`, `StepsOfJobs`, `StepRefines` |
| `NothingIsEverAbandoned` | `[]NothingIsAbandoned`: a destroyed pool is empty and without threads | `DrainInv` |

`TypeOK` alone is not inductive: `--working` stays in `Nat` because the counter is exact,
and exactness needs that a wake-up only reaches workers that sleep, never one with a job
in hand. Hence `CounterInv == TypeOK /\ WorkingIsExact /\ SleepersAreListed`, whose step has
one case per action; the cardinality of the set of workers with a job is tracked by the
lemmas `InHandGrows` and `InHandShrinks`. `WaitInv` adds that a thread inside `wait()` waits
for jobs that the pool still knows of, which holds because no step loses a job
(`NoJobIsLost`, from `StepsOfJobs`: a step submits a job, hands one to a worker, ends one,
or moves none). When `wait()` is left the queue is empty and the counter zero; by
exactness no worker has a job in hand, so every job known to the pool is done. `DrainInv`
adds that a pool past the wait of its destructor stays drained: nobody submits any more,
and no job is left to submit one. The refinement needs that a job is in one place only
(`JobsAreApart`): otherwise the end of a job held twice would not be a step of `TaskPool`.

Assumptions: `JobsAssumption` (there are jobs), `ThreadsAssumption` (at least one thread),
`UsersAssumption` (the owner and the callers are users), `ResizesAssumption` (types). TLC
evaluates them in every run of the module.

`RepeProofs`, for any number of callers and calls, any size the pool may grow to, any
failures and calls of `init()`, and whichever way the registry answers:

| Theorem | Says | Rests on |
|---|---|---|
| `OneUserOfASocket` | `[]OneUser`: no socket in two hands, none both used and free | `PoolInv` |
| `NoSocketIsLost` | `[]NoneIsMissing`: each socket of the pool is free or in the hands of a call | `PoolInv` |
| `TypeCorrect` | `[]TypeOK` | `PoolInv` |
| `AnswersAreOwn` | `[]ResponseIsOwn`: a call returns the answer to its own request | `Mannered`, `PoolInv`, `WireInv` |

`OneUser` alone is not inductive: `Free` would put back what the caller holds even if that were
nothing, or an index that the pool has not grown to. `PoolInv` adds that indices are those
of the pool as it has grown (`InRange`) and that a caller holds one exactly on its way from
`get()` to the destructor of its socket (`HeldOnTheWay`). `GetKeeps` is the step in which the
pool may double: the indices that are new (`GrownPool`) are in nobody's hands because all that
are held are at most the old size, and the free list was empty. `FreeKeeps` appends an index
that is held, hence not on the list. It assumes `BoundsAssumption` (the pool starts within
its bounds).

`AnswersAreOwn` is `[]ResponseIsOwn` from `PoolInv` and `WireInv`. No message names the request
it answers, so `WireInv` follows the one request a connection may be waiting with: either
nothing on the connection will ever be answered (`Silent`: only notifications are in the server's buffer), or its
one user waits in `receive` and its request is the last in the server's buffer, in the hands of
the server, or answered on the wire (`Asked`, `Answering`, `Answered`). A call that fails leaves the connection closed,
and `connect` begins with an empty one. That the waiting caller is alone on the connection is
`OneUser` of `PoolInv`. It assumes `Mannered`, that no endpoint throws at a notification and no custom
handler is set, as the run does: both are disagreements of section 4.

`WebSocketConnectionProofs`, for any number of threads, calls and frames, in both modes, with
and without faults and external closes of the socket:

| Theorem | Says | Rests on |
|---|---|---|
| `OneWriterHolds` | `[]OneWriter`: one write at a time, and one owner of the right to start it | `WriterInv` |
| `QueueIsAlwaysDrained` | `[]QueueIsDrained`: somebody will come back for every queued frame | `WriterInv` |
| `OneReaderHolds` | `[]OneReader`: one thread at a time uses `frame_buffer_` | `ReaderInv`, `WriterInv` |
| `OnCloseAtMostOnce` | `[]OnCloseOnce` | `CloserInv` |
| `CloseHandlerIsExcluded` | `[]CloseHandlerExcluded` | `CloserInv` |
| `OneCloseFrameLeaves` | `[]OneCloseFrame` | `CloseInv`, `WriterInv` |

What makes these hard to state is the stack: a thread may be inside the read loop and inside
the close handler at once, several calls deep. `Holds(R, p, s)` says that a thread at `p` with
return points `s` is somewhere in a set `R` of places, `Sole` that it is there once. Three
lemmas say what going on, calling and returning do to both (`SoleAfterGoto`, `SoleAfterCall`,
`SoleAfterReturn`), and but for three entrances every step of a thread is such a `Plain` move.
`WriterInv` is the token argument: `write_in_progress_` is TRUE exactly when a
thread is in the write section or a write is outstanding, never both, the answer to the upgrade
request apart, which is alone while it lasts. `ReaderInv` is the same for reading: the right to
read is in one thread's stack or in `read_op`. `CloserInv` follows the winner of `closed_`: one
thread is on its way to the handler, before any code was reported, and holds the mutex while it
runs. `CloseInv` follows the Close frame from the exchange of `is_closing_`
through the hands of a thread, the queue, the hands of the thread that writes, the wire and
the stream: it is in one of these places and `is_closing_` is set. Mutual exclusion of
`socket_op_mutex_` is not needed for any of this, and the deadlock on it (section 4) does not
disturb it.

`WebSocketPairProofs`, for two ends with any number of threads and calls of `send_text()` and
`close()` each:

| Theorem | Says | Rests on |
|---|---|---|
| `InitiatorAlwaysWaits` | `[]InitiatorWaits`: no end lets go of its socket before the other has begun to close | `PairInv` |
| `CodeIsAlwaysReported` | `[]CloseCodeIsReported`: `on_close` reports the code of a Close that was sent, never the default | `PairInv` |

Each end is the connection of `WebSocketConnectionProofs`, instantiated once more, so the steps are analysed once and not
twice. `ConnectionInv` there is what is known of an end: the invariants above and `EndInv`. `Begun` says
that an end has set `is_closing_` and a code; `Ending` collects what is irreversible: a socket not
fully open, `close_after_write_`, the end of the stream sent or read, a failed operation, a thread on the
way to `do_close()`; `Heard` adds a Close among the frames received. `EndInv` says that an end that is
`Ending` has `Begun`, and that between the exchange of `is_closing_` and the store of the code
the only Close is in the hands of the thread between the two, which `CloseInv` turns into: a Close on the wire
has a code. `OwnStep` is what an end guarantees (it hears only what was sent to it, and nothing makes it end but a Close
it answers or the end of the stream), `OthersStep` what the other may do to it (read from the stream). `PairInv` adds
that who has `Heard` is not the first: the other has `Begun`. The two halves need each other: an end sends the end of its stream only after
it has heard of the other's Close, so the one that reads it has already begun itself. `ServerMoves` and
`ClientMoves` identify the steps of the pair with those of the instantiated connection. TLC
checked the invariant on the run's instance and on one with two io threads an end.
Assumptions: `ThreadsAssumption` and `BoundsAssumption` of `WebSocketPair`, and `OpsAssumption`: with
`force_close()` an end does let go of its socket first, and both properties are meant for the
handshake. That both ends close in the end (`BothEndsClose`) is not implied, see section 4.

`HttpClientProofs`, for any requests, hosts, connections and limits, any redirects and any
number of `clear()`s and dropped connections:

| Theorem | Says | Assuming |
|---|---|---|
| `OneUserHolds` | `[]OneUser` | - |
| `CredentialsStay` | `[]CredentialsStayHome`: the credentials are on no connection but to the origin, and never again after a redirect away | - |
| `NobodyWaitsInVain` | `[]NoVainWait`: who waits is owed something, but for the body of a "bodiless" answer | `Framed`: no answer is "bare" |
| `OwnResponse` | `[]ResponseIsOwn`: a response is the caller's own and whole | `Framed` |
| `NoRepetition` | `NotRepeated`: never again once the head was read, nor if the method is not idempotent, nor a third time | `Framed` |

All follow from one invariant, `Inv` (`InvHolds`), in two layers. The first holds for any servers: types,
who has which connection (`Holding`, `OneUser`, `PoolsAreShort`), unused connections that are silent, and where they
lead: a connection that is pooled leads to the host of its pool (`PooledByHost`), one that is held to the
host its request is for (`Connected`), and a request that still has its credentials has always been at
home (`Credentials`). The second holds if `Framed`. Its core is `Exchange`: what is on the
connection of a request, by where the request is. A connection that is checked or about to be
sent on is `Reusable`, with nothing on it; while the head is awaited the server has the
request (`Asked`) or the connection holds a segment of its answer (`Answering`: the parts from
the first that was not read up to the last that has arrived), and later it is the rest of the answer
that the request has understood so far. Pooled connections are `Reusable`, too. Hence no head is ever
`OutOfStep` (`NothingOutOfStep`), and a request that waits finds the rest of its answer in the hands of its server
(`HeadToCome`, `BodyToCome`). `Attempts` counts executions: one for the present hop and one more after the retry.
`Framed` is an assumption about the servers, and the run makes the same. Without it nothing is claimed of what
is read: what is left of an answer of unknown length may be taken for the next one (section 4).

`HttpStreamProofs`, for a body of any number of pieces and any of the framings:

| Theorem | Says | Assuming |
|---|---|---|
| `EndIsAlwaysLast` | `[]EndIsLast` | - |
| `TruncationIsAlwaysReported` | `[]TruncationIsReported` | - |
| `PooledSocketsAreInStep` | `[]PooledInStep` | `NoInterim`: the server sends no 1xx head, see section 4 |

`CallInv` relates the timer, `should_stop` and the log: who reports the end, and when it is
reported already. `SocketInv` splits the answer into what was consumed, what is in
the buffer, on the wire, and still to be sent, four consecutive segments (`Streaming`), and says
how many parts the chain has consumed by where it is (`Consumed`). At the end of the body
nothing but "surplus" and the end of the stream is left, which is what `response_complete` tests.

`WebSocketFramesProofs`, for any frames of bytes, streams of any length, any limits on messages and on the buffer, and
reads that end after any unit:

| Theorem | Says | Rests on |
|---|---|---|
| `InStepWithFrames` | `[]Inv` | `InvInit`, `InvStep` |
| `FramesImplementMessages` | `Spec => ImplementsMessages`: what is reported, and where the connection is given up, is what whole frames mean, or more of them waits than the buffer may hold | `Inv`, `InvStep` |
| `NothingIsWithheld` | `[]NothingWithheld` | `Inv` |
| `BadTextFailsFast` | `[]FailsFast` | `Inv` |

`Inv` says of a connection that is open that it stands where some frame j begins (`OpenAt`) and
that the validator agrees with the text it has been given: with that of the fragments before, or,
once part of a frame was looked at, with these and the first `consumed` bytes of
the frame (`Validated`). A connection that waits has less than the whole of frame j, and no bad text in it
(`Waiting`). The lemmas about text are `Utf8Composes`, to validate two pieces is to validate them joined, and
`StreamedIsWhole`, that the pieces `consume_incomplete_text_payload` picks are these. From that the code's tests,
made on a part of a frame, on a header or on a fragment, agree with the abstract
`Legal`, which knows whole messages only (`IllegalIsNotLegal`, `BadPartIsIllegal`,
`HeaderIsIllegal`). Turns of the loop that leave a frame in the buffer, and reads, are steps of
the abstract that change nothing; a read that brings more than the buffer may hold is its `Overflow`
(`ReadTooMuch`), since what is in the buffer is part of what is still to be taken, whose weight it
cannot exceed (`WhatWaits`). Once the connection closes, the parser may lose its place
(`Drop`), which is why `Inv` says nothing of it then; `ClosingStep` shows that such a
connection reports nothing. Where a frame begins is a number of units (`Before`), the cardinality of
the set of units in front of it, which is what makes it accessible to the prover without recursion. It
assumes `FramesAssumption` (what a frame is) and `SizeAssumption`.

`HttpRouterProofs`, for any routes and methods, any number of calls of `add()`, and targets of any
length:

| Theorem | Says | Assuming |
|---|---|---|
| `LookupIsBest` | `[]MatchIsBest`: the answer is the best route of the map, with what it captures | `Tame` |
| `LookupIsSound` | an answer is the handler of a route in the map, for the method, that fits the target | - |
| `RejectionHasAReason` | `RejectedForAReason` | - |

`MatchIsBest` speaks of answers only, and an answer is the end of a walk through tables that the
calls before it have made. `TablesInv` says what the tables are: the map holds routes that were
given, each with a handler of its own (`MapInv`); the static ones are in the static table
(`DirectInv`); the tree holds all beginnings of its nodes, each the beginning of a route that was
given, one parameter and one wildcard a node, nothing below a wildcard (`TreeInv`); and it has a
handler for exactly the routes that are not static (`HandlersInv`). The handler of a node is the
one given last for its segments, also when two spellings of a path are two routes of the map, and this
is why `HandlersInv` has `<=` and `Before` prefers the later handler.

`LookupInv` is the walk: the node fits the texts in front of it, `params` is what the path to it
captures and no more, and a route that would be an answer is not lost: it parts from the
node where the node has the segment that is tried first (`Later`), or it goes by the node in a way that
is still to be tried (`Ahead`). `Parting` finds the child that a route of the second sort goes to;
`DescendKeeps`, `ForwardKeeps` and `BackKeeps` are the three things a step can do, and `FoundIsBest` and
`NotAllowed` say that a handler is taken only where no such route is better, and refused only where
the node's routes do not qualify. `CapturesGrow` is what makes `params.erase()` right: to forget the
name of the last segment restores what was captured before it.
That needs `NamesDiffer`, no name twice on a path; and `NotAllowed` needs `SameConstraints`, a path that
comes again comes with the same constraints. Without either the code disagrees with its
comments (section 4). `Tame` is both; the run's routes are `Tame`, which TLC evaluates
(`RoutesAreTame`). `LookupIsSound` is what remains true of all routes: it needs of the walk only that the
node fits the texts in front of it (`Walked`). `RouteAssumption` and `TargetAssumption` say what paths are.

In these modules, too, each invariant was checked by TLC as an invariant of the component's run
before it was proved.

Only model-checked: the three properties of JSON patches, whose definitions are recursive;
`HeadOrEnd` and all liveness, the end of the closing handshake among it. Liveness under fairness,
`ENABLED` and induction over data, which the recursive definitions of `JsonPatch` would need, are
beyond the prover that is used here.

## 6. What is not modelled, and why

* Formats, reflection, containers, URL and CORS helpers: sequential functions of bytes and
  types, served better by the unit tests and fuzzers they have; some of the containers are candidates for later modules.
* TLS and the operating system: libraries; the stream is modelled by what it delivers.
* Contents of frames, masking and the HTTP text of the opening
  handshake: no property here is about them.
* Destruction of the connection object itself: asio's handlers hold a `shared_ptr`, so the
  object outlives its handlers; its owner is part of `WebSocketClient`.
* `n_threads()` while another thread submits: outside what the documentation shows; the
  hazard list says what happens.
* In the HTTP client: TLS (a handshake among the early operations), header fields that no step
  depends on; the limits on sizes appear as a failure that may happen.
* In the router: the text of segments, and middleware. In JSON Patch: the escapes of pointers, the
  limit on depth, the overloads for text and for structs.
* REPE's message contents, and the fields of a header that a server of this library gets right.
* What section 2 lists as left.
