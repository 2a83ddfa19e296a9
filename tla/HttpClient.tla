----------------------------- MODULE HttpClient -----------------------------
(***************************************************************************)
(* The requests of glz::http_client (net/http_client.hpp) that are not     *)
(* streamed, their connection pool and the servers at the other end.  A    *)
(* request takes a pooled connection or makes one, writes, reads a head    *)
(* and a framed body, gives the connection back or closes it, is sent once *)
(* more when the connection failed before the head, and follows redirects. *)
(* The synchronous and the asynchronous path take the same steps, one on   *)
(* the caller's thread and the other on io threads; a step here is what    *)
(* either does between two points where another thread may come in.        *)
(***************************************************************************)
EXTENDS Naturals, FiniteSets, SequencesExt

CONSTANTS
    Request, Host, Socket,
    Home,          \* the hosts the callers address, the others are redirected to
    NoSocket,      \* held by a request without a connection
    Redirected,    \* the requests that a server may answer with a redirect
    Safe,          \* the requests whose method is idempotent
    Framings,      \* how the servers may frame the answer to a request
    MaxPerHost,    \* max_per_host_
    MaxRedirects,  \* max_redirects_
    ActiveCheck,   \* active_liveness_check_, and a plain TCP connection
    IdleTimeout,   \* idle_timeout_ is not zero
    MaxClear,      \* bound on the calls of clear()
    MaxDrops       \* bound on the connections the servers drop unasked

(* "length": Content-Length; "chunked"; "eof": no length and Connection:    *)
(* close; "bare": no length and no Connection: close, so that the body     *)
(* runs to the end of the connection as well; "bodiless": no body, and a   *)
(* Content-Length that tells how long one would have been (304, HEAD).     *)
AllFramings == {"length", "chunked", "eof", "bare", "bodiless"}

ASSUME FramingsAssumption == Framings \in [Request -> SUBSET AllFramings]
ASSUME HomeAssumption == Home \subseteq Host /\ Home # {}
ASSUME SafeAssumption == Safe \cup Redirected \subseteq Request
ASSUME BoundsAssumption == {MaxPerHost, MaxRedirects, MaxClear, MaxDrops} \subseteq Nat /\ {ActiveCheck, IdleTimeout} \subseteq BOOLEAN
ASSUME NoSocketAssumption == NoSocket \notin Socket

(* A process opens as many connections as it needs: there is a slot for    *)
(* each that the pools may keep and for each that a request may hold.      *)
ASSUME SlotsAssumption ==
    /\ IsFiniteSet(Request) /\ IsFiniteSet(Host) /\ IsFiniteSet(Socket)
    /\ Cardinality(Host) * MaxPerHost + Cardinality(Request) <= Cardinality(Socket)

VARIABLES
    pool,     \* available_connections: per host, the last returned is last
    at,       \* where each request is
    sock,     \* the connection each request holds
    req,      \* what each request knows
    wire,     \* per connection, the parts of responses that arrived and were not read
    peer,     \* per connection, the server's end: "up", "fin" or "rst"
    inbox,    \* per connection, the requests the server has not looked at
    plan,     \* per connection, what the server has yet to send
    end,      \* per connection, the host at the other end
    ran,      \* per request, how often a server carried out its present hop
    clears,   \* calls of clear()
    drops     \* connections dropped by the servers

network == <<wire, peer, inbox, plan, end>>
vars == <<pool, at, sock, req, network, ran, clears, drops>>

Places == {"idle", "acquire", "check", "connect", "send", "head", "body", "trailers", "ok", "failed"}

(* home: where the caller sent it; away: it has been redirected to another *)
(* host since; hops: redirects followed; sent: times sent; head, close,    *)
(* to: the framing of the response, whether it asks for the connection to  *)
(* be closed and where it redirects to; body: whose head and whose data    *)
(* were read, the attempts they answer.                                    *)
NewRequest(r, h) ==
    [host |-> h, home |-> h, away |-> FALSE, safe |-> r \in Safe, auth |-> TRUE, started |-> FALSE, retried |-> FALSE,
     hops |-> 0, sent |-> 0, head |-> "none", close |-> FALSE, to |-> "here", body |-> <<>>]

Init ==
    /\ pool = [h \in Host |-> <<>>]
    /\ at = [r \in Request |-> "idle"] /\ sock = [r \in Request |-> NoSocket]
    /\ \E home \in [Request -> Home] : req = [r \in Request |-> NewRequest(r, home[r])]
    /\ wire = [s \in Socket |-> <<>>] /\ peer = [s \in Socket |-> "fin"]
    /\ inbox = [s \in Socket |-> <<>>] /\ plan = [s \in Socket |-> <<>>]
    /\ end = [s \in Socket |-> "none"]
    /\ ran = [r \in Request |-> 0] /\ clears = 0 /\ drops = 0

Pooled == UNION {ToSet(pool[h]) : h \in Host}
Unused == Socket \ (Pooled \cup {sock[r] : r \in Request})

Goto(r, place) == at' = [at EXCEPT ![r] = place]
Hold(r, s) == sock' = [sock EXCEPT ![r] = s]

\* Closing a socket takes what was in flight with it; the slot can serve again.
Hangup(S) ==
    /\ wire' = [s \in Socket |-> IF s \in S THEN <<>> ELSE wire[s]]
    /\ inbox' = [s \in Socket |-> IF s \in S THEN <<>> ELSE inbox[s]]
    /\ plan' = [s \in Socket |-> IF s \in S THEN <<>> ELSE plan[s]]
    /\ peer' = [s \in Socket |-> IF s \in S THEN "fin" ELSE peer[s]]
    /\ end' = [s \in Socket |-> IF s \in S THEN "none" ELSE end[s]]

-----------------------------------------------------------------------------
\* The pool.
Begin(r) ==
    /\ at[r] = "idle"
    /\ Goto(r, "acquire")
    /\ UNCHANGED <<pool, sock, req, network, ran, clears, drops>>

\* Faulty acquire(): the entry it takes stays in the pool.
PopNothing(r) ==
    /\ at[r] = "acquire"
    /\ LET idle == pool[req[r].host] IN
       IF idle # <<>>
       THEN Hold(r, Last(idle)) /\ Goto(r, "check")
       ELSE Hold(r, CHOOSE s \in Unused : TRUE) /\ Goto(r, "connect")
    /\ UNCHANGED <<pool, req, network, ran, clears, drops>>

(* acquire(): an entry is popped under pool_mtx, the last one first; when  *)
(* there is none the connection is made afresh.                            *)
Pop(r) ==
    /\ at[r] = "acquire"
    /\ LET idle == pool[req[r].host] IN
       IF idle # <<>>
       THEN /\ pool' = [pool EXCEPT ![req[r].host] = Front(idle)]
            /\ Hold(r, Last(idle)) /\ Goto(r, "check")
       ELSE /\ Hold(r, CHOOSE s \in Unused : TRUE) /\ Goto(r, "connect")
            /\ UNCHANGED pool
    /\ UNCHANGED <<req, network, ran, clears, drops>>

\* The peek: no FIN, no reset, and no byte nobody has asked for.
PooledAlive(s) == peer[s] = "up" /\ wire[s] = <<>>

\* The entry is looked at outside the lock: its age, which is any, then the peek.
Check(r) ==
    /\ at[r] = "check"
    /\ LET s == sock[r] IN
       \/ /\ ActiveCheck => PooledAlive(s)
          /\ Goto(r, "send") /\ UNCHANGED <<sock, network>>
       \/ /\ IdleTimeout \/ (ActiveCheck /\ ~PooledAlive(s))
          /\ Hangup({s}) /\ Hold(r, NoSocket) /\ Goto(r, "acquire")
    /\ UNCHANGED <<pool, req, ran, clears, drops>>

ClearPool ==
    /\ clears < MaxClear /\ Pooled # {}
    /\ clears' = clears + 1
    /\ pool' = [h \in Host |-> <<>>]
    /\ Hangup(Pooled)
    /\ UNCHANGED <<at, sock, req, ran, drops>>

-----------------------------------------------------------------------------
\* The caller gets an error, and what the request knew is gone with it.
Fail(r) == Goto(r, "failed") /\ req' = [req EXCEPT ![r] = NewRequest(r, req[r].home)]

\* Faulty retry: it is not asked whether the server had begun to answer.
FailedEager(r, retriable) ==
    /\ IF req[r].safe /\ ~req[r].retried /\ retriable
       THEN /\ req' = [req EXCEPT ![r].retried = TRUE]
            /\ Goto(r, "connect")
            /\ UNCHANGED sock
       ELSE Hold(r, NoSocket) /\ Fail(r)
    /\ Hangup({sock[r]})
    /\ UNCHANGED <<pool, ran, clears, drops>>

\* One attempt.  It fails with an error that does or does not look like a lost connection.
Failed(r, retriable) ==
    /\ IF req[r].safe /\ ~req[r].started /\ ~req[r].retried /\ retriable
       THEN /\ req' = [req EXCEPT ![r].retried = TRUE] /\ Goto(r, "connect")
            /\ UNCHANGED sock
       ELSE Hold(r, NoSocket) /\ Fail(r)
    /\ Hangup({sock[r]})
    /\ UNCHANGED <<pool, ran, clears, drops>>

Connect(r) ==
    /\ at[r] = "connect"
    /\ \/ /\ peer' = [peer EXCEPT ![sock[r]] = "up"]
          /\ end' = [end EXCEPT ![sock[r]] = req[r].host]
          /\ Goto(r, "send")
          /\ UNCHANGED <<pool, sock, req, wire, inbox, plan, ran, clears, drops>>
       \/ \E retriable \in BOOLEAN : Failed(r, retriable)

\* A write to a peer that has gone may still succeed, into the send buffer.
Send(r) ==
    /\ at[r] = "send"
    /\ LET s == sock[r]
           n == req[r].sent + 1 IN
       \/ /\ req' = [req EXCEPT ![r].sent = n] /\ Goto(r, "head")
          /\ inbox' = IF peer[s] = "up" THEN [inbox EXCEPT ![s] = Append(@, <<r, n>>)] ELSE inbox
          /\ UNCHANGED <<pool, sock, wire, peer, plan, end, ran, clears, drops>>
       \/ peer[s] # "up" /\ Failed(r, TRUE)

Arrived(r) == wire[sock[r]] # <<>>
Cut(r) == wire[sock[r]] = <<>> /\ peer[sock[r]] # "up"
Part(r) == Head(wire[sock[r]])
Consume(r, n) == wire' = [wire EXCEPT ![sock[r]] = SubSeq(@, n + 1, Len(@))] /\ UNCHANGED <<peer, inbox, plan, end>>

\* The whole of a head has arrived; before that the server has not begun to answer, for the client.
Headed(r) == \E i \in DOMAIN wire[sock[r]] : wire[sock[r]][i].part = "head"

\* What comes without the beginning of a head is left over from another answer.
OutOfStep(r) == Arrived(r) /\ Part(r).part # "line"

\* Without a length, Connection: close makes the difference.
Consistent(framing, close) == (framing = "eof" => close) /\ (framing = "bare" => ~close)

Begun(r, id, framing, close, to) ==
    req' = [req EXCEPT ![r].started = TRUE, ![r].head = framing, ![r].body = <<id>>, ![r].close = close, ![r].to = to]

(* The read of the head, which succeeds when all of it is there.  What is  *)
(* left over of another answer may spell a head, and is taken for one.     *)
(* What is not a status line, a head that cannot be parsed, lengths that   *)
(* disagree and a length above max_response_body_size_ end the request;    *)
(* nothing is retried once a head was read.                                *)
ReadHead(r) ==
    /\ at[r] = "head"
    /\ \/ ~Headed(r) /\ peer[sock[r]] # "up" /\ Failed(r, TRUE)
       \/ /\ Headed(r) /\ ~OutOfStep(r)
          /\ LET head == wire[sock[r]][2] IN Begun(r, head.of, head.framing, head.close, head.to)
          /\ Consume(r, 2) /\ Goto(r, "body")
          /\ UNCHANGED <<pool, sock, ran, clears, drops>>
       \/ /\ OutOfStep(r)
          /\ \E framing \in AllFramings \ {"bodiless"}, close \in BOOLEAN, to \in {"here"} \cup Host :
                Consistent(framing, close) /\ Begun(r, Part(r).of, framing, close, to)
          /\ Consume(r, 1) /\ Goto(r, "body")
          /\ UNCHANGED <<pool, sock, ran, clears, drops>>
       \/ (Headed(r) \/ OutOfStep(r)) /\ Failed(r, FALSE)

(* The connection as the response leaves it, n parts of what had arrived   *)
(* read: back to the pool if there is room, without what was read past the *)
(* end of the body, which goes with the buffer.                            *)
Settle(r, n, keep) ==
    LET s == sock[r]
        h == req[r].host IN
    /\ Hold(r, NoSocket)
    /\ IF keep /\ Len(pool[h]) < MaxPerHost
       THEN /\ pool' = [pool EXCEPT ![h] = Append(@, s)]
            /\ \E m \in n..Len(wire[s]) : wire' = [wire EXCEPT ![s] = SubSeq(@, m + 1, Len(@))]
            /\ UNCHANGED <<peer, inbox, plan, end>>
       ELSE Hangup({s}) /\ UNCHANGED pool

\* The caller gets the response, and the rest is gone.
Succeed(r, q) ==
    /\ Goto(r, "ok")
    /\ req' = [req EXCEPT ![r] = [NewRequest(r, q.home) EXCEPT !.sent = q.sent, !.head = q.head, !.body = q.body]]
    /\ UNCHANGED ran

\* Of a hop, the request that goes on keeps where it has been.
Hop(r, q) == [NewRequest(r, q.home) EXCEPT !.host = q.to, !.away = q.away \/ q.to # q.home, !.hops = q.hops + 1, !.sent = q.sent]

\* Faulty: headers dropped on the way are put back when a redirect leads home.
DeliverRestored(r, q) ==
    \/ (q.to = "here" \/ MaxRedirects = 0) /\ Succeed(r, q)
    \/ /\ q.to # "here" /\ q.hops < MaxRedirects
       /\ req' = [req EXCEPT ![r] = [Hop(r, q) EXCEPT !.auth = q.to = q.home, !.safe = q.safe]]
       /\ ran' = [ran EXCEPT ![r] = 0]
       /\ Goto(r, "acquire")

(* A redirect is followed with the method and the credentials that         *)
(* apply_redirect() leaves, unless there were MaxRedirects of them or the  *)
(* Location is no use.                                                     *)
Deliver(r, q) ==
    \/ (q.to = "here" \/ MaxRedirects = 0) /\ Succeed(r, q)
    \/ /\ q.to # "here" /\ MaxRedirects > 0
       /\ Fail(r)
       /\ UNCHANGED ran
    \/ /\ q.to # "here" /\ q.hops < MaxRedirects
       /\ \E get \in BOOLEAN :
             req' = [req EXCEPT ![r] = [Hop(r, q) EXCEPT !.auth = q.auth /\ q.to = q.host, !.safe = q.safe \/ get]]
       /\ ran' = [ran EXCEPT ![r] = 0]
       /\ Goto(r, "acquire")

Complete(r, q, n, keep) == Settle(r, n, keep) /\ Deliver(r, q) /\ UNCHANGED <<clears, drops>>

-----------------------------------------------------------------------------
\* Reading the body: one step takes what one part of the framing needs; only chunks have a form.
Data(r) == Arrived(r) /\ (req[r].head = "chunked" => Part(r).part = "data")
WithData(r) == [req[r] EXCEPT !.body = Append(@, Part(r).of)]
Keep(r) == ~req[r].close

Read(r, q, place) ==
    /\ Consume(r, 1) /\ req' = [req EXCEPT ![r] = q] /\ Goto(r, place)
    /\ UNCHANGED <<pool, sock, ran, clears, drops>>

\* Faulty: a body with a length is read to the end of the connection.
ReadDataOn(r) == Data(r) /\ Read(r, WithData(r), "body")

\* Data serves a length, also one that tells of no body; otherwise more is read.
ReadData(r) ==
    /\ Data(r)
    /\ IF req[r].head \in {"length", "bodiless"} THEN Complete(r, WithData(r), 1, Keep(r)) ELSE Read(r, WithData(r), "body")

\* Faulty: a connection that ends inside the body ends the body.
BodyCutShort(r) == Cut(r) /\ Complete(r, req[r], 0, FALSE)

\* The end of the connection is the end of a body that has neither length nor chunks.
BodyCut(r) ==
    /\ Cut(r)
    /\ IF req[r].head = "eof" /\ peer[sock[r]] = "fin" THEN Complete(r, req[r], 0, FALSE) ELSE Failed(r, TRUE)

(* A body without a length is read to the end of the connection if there   *)
(* is a Connection: close, and is taken to be empty otherwise.  What does  *)
(* not parse as a chunk size ends the request.                             *)
ReadBody(r) ==
    /\ at[r] = "body"
    /\ \/ req[r].head # "bare" /\ (ReadData(r) \/ BodyCut(r))
       \/ req[r].head = "bare" /\ Complete(r, req[r], 0, Keep(r))
       \/ /\ req[r].head = "chunked" /\ Arrived(r)
          /\ \/ Part(r).part = "last" /\ Read(r, req[r], "trailers")
             \/ Failed(r, FALSE)

\* The lines after the last chunk; when they do not come the body is complete all the same.
ReadTrailers(r) ==
    /\ at[r] = "trailers"
    /\ \/ Arrived(r) /\ Complete(r, req[r], 1, Keep(r))
       \/ Cut(r) /\ Complete(r, req[r], 0, FALSE)

-----------------------------------------------------------------------------
\* The servers.
Piece(id, part) == [of |-> id, part |-> part, framing |-> "none", close |-> FALSE, to |-> "here"]

\* A network may deliver the beginning of a head and not the rest.
Response(id, framing, close, to) ==
    <<Piece(id, "line"), [of |-> id, part |-> "head", framing |-> framing, close |-> close, to |-> to]>>
    \o (IF framing = "bodiless" THEN <<>> ELSE <<Piece(id, "data")>>)
    \o (IF framing = "chunked" THEN <<Piece(id, "last"), Piece(id, "crlf")>> ELSE <<>>)
    \o (IF close \/ framing = "bare" THEN <<Piece(id, "fin")>> ELSE <<>>)

Targets(r) == {"here"} \cup IF r \in Redirected THEN Host ELSE {}

\* A server carries out the oldest request and makes up its answer.
Serve(s) ==
    /\ peer[s] = "up" /\ plan[s] = <<>> /\ inbox[s] # <<>>
    /\ LET id == Head(inbox[s]) IN
       /\ \E framing \in Framings[id[1]], close \in BOOLEAN, to \in Targets(id[1]) :
             /\ Consistent(framing, close)
             /\ plan' = [plan EXCEPT ![s] = Response(id, framing, close, to)]
       /\ ran' = [ran EXCEPT ![id[1]] = @ + 1]
    /\ inbox' = [inbox EXCEPT ![s] = Tail(@)]
    /\ UNCHANGED <<pool, at, sock, req, wire, peer, end, clears, drops>>

Emit(s) ==
    /\ plan[s] # <<>>
    /\ plan' = [plan EXCEPT ![s] = Tail(@)]
    /\ IF Head(plan[s]).part = "fin"
       THEN peer' = [peer EXCEPT ![s] = "fin"] /\ inbox' = [inbox EXCEPT ![s] = <<>>] /\ UNCHANGED wire
       ELSE wire' = [wire EXCEPT ![s] = Append(@, Head(plan[s]))] /\ UNCHANGED <<peer, inbox>>
    /\ UNCHANGED <<pool, at, sock, req, end, ran, clears, drops>>

\* A server lets go: an idle timeout, a crash; a reset loses what had arrived as well.
Drop(s) ==
    /\ peer[s] = "up" /\ drops < MaxDrops
    /\ drops' = drops + 1
    /\ \E how \in {"fin", "rst"} :
          /\ peer' = [peer EXCEPT ![s] = how]
          /\ wire' = IF how = "rst" THEN [wire EXCEPT ![s] = <<>>] ELSE wire
    /\ plan' = [plan EXCEPT ![s] = <<>>] /\ inbox' = [inbox EXCEPT ![s] = <<>>]
    /\ UNCHANGED <<pool, at, sock, req, end, ran, clears>>

-----------------------------------------------------------------------------
Step(r) ==
    \/ Pop(r) \/ Check(r) \/ Connect(r) \/ Send(r)
    \/ ReadHead(r) \/ ReadBody(r) \/ ReadTrailers(r)

Next ==
    \/ \E r \in Request : Begin(r) \/ Step(r)
    \/ \E s \in Socket : Serve(s) \/ Emit(s) \/ Drop(s)
    \/ ClearPool

Spec == Init /\ [][Next]_vars

-----------------------------------------------------------------------------
TypeOK ==
    /\ pool \in [Host -> Seq(Socket)]
    /\ at \in [Request -> Places] /\ sock \in [Request -> Socket \cup {NoSocket}]
    /\ peer \in [Socket -> {"up", "fin", "rst"}]

(* A connection belongs to one request or stands once in the pool of one   *)
(* host, whoever pops, checks, returns and clears at the same time         *)
(* (acquire, return_connection and clear).                                 *)
OneUser ==
    /\ \A r1, r2 \in Request : r1 # r2 /\ sock[r1] # NoSocket => sock[r1] # sock[r2]
    /\ \A h1, h2 \in Host : \A i \in DOMAIN pool[h1], j \in DOMAIN pool[h2] :
          pool[h1][i] = pool[h2][j] => h1 = h2 /\ i = j
    /\ \A r \in Request : sock[r] \notin Pooled

(* The response a caller gets answers the request as it sent it last, and  *)
(* it is whole: nothing an earlier user left on the connection, nothing    *)
(* missing (perform_sync_request_attempt, parse_and_read_body).  Only a    *)
(* body that ends with its connection may be cut without a trace.          *)
ResponseIsOwn ==
    \A r \in Request : at[r] = "ok" =>
        /\ \A i \in DOMAIN req[r].body : req[r].body[i] = <<r, req[r].sent>>
        /\ req[r].head = "eof" \/ Len(req[r].body) = 2

(* A server carries a request out a second time only if its method is      *)
(* idempotent, never once the head of its answer was read, and never a     *)
(* third time (perform_sync_exchange, perform_async_exchange).             *)
NotRepeated ==
    [][\A r \in Request : ran'[r] > ran[r] =>
        ~req[r].started /\ (ran[r] = 0 \/ (ran[r] = 1 /\ req[r].safe))]_vars

(* The Authorization header travels to the origin the caller sent it to    *)
(* and to no other, over new and pooled connections, and what a redirect   *)
(* dropped does not come back with one that leads home (apply_redirect,    *)
(* acquire).                                                               *)
CredentialsStayHome ==
    \A r \in Request : at[r] \in {"send", "head", "body", "trailers"} /\ req[r].auth =>
        end[sock[r]] = req[r].home /\ ~req[r].away

(* No request waits for bytes that nobody is going to send: while one      *)
(* waits, its server still has its request or a part of an answer, or has  *)
(* hung up, which the read notices.  There is no timeout to help.  The     *)
(* body of an answer that has none is waited for all the same              *)
(* (read_response, parse_and_read_body, async_read_chunked_body,           *)
(* async_consume_trailers).                                                *)
Waiting(r) ==
    \/ at[r] = "head" /\ ~Headed(r) /\ ~OutOfStep(r)
    \/ at[r] \in {"body", "trailers"} /\ wire[sock[r]] = <<>>
InVain(r) == LET s == sock[r] IN Waiting(r) /\ peer[s] = "up" /\ inbox[s] = <<>> /\ plan[s] = <<>>
NoVainWait == \A r \in Request : InVain(r) => at[r] = "body" /\ req[r].head = "bodiless"

-----------------------------------------------------------------------------
(* What the documentation says beyond that, and the code does not do.      *)

(* An answer without a body is complete with its head                      *)
(* (parse_and_read_body).                                                  *)
NobodyWaitsForNoBody == \A r \in Request : ~InVain(r)

(* Nothing is sent again once a byte of its answer has arrived             *)
(* (perform_async_exchange).                                               *)
RetriedUnanswered ==
    [][\A r \in Request : ~req[r].retried /\ req'[r].retried => wire[sock[r]] = <<>>]_vars
=============================================================================
