-------------------------- MODULE HttpClientProofs --------------------------
(***************************************************************************)
(* What is proved of the requests of an http_client for any requests,      *)
(* hosts and connections, any size of the pools, any number of redirects,  *)
(* clear()s and dropped connections.  Who has which connection and where   *)
(* the credentials go is proved for any answers.  What a request reads and *)
(* how often it is carried out is proved for servers that say where their  *)
(* answers end: what is left of one that does not can pass for another.    *)
(***************************************************************************)
EXTENDS HttpClient, FiniteSetTheorems, SequenceTheorems, TLAPS

(* No answer leaves its body to run to the end of the connection without   *)
(* saying so.                                                              *)
Framed == \A r \in Request : "bare" \notin Framings[r]

Ids == Request \X Nat

Knowledge ==
    [host : Host, home : Host, away : BOOLEAN, safe : BOOLEAN, auth : BOOLEAN, started : BOOLEAN, retried : BOOLEAN,
     hops : Nat, sent : Nat, head : AllFramings \cup {"none"}, close : BOOLEAN, to : Host \cup {"here"},
     body : Seq(Ids)]

Parts ==
    [of : Ids, part : {"line", "head", "data", "last", "crlf", "fin"}, framing : AllFramings \cup {"none"},
     close : BOOLEAN, to : Host \cup {"here"}]

NetworkTypes ==
    /\ wire \in [Socket -> Seq(Parts)] /\ plan \in [Socket -> Seq(Parts)] /\ inbox \in [Socket -> Seq(Ids)]
    /\ peer \in [Socket -> {"up", "fin", "rst"}] /\ end \in [Socket -> Host \cup {"none"}]

Types == TypeOK /\ NetworkTypes /\ req \in [Request -> Knowledge] /\ ran \in [Request -> Nat]

-----------------------------------------------------------------------------
(* Segments of sequences: what was sent, what has arrived and what was     *)
(* read are segments of the same answer.                                   *)

\* A second element.
LEMMA AppendToOne ==
  ASSUME NEW x, NEW y
  PROVE  Append(<<x>>, y) = <<x, y>>
<1>1. <<x>> \in Seq({x, y}) /\ <<x, y>> \in Seq({x, y}) /\ Len(<<x>>) = 1 /\ Len(<<x, y>>) = 2
  OBVIOUS
<1> DEFINE a == Append(<<x>>, y)
<1>2. /\ a \in Seq({x, y}) /\ Len(a) = Len(<<x>>) + 1 /\ a[Len(<<x>>) + 1] = y
      /\ \A i \in 1..Len(<<x>>) : a[i] = <<x>>[i]
  BY <1>1, AppendProperties
<1>3. a[1] = x /\ a[2] = y /\ Len(a) = 2
  BY <1>1, <1>2
<1> HIDE DEF a
<1>4. a = <<x, y>>
  <2>1. \A i \in 1..2 : i = 1 \/ i = 2
    OBVIOUS
  <2>2. \A i \in 1..Len(a) : a[i] = <<x, y>>[i]
    BY <1>3, <2>1
  <2> QED
    BY <1>1, <1>2, <1>3, <2>2, SeqEqual
<1> QED
  BY <1>4 DEF a

\* The elements of R after the i-th up to the j-th, R a sequence over S.
IsSegment(S, R, i, j, w) == R \in Seq(S) /\ i \in 0..Len(R) /\ j \in i..Len(R) /\ w = SubSeq(R, i + 1, j)

\* How many they are, and which.
LEMMA SegmentParts ==
  ASSUME NEW S, NEW R, NEW i, NEW j, NEW w, IsSegment(S, R, i, j, w)
  PROVE  /\ Len(R) \in Nat /\ i \in Nat /\ j \in Nat /\ i <= j /\ j <= Len(R)
         /\ w \in Seq(S) /\ Len(w) = j - i /\ \A k \in 1..Len(w) : w[k] = R[i + k]
<1>0. Len(R) \in Nat /\ i \in Nat /\ j \in Nat /\ i <= j /\ j <= Len(R)
  BY LenProperties DEF IsSegment
<1>1. \A k \in (i + 1)..(j + 1) : k <= Len(R) => R[k] \in S
  BY <1>0, ElementOfSeq DEF IsSegment
<1>2. /\ w \in Seq(S) /\ Len(w) = j - i
      /\ \A k \in 1..(j - i) : w[k] = R[i + k]
  <2>1. \A k \in (i + 1)..j : R[k] \in S
    BY <1>0, <1>1
  <2>2. /\ w \in Seq(S) /\ Len(w) = (IF i + 1 <= j THEN j - (i + 1) + 1 ELSE 0)
        /\ \A k \in 1..(j - (i + 1) + 1) : w[k] = R[(i + 1) + k - 1]
    BY <1>0, <2>1, SubSeqProperties DEF IsSegment
  <2>3. j - (i + 1) + 1 = j - i /\ \A k \in 1..(j - i) : (i + 1) + k - 1 = i + k
    BY <1>0
  <2> QED
    BY <1>0, <2>2, <2>3
<1> QED
  BY <1>0, <1>2

\* Which is first, and what a further one or the loss of some makes of it.
LEMMA Segment ==
  ASSUME NEW S, NEW R \in Seq(S), NEW i \in 0..Len(R), NEW j \in i..Len(R),
         NEW w, w = SubSeq(R, i + 1, j)
  PROVE  /\ Len(w) = j - i /\ (i = j => w = <<>>) /\ (w # <<>> => i < j)
         /\ i < j => w[1] = R[i + 1] /\ Head(w) = R[i + 1] /\ Tail(w) = SubSeq(R, i + 2, j)
         /\ j < Len(R) => Append(w, R[j + 1]) = SubSeq(R, i + 1, j + 1)
         /\ \A m \in 0..Len(w) : SubSeq(w, m + 1, Len(w)) = SubSeq(R, i + m + 1, j)
<1>0. IsSegment(S, R, i, j, w)
  BY DEF IsSegment
<1>1. /\ Len(R) \in Nat /\ i \in Nat /\ j \in Nat /\ i <= j /\ j <= Len(R)
      /\ w \in Seq(S) /\ Len(w) = j - i
  BY <1>0, SegmentParts
<1>2. \A k \in 1..Len(w) : w[k] = R[i + k]
  BY <1>0, SegmentParts
<1>3. (i = j => w = <<>>) /\ (w # <<>> => i < j)
  BY <1>1, EmptySeq
<1>4. ASSUME i < j
      PROVE  w[1] = R[i + 1] /\ Head(w) = R[i + 1] /\ Tail(w) = SubSeq(R, i + 2, j)
  <2>1. i + 1 \in 1..Len(R) /\ j \in (i + 1)..Len(R)
    BY <1>1, <1>4
  <2>2. Head(w) = R[i + 1] /\ Tail(w) = SubSeq(R, (i + 1) + 1, j)
    BY <2>1, HeadTailOfSubSeq
  <2>3. w[1] = R[i + 1]
    BY <1>1, <1>2, <1>4
  <2>4. (i + 1) + 1 = i + 2
    BY <1>1
  <2> QED
    BY <2>2, <2>3, <2>4
<1>5. ASSUME j < Len(R)
      PROVE  Append(w, R[j + 1]) = SubSeq(R, i + 1, j + 1)
  <2>1. i + 1 \in 1..Len(R) /\ j + 1 \in (i + 1)..Len(R) /\ R[j + 1] \in S
    BY <1>1, <1>5, ElementOfSeq
  <2>2. SubSeq(R, i + 1, j + 1) = SubSeq(R, i + 1, (j + 1) - 1) \o <<R[j + 1]>>
    BY <2>1, SubSeqRecursiveSecond
  <2>3. (j + 1) - 1 = j
    BY <1>1
  <2> QED
    BY <1>2, <2>1, <2>2, <2>3, AppendIsConcat
<1>6. ASSUME NEW m \in 0..Len(w)
      PROVE  SubSeq(w, m + 1, Len(w)) = SubSeq(R, i + m + 1, j)
  <2>1. CASE m = Len(w)
    <3>1. SubSeq(w, m + 1, Len(w)) = <<>> /\ SubSeq(R, i + m + 1, j) = <<>>
      BY <1>1, <1>2, <2>1, SubSeqEmpty
    <3> QED
      BY <3>1
  <2>2. CASE m # Len(w)
    <3>1. /\ i + 1 \in 1..Len(R) /\ j \in 1..Len(R)
          /\ m + 1 \in 1..(j - (i + 1) + 1) /\ Len(w) \in 1..(j - (i + 1) + 1)
      BY <1>1, <1>2, <2>2
    <3>2. SubSeq(w, m + 1, Len(w)) = SubSeq(R, (i + 1) + (m + 1) - 1, (i + 1) + Len(w) - 1)
      BY <3>1, SubSeqOfSubSeq
    <3>3. (i + 1) + (m + 1) - 1 = i + m + 1 /\ (i + 1) + Len(w) - 1 = j
      BY <1>1, <1>2
    <3> QED
      BY <3>2, <3>3
  <2> QED
    BY <2>1, <2>2
<1> QED
  BY <1>1, <1>3, <1>4, <1>5, <1>6

\* What is left of a segment after its first n elements.
LEMMA SegmentRest ==
  ASSUME NEW S, NEW R, NEW i, NEW j, NEW w, IsSegment(S, R, i, j, w), NEW n \in 0..Len(w)
  PROVE  IsSegment(S, R, i + n, j, SubSeq(w, n + 1, Len(w)))
<1>1. R \in Seq(S) /\ i \in 0..Len(R) /\ j \in i..Len(R) /\ w = SubSeq(R, i + 1, j)
  BY DEF IsSegment
<1>2. Len(R) \in Nat /\ i \in Nat /\ j \in Nat /\ i <= j /\ j <= Len(R) /\ Len(w) = j - i
  BY SegmentParts
<1>3. SubSeq(w, n + 1, Len(w)) = SubSeq(R, i + n + 1, j)
  BY <1>1, Segment
<1>4. i + n \in 0..Len(R) /\ j \in (i + n)..Len(R)
  BY <1>2
<1> QED
  BY <1>1, <1>3, <1>4 DEF IsSegment

-----------------------------------------------------------------------------
(* The connections.                                                        *)

Resting == {"idle", "acquire", "ok", "failed"}

\* A request holds a connection from acquire() until it gives it up.
Holding == \A r \in Request : sock[r] = NoSocket <=> at[r] \in Resting

PoolsAreShort == \A h \in Host : Len(pool[h]) <= MaxPerHost

\* Nothing is on its way on a connection that is closed.
Silent(s) == wire[s] = <<>> /\ inbox[s] = <<>> /\ plan[s] = <<>> /\ peer[s] = "fin"

(* Nothing is left of an earlier answer on a connection that is used       *)
(* again, neither arrived nor to come.                                     *)
Quiet(s) == wire[s] = <<>> /\ plan[s] = <<>>

Reusable(s) == Quiet(s) /\ inbox[s] = <<>>

Id(r) == <<r, req[r].sent>>

\* The parts of the answer that r has read.
Taken(r) == IF at[r] = "head" THEN 0 ELSE IF at[r] = "trailers" THEN 4 ELSE Len(req[r].body) + 1

Answer(r, f, c, t) == Response(Id(r), f, c, t)

\* The server has the request, or has hung up.
Asked(r) ==
    LET s == sock[r] IN
    Quiet(s) /\ inbox[s] = IF peer[s] = "up" THEN <<Id(r)>> ELSE <<>>

\* Of the answer, the first Taken(r) parts were read, those up to j have arrived.
Arriving(r, f, c, t, j) ==
    LET s == sock[r]
        R == Answer(r, f, c, t) IN
    /\ wire[s] = SubSeq(R, Taken(r) + 1, j)
    /\ plan[s] = IF peer[s] = "up" THEN SubSeq(R, j + 1, Len(R)) ELSE <<>>
    /\ inbox[s] = <<>>
    /\ j > 0 => R[j].part # "fin"

\* What r has read of the answer is what it knows of it.
Understood(r, f, c, t) ==
    at[r] # "head" =>
        /\ req[r].head = f /\ req[r].close = c /\ req[r].to = t
        /\ \/ at[r] = "body" /\ req[r].body = <<Id(r)>>
           \/ at[r] = "body" /\ req[r].body = <<Id(r), Id(r)>> /\ f \in {"chunked", "eof"}
           \/ at[r] = "trailers" /\ req[r].body = <<Id(r), Id(r)>> /\ f = "chunked"

Possible(r, f, c, t) == f \in Framings[r] /\ f # "bare" /\ c \in BOOLEAN /\ t \in Targets(r) /\ Consistent(f, c)

Answering(r) ==
    \E f \in AllFramings, c \in BOOLEAN, t \in Targets(r) :
        /\ Possible(r, f, c, t) /\ Understood(r, f, c, t)
        /\ \E j \in Taken(r)..Len(Answer(r, f, c, t)) : Arriving(r, f, c, t, j)

\* What is on the connection of a request, by where the request is.
Exchange(r) ==
    /\ at[r] = "connect" => Silent(sock[r])
    /\ at[r] \in {"check", "send"} => Reusable(sock[r])
    /\ at[r] = "head" => Asked(r) \/ Answering(r)
    /\ at[r] \in {"body", "trailers"} => Answering(r)

\* How often the present hop was carried out: once for each time it was sent.
Attempts(r) ==
    LET k == IF req[r].retried THEN 1 ELSE 0 IN
    /\ req[r].retried => req[r].safe
    /\ at[r] \in {"idle", "acquire", "check", "connect", "send", "head"} => ~req[r].started
    /\ at[r] \in {"body", "trailers"} => req[r].started
    /\ at[r] \in {"idle", "acquire", "check", "connect", "send"} => ran[r] <= k
    /\ at[r] = "head" => ran[r] <= k + 1 /\ (inbox[sock[r]] # <<>> => ran[r] <= k)

\* Credentials that were not dropped are those of a request that never left home.
Credentials(r) == req[r].auth => req[r].host = req[r].home /\ ~req[r].away

\* A connection leads to the host that the request is for.
Connected(r) == at[r] \in {"check", "send", "head", "body", "trailers"} => end[sock[r]] = req[r].host

\* A response that was delivered is whole unless nothing says where it ends.
Delivered(r) ==
    at[r] = "ok" =>
        /\ \A i \in DOMAIN req[r].body : req[r].body[i] = Id(r)
        /\ req[r].head = "eof" \/ Len(req[r].body) = 2

RequestOK(r) ==
    /\ Credentials(r) /\ Connected(r)
    /\ Framed => Exchange(r) /\ Attempts(r) /\ Delivered(r)

\* A connection is pooled under the host that it leads to.
PooledByHost == \A h \in Host : \A i \in DOMAIN pool[h] : end[pool[h][i]] = h

Inv ==
    /\ Types /\ Holding /\ OneUser /\ PoolsAreShort /\ PooledByHost
    /\ \A r \in Request : RequestOK(r)
    /\ Framed => \A s \in Pooled : Reusable(s)
    /\ \A s \in Unused : Silent(s)

-----------------------------------------------------------------------------
(* Parts of a response.                                                    *)

HeadPart(id, f, c, t) == [of |-> id, part |-> "head", framing |-> f, close |-> c, to |-> t]

PartsOf(id, f, c, t) == {HeadPart(id, f, c, t)} \cup {Piece(id, p) : p \in {"line", "data", "last", "crlf", "fin"}}

Size(f, c) ==
    (IF f = "bodiless" THEN 2 ELSE IF f = "chunked" THEN 5 ELSE 3) + (IF c \/ f = "bare" THEN 1 ELSE 0)

Shape(R, id, f, c, t) ==
    /\ R \in Seq(PartsOf(id, f, c, t)) /\ Len(R) = Size(f, c)
    /\ R[1] = Piece(id, "line") /\ R[2] = HeadPart(id, f, c, t)
    /\ f # "bodiless" => R[3] = Piece(id, "data")
    /\ f = "chunked" => R[4] = Piece(id, "last") /\ R[5] = Piece(id, "crlf")
    /\ c \/ f = "bare" => R[Len(R)] = Piece(id, "fin")

\* The elements of two sequences, one after the other.
LEMMA Joined ==
  ASSUME NEW S, NEW x \in Seq(S), NEW y \in Seq(S)
  PROVE  /\ (x \o y) \in Seq(S) /\ Len(x \o y) = Len(x) + Len(y) /\ Len(x) \in Nat /\ Len(y) \in Nat
         /\ \A i \in 1..Len(x) : (x \o y)[i] = x[i]
         /\ \A i \in 1..Len(y) : (x \o y)[Len(x) + i] = y[i]
<1>1. /\ (x \o y) \in Seq(S) /\ Len(x \o y) = Len(x) + Len(y)
      /\ \A i \in 1..(Len(x) + Len(y)) : (x \o y)[i] = IF i <= Len(x) THEN x[i] ELSE y[i - Len(x)]
  BY ConcatProperties
<1>2. Len(x) \in Nat /\ Len(y) \in Nat
  BY LenProperties
<1>3. ASSUME NEW i \in 1..Len(y) PROVE (x \o y)[Len(x) + i] = y[i]
  <2>1. Len(x) + i \in 1..(Len(x) + Len(y)) /\ ~(Len(x) + i <= Len(x)) /\ Len(x) + i - Len(x) = i
    BY <1>2
  <2> QED
    BY <1>1, <2>1
<1> QED
  BY <1>1, <1>2, <1>3

\* What a response consists of, whatever its framing.
LEMMA ResponseShape ==
  ASSUME NEW id, NEW f, NEW c \in BOOLEAN, NEW t
  PROVE  Shape(Response(id, f, c, t), id, f, c, t)
<1> DEFINE S == PartsOf(id, f, c, t)
           A == <<Piece(id, "line"), HeadPart(id, f, c, t)>>
           D == IF f = "bodiless" THEN <<>> ELSE <<Piece(id, "data")>>
           B == IF f = "chunked" THEN <<Piece(id, "last"), Piece(id, "crlf")>> ELSE <<>>
           C == IF c \/ f = "bare" THEN <<Piece(id, "fin")>> ELSE <<>>
<1>1. Response(id, f, c, t) = A \o D \o B \o C
  BY DEF Response, HeadPart
<1>2. /\ HeadPart(id, f, c, t) \in S /\ Piece(id, "line") \in S /\ Piece(id, "data") \in S
      /\ Piece(id, "last") \in S /\ Piece(id, "crlf") \in S /\ Piece(id, "fin") \in S
  BY DEF PartsOf
<1>3. A \in Seq(S) /\ Len(A) = 2 /\ A[1] = Piece(id, "line") /\ A[2] = HeadPart(id, f, c, t)
  BY <1>2
<1>4. D \in Seq(S) /\ Len(D) = (IF f = "bodiless" THEN 0 ELSE 1) /\ (f # "bodiless" => D[1] = Piece(id, "data"))
  <2>1. CASE f = "bodiless"
    BY <2>1
  <2>2. CASE f # "bodiless"
    BY <1>2, <2>2
  <2> QED
    BY <2>1, <2>2
<1>5. /\ B \in Seq(S) /\ Len(B) = (IF f = "chunked" THEN 2 ELSE 0)
      /\ f = "chunked" => B[1] = Piece(id, "last") /\ B[2] = Piece(id, "crlf")
  <2>1. CASE f = "chunked"
    BY <1>2, <2>1
  <2>2. CASE f # "chunked"
    BY <2>2
  <2> QED
    BY <2>1, <2>2
<1>6. C \in Seq(S) /\ Len(C) = (IF c \/ f = "bare" THEN 1 ELSE 0) /\ (c \/ f = "bare" => C[1] = Piece(id, "fin"))
  <2>1. CASE c \/ f = "bare"
    <3>1. C = <<Piece(id, "fin")>>
      BY <2>1
    <3> HIDE DEF C, S
    <3> QED
      BY <1>2, <2>1, <3>1
  <2>2. CASE ~(c \/ f = "bare")
    BY <2>2
  <2> QED
    BY <2>1, <2>2
<1>7. PICK z, y, x : z = x \o C /\ x = y \o B /\ y = A \o D
  OBVIOUS
<1>8. z = Response(id, f, c, t)
  BY <1>1, <1>7
<1>a. A \in Seq(S) /\ B \in Seq(S) /\ C \in Seq(S) /\ D \in Seq(S)
  BY <1>3, <1>4, <1>5, <1>6
<1> HIDE DEF A, B, C, D, S
<1>9. /\ y \in Seq(S) /\ Len(y) = 2 + Len(D)
      /\ y[1] = A[1] /\ y[2] = A[2] /\ (f # "bodiless" => y[3] = D[1])
  <2>1. y \in Seq(S) /\ Len(y) = Len(A) + Len(D)
    BY <1>7, <1>a, Joined
  <2>2. \A i \in 1..Len(A) : y[i] = A[i]
    BY <1>7, <1>a, Joined
  <2>3. \A i \in 1..Len(D) : y[Len(A) + i] = D[i]
    BY <1>7, <1>a, Joined
  <2> QED
    BY <1>3, <1>4, <2>1, <2>2, <2>3
<1>10. /\ x \in Seq(S) /\ Len(x) = Len(y) + Len(B)
       /\ x[1] = A[1] /\ x[2] = A[2] /\ (f # "bodiless" => x[3] = D[1])
       /\ f = "chunked" => x[4] = B[1] /\ x[5] = B[2]
  <2>0. y \in Seq(S)
    BY <1>9
  <2>1. x \in Seq(S) /\ Len(x) = Len(y) + Len(B)
    BY <1>7, <1>a, <2>0, Joined
  <2>2. \A i \in 1..Len(y) : x[i] = y[i]
    BY <1>7, <1>a, <2>0, Joined
  <2>3. \A i \in 1..Len(B) : x[Len(y) + i] = B[i]
    BY <1>7, <1>a, <2>0, Joined
  <2> QED
    BY <1>4, <1>5, <1>9, <2>1, <2>2, <2>3
<1>11. /\ z \in Seq(S) /\ Len(z) = Len(x) + Len(C)
       /\ z[1] = A[1] /\ z[2] = A[2] /\ (f # "bodiless" => z[3] = D[1])
       /\ f = "chunked" => z[4] = B[1] /\ z[5] = B[2]
       /\ c \/ f = "bare" => z[Len(z)] = C[1]
  <2>0. x \in Seq(S)
    BY <1>10
  <2>1. z \in Seq(S) /\ Len(z) = Len(x) + Len(C)
    BY <1>7, <1>a, <2>0, Joined
  <2>2. \A i \in 1..Len(x) : z[i] = x[i]
    BY <1>7, <1>a, <2>0, Joined
  <2>3. \A i \in 1..Len(C) : z[Len(x) + i] = C[i]
    BY <1>7, <1>a, <2>0, Joined
  <2> QED
    BY <1>4, <1>5, <1>6, <1>9, <1>10, <2>1, <2>2, <2>3
<1>12. Len(z) = Size(f, c)
  BY <1>4, <1>5, <1>6, <1>9, <1>10, <1>11 DEF Size
<1> QED
  BY <1>3, <1>4, <1>5, <1>6, <1>8, <1>11, <1>12 DEF Shape, S

-----------------------------------------------------------------------------
(* The connections and who has them.                                       *)

\* A pool is a sequence of connections, and what is pooled stands in one of them.
LEMMA PoolMembers ==
  ASSUME Inv
  PROVE  /\ \A h \in Host : pool[h] \in Seq(Socket) /\ Len(pool[h]) \in Nat /\ DOMAIN pool[h] = 1..Len(pool[h])
         /\ \A s : s \in Pooled <=> \E h \in Host : \E i \in 1..Len(pool[h]) : s = pool[h][i]
         /\ Pooled \subseteq Socket
<1>1. \A h \in Host : pool[h] \in Seq(Socket) /\ Len(pool[h]) \in Nat /\ DOMAIN pool[h] = 1..Len(pool[h])
  BY LenProperties DEF Inv, Types, TypeOK
<1>2. \A s : s \in Pooled <=> \E h \in Host : \E i \in 1..Len(pool[h]) : s = pool[h][i]
  BY <1>1 DEF Pooled, ToSet
<1>3. \A h \in Host : \A i \in 1..Len(pool[h]) : pool[h][i] \in Socket
  BY <1>1, ElementOfSeq
<1> QED
  BY <1>1, <1>2, <1>3

\* What stands in the pool of a host is pooled.
LEMMA InPool ==
  ASSUME NEW h \in Host, NEW i \in DOMAIN pool[h]
  PROVE  pool[h][i] \in Pooled
BY DEF Pooled, ToSet

\* A request that wants a connection finds a slot for it.
LEMMA SlotsSuffice ==
  ASSUME Inv, NEW r \in Request, sock[r] = NoSocket
  PROVE  (CHOOSE s \in Unused : TRUE) \in Unused
<1> DEFINE Others == Request \ {r}
           Held == {sock[q] : q \in Others}
           Slots == Host \X (1..MaxPerHost)
<1>1. MaxPerHost \in Nat /\ Cardinality(Host) \in Nat /\ Cardinality(Request) \in Nat /\ Cardinality(Socket) \in Nat
  BY SlotsAssumption, BoundsAssumption, FS_CardinalityType
<1>2. IsFiniteSet(Others) /\ Cardinality(Others) = Cardinality(Request) - 1
  BY SlotsAssumption, FS_RemoveElement
<1>3. IsFiniteSet(Held) /\ Cardinality(Held) <= Cardinality(Request) - 1
  <2> DEFINE f == [q \in Others |-> sock[q]]
  <2>1. f \in Surjection(Others, Held)
    BY DEF Surjection
  <2> HIDE DEF f, Held, Others
  <2>2. IsFiniteSet(Held) /\ Cardinality(Held) <= Cardinality(Others)
    BY <1>2, <2>1, FS_Surjection
  <2> QED
    BY <1>1, <1>2, <2>2, FS_CardinalityType
<1>4. IsFiniteSet(Slots) /\ Cardinality(Slots) = Cardinality(Host) * MaxPerHost
  <2>1. IsFiniteSet(1..MaxPerHost) /\ Cardinality(1..MaxPerHost) = MaxPerHost
    <3>1. 1 \in Int /\ MaxPerHost \in Int
      BY <1>1
    <3>2. /\ IsFiniteSet(1..MaxPerHost)
          /\ Cardinality(1..MaxPerHost) = IF 1 > MaxPerHost THEN 0 ELSE MaxPerHost - 1 + 1
      BY <3>1, FS_Interval
    <3> QED
      BY <1>1, <3>2
  <2> QED
    BY <2>1, SlotsAssumption, FS_Product
<1>5. IsFiniteSet(Pooled) /\ Cardinality(Pooled) <= Cardinality(Host) * MaxPerHost
  <2>1. CASE Pooled = {}
    BY <1>1, <1>4, <2>1, FS_EmptySet, FS_CardinalityType
  <2>2. CASE Pooled # {}
    <3>1. PICK p \in Pooled : TRUE
      BY <2>2
    <3> DEFINE g == [x \in Slots |-> IF x[2] \in 1..Len(pool[x[1]]) THEN pool[x[1]][x[2]] ELSE p]
    <3>2. \A x \in Slots : g[x] \in Pooled
      BY PoolMembers
    <3>3. \A h \in Host : Len(pool[h]) <= MaxPerHost
      BY DEF Inv, PoolsAreShort
    <3>4. ASSUME NEW s \in Pooled
          PROVE  \E x \in Slots : g[x] = s
      <4>1. PICK h \in Host : \E i \in 1..Len(pool[h]) : s = pool[h][i]
        BY PoolMembers
      <4>4. PICK i \in 1..Len(pool[h]) : s = pool[h][i]
        BY <4>1
      <4>2. Len(pool[h]) \in Nat
        BY PoolMembers
      <4>3. <<h, i>> \in Slots /\ g[<<h, i>>] = s
        BY <1>1, <3>3, <4>4, <4>2
      <4> QED
        BY <4>3
    <3>5. g \in Surjection(Slots, Pooled)
      BY <3>2, <3>4 DEF Surjection
    <3> QED
      BY <1>4, <3>5, FS_Surjection
  <2> QED
    BY <2>1, <2>2
<1>6. IsFiniteSet(Pooled \cup Held) /\ Cardinality(Pooled \cup Held) < Cardinality(Socket)
  <2>1. /\ IsFiniteSet(Pooled \cup Held) /\ IsFiniteSet(Pooled \cap Held)
        /\ Cardinality(Pooled \cup Held) = Cardinality(Pooled) + Cardinality(Held) - Cardinality(Pooled \cap Held)
    BY <1>3, <1>5, FS_Union, FS_Intersection
  <2>2. Cardinality(Pooled \cap Held) \in Nat /\ Cardinality(Pooled) \in Nat /\ Cardinality(Held) \in Nat
    BY <1>3, <1>5, <2>1, FS_CardinalityType
  <2> DEFINE n == Cardinality(Host) * MaxPerHost
  <2>3. n \in Nat /\ n + Cardinality(Request) <= Cardinality(Socket) /\ Cardinality(Pooled) <= n
    BY <1>1, <1>5, SlotsAssumption
  <2> HIDE DEF n, Held
  <2> QED
    BY <1>1, <1>3, <2>1, <2>2, <2>3
<1>7. Unused # {}
  <2> SUFFICES ASSUME Unused = {} PROVE FALSE
    OBVIOUS
  <2>1. Socket \subseteq Pooled \cup Held
    BY NoSocketAssumption DEF Unused
  <2>2. Cardinality(Socket) <= Cardinality(Pooled \cup Held)
    BY <1>6, <2>1, FS_Subset
  <2>3. Cardinality(Pooled \cup Held) \in Nat
    BY <1>6, FS_CardinalityType
  <2> QED
    BY <1>1, <1>6, <2>2, <2>3
<1> QED
  BY <1>7

\* A connection is a free slot, pooled, or held by a request on its way.
LEMMA WhoseSocket ==
  ASSUME Inv, NEW s \in Socket
  PROVE  s \in Unused \/ s \in Pooled \/ \E r \in Request : sock[r] = s /\ at[r] \notin Resting
BY NoSocketAssumption DEF Inv, Holding, Unused

-----------------------------------------------------------------------------
(* What a step leaves alone.                                               *)

SameConnection(s) ==
    wire'[s] = wire[s] /\ inbox'[s] = inbox[s] /\ plan'[s] = plan[s] /\ peer'[s] = peer[s] /\ end'[s] = end[s]

SameRequest(r) == at'[r] = at[r] /\ sock'[r] = sock[r] /\ req'[r] = req[r] /\ ran'[r] = ran[r]

\* A step of r: the other requests and the other connections stay as they are.
StepOf(r) ==
    /\ \A q \in Request : q # r => SameRequest(q)
    /\ \A s \in Socket : s # sock[r] => SameConnection(s)

\* What is said of a request and its connection holds as long as both stay the same.
LEMMA SameView ==
  ASSUME NEW r \in Request, RequestOK(r), SameRequest(r),
         at[r] \notin Resting => SameConnection(sock[r])
  PROVE  RequestOK(r)'
<1> USE DEF SameRequest, SameConnection
<1>1. Id(r)' = Id(r) /\ Taken(r)' = Taken(r)
  BY DEF Id, Taken
<1>2. Credentials(r)' /\ Connected(r)'
  BY DEF RequestOK, Credentials, Connected, Resting
<1>3. ASSUME Framed, at[r] \in Resting PROVE Exchange(r)' /\ Attempts(r)' /\ Delivered(r)'
  BY <1>1, <1>3 DEF RequestOK, Exchange, Attempts, Delivered, Resting
<1>4. ASSUME Framed, at[r] \notin Resting PROVE Exchange(r)' /\ Attempts(r)' /\ Delivered(r)'
  <2>1. ASSUME Answering(r) PROVE Answering(r)'
    <3>1. PICK f \in AllFramings, c \in BOOLEAN, t \in Targets(r) :
            /\ Possible(r, f, c, t) /\ Understood(r, f, c, t)
            /\ \E j \in Taken(r)..Len(Answer(r, f, c, t)) : Arriving(r, f, c, t, j)
      BY <2>1 DEF Answering
    <3>2. PICK j \in Taken(r)..Len(Answer(r, f, c, t)) : Arriving(r, f, c, t, j)
      BY <3>1
    <3>3. Answer(r, f, c, t)' = Answer(r, f, c, t)
      BY <1>1 DEF Answer
    <3>4. Possible(r, f, c, t)' /\ Understood(r, f, c, t)'
      BY <1>1, <3>1 DEF Possible, Understood
    <3>5. Arriving(r, f, c, t, j)'
      BY <1>1, <1>4, <3>2, <3>3 DEF Arriving
    <3> QED
      BY <1>1, <3>3, <3>4, <3>5 DEF Answering
  <2>2. ASSUME Quiet(sock[r]) PROVE Quiet(sock[r])'
    BY <1>4, <2>2 DEF Quiet
  <2>3. ASSUME Asked(r) PROVE Asked(r)'
    BY <1>1, <1>4, <2>2, <2>3 DEF Asked
  <2>4. ASSUME Reusable(sock[r]) PROVE Reusable(sock[r])'
    BY <1>4, <2>2, <2>4 DEF Reusable
  <2>5. ASSUME Silent(sock[r]) PROVE Silent(sock[r])'
    BY <1>4, <2>5 DEF Silent
  <2>6. Exchange(r)'
    BY <1>4, <2>1, <2>3, <2>4, <2>5 DEF RequestOK, Exchange
  <2>7. Attempts(r)' /\ Delivered(r)'
    BY <1>1, <1>4 DEF RequestOK, Attempts, Delivered
  <2> QED
    BY <2>6, <2>7
<1> QED
  BY <1>2, <1>3, <1>4 DEF RequestOK

\* The same of a connection that nobody uses.
LEMMA SameIdle ==
  ASSUME NEW s, SameConnection(s)
  PROVE  (Reusable(s) => Reusable(s)') /\ (Silent(s) => Silent(s)') /\ end'[s] = end[s]
BY DEF SameConnection, Reusable, Quiet, Silent

\* The others notice nothing of a step of r, since none of them has its connection.
LEMMA OthersKeep ==
  ASSUME Inv, NEW r \in Request, StepOf(r), NEW q \in Request, q # r
  PROVE  RequestOK(q)'
<1>1. RequestOK(q) /\ SameRequest(q)
  BY DEF Inv, StepOf
<1>2. ASSUME at[q] \notin Resting PROVE SameConnection(sock[q])
  <2>1. sock[q] # NoSocket /\ sock[q] \in Socket
    BY <1>2 DEF Inv, Holding, Types, TypeOK
  <2>2. sock[q] # sock[r]
    BY <2>1 DEF Inv, OneUser
  <2> QED
    BY <2>1, <2>2 DEF StepOf
<1> QED
  BY <1>1, <1>2, SameView

\* A step of a request on its own connection, which it keeps.
LEMMA PrivateStep ==
  ASSUME Inv, NEW r \in Request, StepOf(r), UNCHANGED <<pool, sock>>,
         at[r] \notin Resting, at'[r] \notin Resting, Types', RequestOK(r)'
  PROVE  Inv'
<1>1. \A q \in Request : RequestOK(q)'
  BY OthersKeep
<1>2. Pooled' = Pooled /\ Unused' = Unused
  BY DEF Pooled, Unused
<1>3. Holding' /\ OneUser' /\ PoolsAreShort'
  <2>1. \A q \in Request : q # r => at'[q] = at[q]
    BY DEF StepOf, SameRequest
  <2> QED
    BY <1>2, <2>1 DEF Inv, Holding, OneUser, PoolsAreShort
<1>4. \A s \in Pooled : s # sock[r] /\ s \in Socket /\ (Framed => Reusable(s))
  BY PoolMembers DEF Inv, OneUser
<1>5. \A s \in Unused : s # sock[r] /\ s \in Socket /\ Silent(s)
  BY DEF Inv, Unused
<1>6. /\ \A s \in Pooled : (Framed => Reusable(s)') /\ end'[s] = end[s]
      /\ \A s \in Unused : Silent(s)'
  BY <1>4, <1>5, SameIdle DEF StepOf
<1>7. PooledByHost'
  BY <1>6, InPool DEF Inv, PooledByHost
<1> QED
  BY <1>1, <1>2, <1>3, <1>6, <1>7 DEF Inv

\* A request closes its connection and does without.
LEMMA GiveUp ==
  ASSUME Inv, NEW r \in Request, NEW c, c = sock[r], StepOf(r), pool' = pool, Hold(r, NoSocket),
         at[r] \notin Resting, at'[r] \in Resting, Silent(c)', Types', RequestOK(r)'
  PROVE  Inv'
<1>1. \A q \in Request : RequestOK(q)'
  BY OthersKeep
<1>2. Pooled' = Pooled
  BY DEF Pooled
<1>3. sock'[r] = NoSocket /\ \A q \in Request : q # r => sock'[q] = sock[q] /\ at'[q] = at[q]
  BY DEF Hold, StepOf, SameRequest, Inv, Types, TypeOK
<1>4. NoSocket \notin Pooled
  BY PoolMembers, NoSocketAssumption
<1>5. Holding' /\ OneUser' /\ PoolsAreShort'
  <2>1. Holding' /\ PoolsAreShort'
    BY <1>3 DEF Inv, Holding, PoolsAreShort
  <2>2. \A q1, q2 \in Request : q1 # q2 /\ sock'[q1] # NoSocket => sock'[q1] # sock'[q2]
    BY <1>3 DEF Inv, OneUser
  <2>3. \A q \in Request : sock'[q] \notin Pooled
    BY <1>3, <1>4 DEF Inv, OneUser
  <2> QED
    BY <1>2, <2>1, <2>2, <2>3 DEF Inv, OneUser
<1>6. \A s \in Pooled : s # c /\ s \in Socket /\ (Framed => Reusable(s))
  BY PoolMembers DEF Inv, OneUser
<1>7. \A s \in Unused' : s \in Socket /\ (s = c \/ (s \in Unused /\ s # c))
  BY <1>2, <1>3 DEF Unused
<1>8. /\ \A s \in Pooled : (Framed => Reusable(s)') /\ end'[s] = end[s]
      /\ \A s \in Unused' : Silent(s)'
  BY <1>6, <1>7, SameIdle DEF StepOf, Inv
<1>9. PooledByHost'
  BY <1>8, InPool DEF Inv, PooledByHost
<1> QED
  BY <1>1, <1>2, <1>5, <1>8, <1>9 DEF Inv

\* A request returns its connection to the pool of its host.
LEMMA GiveBack ==
  ASSUME Inv, NEW r \in Request, NEW c, c = sock[r], NEW h \in Host, StepOf(r), Hold(r, NoSocket),
         Len(pool[h]) < MaxPerHost, pool' = [pool EXCEPT ![h] = Append(@, c)],
         at[r] \notin Resting, at'[r] \in Resting, end'[c] = h, Framed => Reusable(c)', Types', RequestOK(r)'
  PROVE  Inv'
<1> DEFINE n == Len(pool[h])
<1>0. c \in Socket
  BY DEF Inv, Holding, Types, TypeOK
<1>1. \A q \in Request : RequestOK(q)'
  BY OthersKeep
<1>2. sock'[r] = NoSocket /\ \A q \in Request : q # r => sock'[q] = sock[q] /\ at'[q] = at[q]
  BY DEF Hold, StepOf, SameRequest, Inv, Types, TypeOK
<1>3. /\ pool'[h] = Append(pool[h], c) /\ \A g \in Host : g # h => pool'[g] = pool[g]
  BY DEF Inv, Types, TypeOK
<1>4. n \in Nat /\ pool[h] \in Seq(Socket) /\ DOMAIN pool[h] = 1..n
  BY PoolMembers
<1>5. /\ DOMAIN pool'[h] = 1..(n + 1) /\ Len(pool'[h]) = n + 1
      /\ pool'[h][n + 1] = c /\ \A i \in 1..n : pool'[h][i] = pool[h][i]
  <2>1. /\ Append(pool[h], c) \in Seq(Socket) /\ Len(Append(pool[h], c)) = n + 1
        /\ Append(pool[h], c)[n + 1] = c /\ \A i \in 1..n : Append(pool[h], c)[i] = pool[h][i]
    BY <1>0, <1>4, AppendProperties
  <2>2. DOMAIN Append(pool[h], c) = 1..(n + 1)
    BY <2>1, LenProperties
  <2> QED
    BY <1>3, <2>1, <2>2
<1>6. \A i \in 1..(n + 1) : i = n + 1 \/ i \in 1..n
  BY <1>4
<1>7. ASSUME NEW s PROVE s \in Pooled' <=> s = c \/ s \in Pooled
  <2>1. s \in Pooled' <=> \E g \in Host : \E i \in DOMAIN pool'[g] : s = pool'[g][i]
    BY DEF Pooled, ToSet
  <2>2. s \in Pooled <=> \E g \in Host : \E i \in DOMAIN pool[g] : s = pool[g][i]
    BY DEF Pooled, ToSet
  <2>3. ASSUME NEW g \in Host, NEW i \in DOMAIN pool'[g], s = pool'[g][i] PROVE s = c \/ s \in Pooled
    <3>1. CASE g # h
      BY <1>3, <2>2, <2>3, <3>1
    <3>2. CASE g = h
      BY <1>4, <1>5, <1>6, <2>2, <2>3, <3>2
    <3> QED
      BY <3>1, <3>2
  <2>4. ASSUME s = c PROVE s \in Pooled'
    <3>1. n + 1 \in DOMAIN pool'[h]
      BY <1>4, <1>5
    <3> QED
      BY <1>5, <2>1, <2>4, <3>1
  <2>5. ASSUME s \in Pooled PROVE s \in Pooled'
    <3>1. PICK g \in Host : \E i \in DOMAIN pool[g] : s = pool[g][i]
      BY <2>2, <2>5
    <3>2. PICK i \in DOMAIN pool[g] : s = pool[g][i]
      BY <3>1
    <3>3. CASE g # h
      BY <1>3, <2>1, <3>2, <3>3
    <3>4. CASE g = h
      <4>1. i \in DOMAIN pool'[h] /\ s = pool'[h][i]
        BY <1>4, <1>5, <3>2, <3>4
      <4> QED
        BY <2>1, <4>1
    <3> QED
      BY <3>3, <3>4
  <2> QED
    BY <2>1, <2>3, <2>4, <2>5
<1>8. NoSocket \notin Pooled /\ c # NoSocket
  BY <1>0, PoolMembers, NoSocketAssumption
<1>9. Holding' /\ PoolsAreShort'
  <2>1. \A g \in Host : Len(pool'[g]) <= MaxPerHost
    BY <1>3, <1>4, <1>5, BoundsAssumption DEF Inv, PoolsAreShort
  <2> QED
    BY <1>2, <2>1 DEF Inv, Holding, PoolsAreShort
<1>10. OneUser'
  <2>1. \A q1, q2 \in Request : q1 # q2 /\ sock'[q1] # NoSocket => sock'[q1] # sock'[q2]
    BY <1>2 DEF Inv, OneUser
  <2>2. \A q \in Request : sock'[q] \notin Pooled'
    BY <1>2, <1>7, <1>8 DEF Inv, OneUser
  <2>3. ASSUME NEW g1 \in Host, NEW i \in DOMAIN pool'[g1], NEW g2 \in Host, NEW j \in DOMAIN pool'[g2],
               pool'[g1][i] = pool'[g2][j]
        PROVE  g1 = g2 /\ i = j
    <3> DEFINE New(g, k) == g = h /\ k = n + 1
    <3>1. ASSUME NEW g \in Host, NEW k \in DOMAIN pool'[g], ~New(g, k)
          PROVE  k \in DOMAIN pool[g] /\ pool'[g][k] = pool[g][k] /\ pool[g][k] \in Pooled
      <4>1. k \in DOMAIN pool[g] /\ pool'[g][k] = pool[g][k]
        BY <1>3, <1>4, <1>5, <1>6, <3>1
      <4> QED
        BY <4>1 DEF Pooled, ToSet
    <3>2. c \notin Pooled
      BY DEF Inv, OneUser
    <3>3. CASE New(g1, i) /\ New(g2, j)
      BY <3>3
    <3>4. CASE New(g1, i) /\ ~New(g2, j)
      BY <1>5, <2>3, <3>1, <3>2, <3>4
    <3>5. CASE ~New(g1, i) /\ New(g2, j)
      BY <1>5, <2>3, <3>1, <3>2, <3>5
    <3>6. CASE ~New(g1, i) /\ ~New(g2, j)
      BY <2>3, <3>1, <3>6 DEF Inv, OneUser
    <3> QED
      BY <3>3, <3>4, <3>5, <3>6
  <2> QED
    BY <2>1, <2>2, <2>3 DEF OneUser
<1>11. Framed => \A s \in Pooled' : Reusable(s)'
  <2>1. \A s \in Pooled : s # c /\ s \in Socket /\ (Framed => Reusable(s))
    BY PoolMembers DEF Inv, OneUser
  <2> QED
    BY <1>7, <2>1, SameIdle DEF StepOf
<1>13. PooledByHost'
  <2> SUFFICES ASSUME NEW g \in Host, NEW k \in DOMAIN pool'[g] PROVE end'[pool'[g][k]] = g
    BY DEF PooledByHost
  <2>1. CASE g = h /\ k = n + 1
    BY <1>5, <2>1
  <2>2. CASE ~(g = h /\ k = n + 1)
    <3>1. k \in DOMAIN pool[g] /\ pool'[g][k] = pool[g][k]
      BY <1>3, <1>4, <1>5, <1>6, <2>2
    <3>2. pool[g][k] \in Pooled /\ end[pool[g][k]] = g
      BY <3>1, InPool DEF Inv, PooledByHost
    <3>3. pool[g][k] # c /\ pool[g][k] \in Socket
      BY <3>2, PoolMembers DEF Inv, OneUser
    <3> QED
      BY <3>1, <3>2, <3>3, SameIdle DEF StepOf
  <2> QED
    BY <2>1, <2>2
<1>12. \A s \in Unused' : Silent(s)'
  <2>1. \A s \in Unused' : s \in Unused /\ s # c /\ s \in Socket
    BY <1>2, <1>7 DEF Unused
  <2> QED
    BY <2>1, SameIdle DEF StepOf, Inv
<1> QED
  BY <1>1, <1>9, <1>10, <1>11, <1>12, <1>13 DEF Inv

-----------------------------------------------------------------------------
(* The steps of a request: getting a connection and losing it.             *)

\* Taking the last element of a sequence leaves the others where they are.
LEMMA LastAndFront ==
  ASSUME NEW S, NEW s \in Seq(S), s # <<>>
  PROVE  /\ Len(s) \in Nat \ {0} /\ Last(s) = s[Len(s)] /\ Last(s) \in S
         /\ Front(s) \in Seq(S) /\ Len(Front(s)) = Len(s) - 1
         /\ \A k \in 1..(Len(s) - 1) : Front(s)[k] = s[k]
<1>1. Len(s) \in Nat \ {0}
  BY EmptySeq
<1>2. Last(s) = s[Len(s)] /\ Last(s) \in S
  BY <1>1, ElementOfSeq DEF Last
<1>3. \A k \in 1..(Len(s) - 1) : s[k] \in S
  BY <1>1, ElementOfSeq
<1>4. Front(s) = [k \in 1..(Len(s) - 1) |-> s[k]]
  BY <1>1 DEF Front
<1> QED
  BY <1>1, <1>2, <1>3, <1>4

\* A closed connection is silent, and the others do not notice.
LEMMA HangupOne ==
  ASSUME NEW c, Hangup({c})
  PROVE  /\ NetworkTypes => NetworkTypes'
         /\ \A s \in Socket : s # c => SameConnection(s)
         /\ c \in Socket => Silent(c)'
<1>1. (\A s \in Socket : s # c => SameConnection(s)) /\ (c \in Socket => Silent(c)')
  BY DEF Hangup, SameConnection, Silent
<1>2. ASSUME NetworkTypes PROVE NetworkTypes'
  <2>1. <<>> \in Seq(Parts) /\ <<>> \in Seq(Ids)
    OBVIOUS
  <2> QED
    BY <1>2, <2>1 DEF Hangup, NetworkTypes
<1> QED
  BY <1>1, <1>2

\* A request that goes back to the caller's or on to another place is still well-formed.
LEMMA GotoTypes ==
  ASSUME Types, NEW r \in Request, NEW place \in Places, Goto(r, place)
  PROVE  /\ at' \in [Request -> Places] /\ at'[r] = place
         /\ \A q \in Request : q # r => at'[q] = at[q]
BY DEF Types, TypeOK, Goto

\* The same of the connection a request holds.
LEMMA HoldTypes ==
  ASSUME Types, NEW r \in Request, NEW s \in Socket \cup {NoSocket}, Hold(r, s)
  PROVE  /\ sock' \in [Request -> Socket \cup {NoSocket}] /\ sock'[r] = s
         /\ \A q \in Request : q # r => sock'[q] = sock[q]
BY DEF Types, TypeOK, Hold

\* What a request knows at the start.
LEMMA NewRequestTypes ==
  ASSUME NEW r \in Request, NEW h \in Host
  PROVE  /\ NewRequest(r, h) \in Knowledge
         /\ NewRequest(r, h).host = h /\ NewRequest(r, h).home = h
         /\ ~NewRequest(r, h).started /\ ~NewRequest(r, h).retried /\ ~NewRequest(r, h).away
BY DEF NewRequest, Knowledge

\* A request without a connection that stays without: nobody else notices.
LEMMA RestingStep ==
  ASSUME Inv, NEW r \in Request, StepOf(r), UNCHANGED <<pool, sock>>,
         \A s \in Socket : SameConnection(s),
         at[r] \in Resting, at'[r] \in Resting, Types', RequestOK(r)'
  PROVE  Inv'
<1>1. \A q \in Request : RequestOK(q)'
  BY OthersKeep
<1>2. Pooled' = Pooled /\ Unused' = Unused
  BY DEF Pooled, Unused
<1>3. Holding' /\ OneUser' /\ PoolsAreShort'
  <2>1. \A q \in Request : q # r => at'[q] = at[q]
    BY DEF StepOf, SameRequest
  <2> QED
    BY <1>2, <2>1 DEF Inv, Holding, OneUser, PoolsAreShort
<1>4. (Framed => \A s \in Pooled : Reusable(s)') /\ (\A s \in Unused : Silent(s)')
  BY PoolMembers, SameIdle DEF Inv, Unused
<1>5. PooledByHost'
  BY InPool, PoolMembers, SameIdle DEF Inv, PooledByHost
<1> QED
  BY <1>1, <1>2, <1>3, <1>4, <1>5 DEF Inv

\* A request begins.
LEMMA BeginKeeps ==
  ASSUME Inv, NEW r \in Request, Begin(r)
  PROVE  Inv'
<1>1. /\ at[r] = "idle" /\ UNCHANGED <<pool, sock, req, network, ran>>
  BY DEF Begin
<1>2. /\ at' \in [Request -> Places] /\ at'[r] = "acquire"
      /\ \A q \in Request : q # r => at'[q] = at[q]
  BY GotoTypes DEF Begin, Places, Inv
<1>3. StepOf(r) /\ \A s \in Socket : SameConnection(s)
  BY <1>1, <1>2 DEF StepOf, SameRequest, SameConnection, network
<1>4. Types'
  BY <1>1, <1>2 DEF Inv, Types, TypeOK, NetworkTypes, network
<1>5. RequestOK(r)'
  BY <1>1, <1>2 DEF Inv, RequestOK, Exchange, Attempts, Credentials, Connected, Delivered
<1> QED
  BY <1>1, <1>2, <1>3, <1>4, <1>5, RestingStep DEF Resting

\* A request that got a connection, from the pool or a fresh one.
LEMMA Obtained ==
  ASSUME Inv, NEW r \in Request, at[r] = "acquire", NEW c \in Socket, Hold(r, c),
         at' \in [Request -> Places], at'[r] \in {"check", "connect"},
         \A q \in Request : q # r => at'[q] = at[q],
         UNCHANGED <<req, network, ran>>,
         \A q \in Request : sock[q] # c
  PROVE  /\ \A q \in Request : q # r => sock'[q] = sock[q]
         /\ sock' \in [Request -> Socket \cup {NoSocket}] /\ sock'[r] = c
         /\ \A q \in Request : q # r => RequestOK(q)'
         /\ Credentials(r)' /\ (Framed => Attempts(r)' /\ Delivered(r)')
         /\ Holding'
         /\ \A q1, q2 \in Request : q1 # q2 /\ sock'[q1] # NoSocket => sock'[q1] # sock'[q2]
         /\ \A s \in Socket : SameConnection(s)
<1>1. /\ sock' \in [Request -> Socket \cup {NoSocket}] /\ sock'[r] = c
      /\ \A q \in Request : q # r => sock'[q] = sock[q]
  BY HoldTypes DEF Inv
<1>2. StepOf(r) /\ \A s \in Socket : SameConnection(s)
  BY <1>1 DEF StepOf, SameRequest, SameConnection, network
<1>3. \A q \in Request : q # r => RequestOK(q)'
  BY <1>2, OthersKeep
<1>4. Credentials(r)' /\ (Framed => Attempts(r)' /\ Delivered(r)')
  BY DEF Inv, RequestOK, Attempts, Credentials, Delivered
<1>5. Holding'
  BY <1>1, NoSocketAssumption DEF Inv, Holding, Resting
<1>6. \A q1, q2 \in Request : q1 # q2 /\ sock'[q1] # NoSocket => sock'[q1] # sock'[q2]
  BY <1>1, NoSocketAssumption DEF Inv, OneUser
<1> QED
  BY <1>1, <1>2, <1>3, <1>4, <1>5, <1>6

\* acquire() with an empty pool: a fresh connection.
LEMMA PopFreshKeeps ==
  ASSUME Inv, NEW r \in Request, Pop(r), pool[req[r].host] = <<>>
  PROVE  Inv'
<1>0. PICK c : c = CHOOSE s \in Unused : TRUE
  OBVIOUS
<1>1. /\ at[r] = "acquire" /\ Hold(r, c) /\ Goto(r, "connect")
      /\ UNCHANGED <<pool, req, network, ran>> /\ sock[r] = NoSocket
  BY <1>0 DEF Pop, Inv, Holding, Resting
<1>2. c \in Unused
  BY <1>0, <1>1, SlotsSuffice
<1>3. c \in Socket /\ c \notin Pooled /\ \A q \in Request : sock[q] # c
  BY <1>2 DEF Unused
<1>4. /\ at' \in [Request -> Places] /\ at'[r] = "connect"
      /\ \A q \in Request : q # r => at'[q] = at[q]
  BY <1>1, GotoTypes DEF Places, Inv
<1>5. /\ \A q \in Request : q # r => sock'[q] = sock[q]
      /\ sock' \in [Request -> Socket \cup {NoSocket}] /\ sock'[r] = c
      /\ \A q \in Request : q # r => RequestOK(q)'
      /\ Credentials(r)' /\ (Framed => Attempts(r)' /\ Delivered(r)')
      /\ Holding'
      /\ \A q1, q2 \in Request : q1 # q2 /\ sock'[q1] # NoSocket => sock'[q1] # sock'[q2]
      /\ \A s \in Socket : SameConnection(s)
  BY <1>1, <1>3, <1>4, Obtained
<1>6. Pooled' = Pooled
  BY <1>1 DEF Pooled
<1>7. Unused' \subseteq Unused
  BY <1>1, <1>3, <1>5, <1>6, NoSocketAssumption DEF Unused
<1>8. Silent(c)'
  BY <1>2, <1>3, <1>5, SameIdle DEF Inv
<1>9. RequestOK(r)'
  BY <1>4, <1>5, <1>8 DEF RequestOK, Exchange, Connected
<1>10. Types'
  BY <1>1, <1>4, <1>5 DEF Inv, Types, TypeOK, NetworkTypes, network
<1>11. OneUser' /\ PoolsAreShort'
  BY <1>1, <1>3, <1>5, <1>6 DEF Inv, OneUser, PoolsAreShort
<1>12. (Framed => \A s \in Pooled' : Reusable(s)') /\ (\A s \in Unused' : Silent(s)')
  BY <1>5, <1>6, <1>7, PoolMembers, SameIdle DEF Inv, Unused
<1>13. PooledByHost'
  BY <1>1, <1>5, InPool, PoolMembers, SameIdle DEF Inv, PooledByHost
<1> QED
  BY <1>5, <1>9, <1>10, <1>11, <1>12, <1>13 DEF Inv

\* acquire() with something in the pool: the last entry is popped.
LEMMA PopPooledKeeps ==
  ASSUME Inv, NEW r \in Request, Pop(r), pool[req[r].host] # <<>>
  PROVE  Inv'
<1> DEFINE h == req[r].host
           n == Len(pool[h])
<1>0. PICK c : c = Last(pool[h])
  OBVIOUS
<1>1. /\ at[r] = "acquire" /\ Hold(r, c) /\ Goto(r, "check")
      /\ pool' = [pool EXCEPT ![h] = Front(pool[h])]
      /\ UNCHANGED <<req, network, ran>>
  BY <1>0 DEF Pop
<1>2. h \in Host
  BY DEF Inv, Types, Knowledge
<1>3. pool[h] \in Seq(Socket) /\ DOMAIN pool[h] = 1..n /\ n \in Nat
  BY <1>2, PoolMembers
<1>4. /\ n \in Nat \ {0} /\ c = pool[h][n] /\ c \in Socket
      /\ Front(pool[h]) \in Seq(Socket) /\ Len(Front(pool[h])) = n - 1
      /\ \A k \in 1..(n - 1) : Front(pool[h])[k] = pool[h][k]
  BY <1>0, <1>3, LastAndFront
<1>5. /\ pool' \in [Host -> Seq(Socket)] /\ \A g \in Host : g # h => pool'[g] = pool[g]
      /\ DOMAIN pool'[h] = 1..(n - 1) /\ Len(pool'[h]) = n - 1
      /\ \A k \in 1..(n - 1) : pool'[h][k] = pool[h][k] /\ k \in 1..n /\ k # n
  <2>1. DOMAIN Front(pool[h]) = 1..(n - 1)
    BY <1>4, LenProperties
  <2>2. pool \in [Host -> Seq(Socket)]
    BY DEF Inv, Types, TypeOK
  <2>3. pool'[h] = Front(pool[h]) /\ (\A g \in Host : g # h => pool'[g] = pool[g]) /\ pool' \in [Host -> Seq(Socket)]
    BY <1>1, <1>2, <1>4, <2>2
  <2>4. \A k \in 1..(n - 1) : k \in 1..n /\ k # n
    BY <1>3
  <2> HIDE DEF n, h
  <2> QED
    BY <1>4, <2>1, <2>3, <2>4
<1>6. c \in Pooled /\ \A q \in Request : sock[q] # c
  <2>1. n \in DOMAIN pool[h]
    BY <1>3, <1>4
  <2>2. c \in Pooled
    BY <1>2, <1>4, <2>1 DEF Pooled, ToSet
  <2> QED
    BY <2>2 DEF Inv, OneUser
<1>7. ASSUME NEW g \in Host, NEW k \in DOMAIN pool'[g]
      PROVE  k \in DOMAIN pool[g] /\ pool'[g][k] = pool[g][k] /\ pool[g][k] # c /\ pool[g][k] \in Pooled
  <2>1. k \in DOMAIN pool[g] /\ pool'[g][k] = pool[g][k] /\ (g = h => k # n)
    <3>1. CASE g = h
      BY <1>3, <1>5, <1>7, <3>1
    <3>2. CASE g # h
      BY <1>5, <1>7, <3>2
    <3> QED
      BY <3>1, <3>2
  <2>2. n \in DOMAIN pool[h]
    BY <1>3, <1>4
  <2>3. pool[g][k] # c
    BY <1>2, <1>4, <2>1, <2>2 DEF Inv, OneUser
  <2> QED
    BY <2>1, <2>3 DEF Pooled, ToSet
<1>8. Pooled' \subseteq Pooled \ {c}
  BY <1>7 DEF Pooled, ToSet
<1>9. Pooled \ {c} \subseteq Pooled'
  <2> SUFFICES ASSUME NEW s \in Pooled, s # c PROVE s \in Pooled'
    OBVIOUS
  <2>1. PICK g \in Host : \E k \in DOMAIN pool[g] : s = pool[g][k]
    BY DEF Pooled, ToSet
  <2>2. PICK k \in DOMAIN pool[g] : s = pool[g][k]
    BY <2>1
  <2>3. k \in DOMAIN pool'[g] /\ s = pool'[g][k]
    <3>1. CASE g = h
      <4>1. k \in 1..n /\ k # n
        BY <1>3, <1>4, <2>2, <3>1
      <4>2. k \in 1..(n - 1)
        BY <1>4, <4>1
      <4> QED
        BY <1>5, <2>2, <3>1, <4>2
    <3>2. CASE g # h
      BY <1>5, <2>2, <3>2
    <3> QED
      BY <3>1, <3>2
  <2> QED
    BY <2>3 DEF Pooled, ToSet
<1>10. /\ at' \in [Request -> Places] /\ at'[r] = "check"
       /\ \A q \in Request : q # r => at'[q] = at[q]
  BY <1>1, GotoTypes DEF Places, Inv
<1>11. /\ \A q \in Request : q # r => sock'[q] = sock[q]
       /\ sock' \in [Request -> Socket \cup {NoSocket}] /\ sock'[r] = c
       /\ \A q \in Request : q # r => RequestOK(q)'
       /\ Credentials(r)' /\ (Framed => Attempts(r)' /\ Delivered(r)')
       /\ Holding'
       /\ \A q1, q2 \in Request : q1 # q2 /\ sock'[q1] # NoSocket => sock'[q1] # sock'[q2]
       /\ \A s \in Socket : SameConnection(s)
  BY <1>1, <1>4, <1>6, <1>10, Obtained
<1>12. RequestOK(r)'
  <2>1. Framed => Reusable(c)'
    BY <1>4, <1>6, <1>11, SameIdle DEF Inv
  <2>2. end'[c] = h
    <3>1. n \in DOMAIN pool[h] /\ end'[c] = end[c]
      BY <1>3, <1>4, <1>11, SameIdle
    <3> QED
      BY <1>2, <1>4, <3>1 DEF Inv, PooledByHost
  <2> QED
    BY <1>1, <1>10, <1>11, <2>1, <2>2 DEF RequestOK, Exchange, Connected
<1>13. Types'
  BY <1>1, <1>5, <1>10, <1>11 DEF Inv, Types, TypeOK, NetworkTypes, network
<1>14. OneUser'
  <2>1. \A q \in Request : sock'[q] \notin Pooled'
    BY <1>8, <1>11 DEF Inv, OneUser
  <2>2. \A g1, g2 \in Host : \A i \in DOMAIN pool'[g1], j \in DOMAIN pool'[g2] :
           pool'[g1][i] = pool'[g2][j] => g1 = g2 /\ i = j
    BY <1>7 DEF Inv, OneUser
  <2> QED
    BY <1>11, <2>1, <2>2 DEF OneUser
<1>15. PoolsAreShort'
  BY <1>2, <1>4, <1>5, BoundsAssumption DEF Inv, PoolsAreShort
<1>16. Framed => \A s \in Pooled' : Reusable(s)'
  BY <1>8, <1>11, PoolMembers, SameIdle DEF Inv
<1>17. \A s \in Unused' : Silent(s)'
  <2>1. Unused' \subseteq Unused
    BY <1>1, <1>9, <1>10, <1>11, NoSocketAssumption DEF Unused, Inv, Holding, Resting
  <2> QED
    BY <1>11, <2>1, SameIdle DEF Inv, Unused
<1>18. PooledByHost'
  BY <1>7, <1>11, PoolMembers, SameIdle DEF Inv, PooledByHost
<1> QED
  BY <1>11, <1>12, <1>13, <1>14, <1>15, <1>16, <1>17, <1>18 DEF Inv

\* The peek at a pooled connection: it is used, or it is closed and another one is taken.
LEMMA CheckKeeps ==
  ASSUME Inv, NEW r \in Request, Check(r)
  PROVE  Inv'
<1>0. PICK c : c = sock[r]
  OBVIOUS
<1>1. at[r] = "check" /\ UNCHANGED <<pool, req, ran>> /\ c \in Socket
  BY <1>0 DEF Check, Inv, Holding, Resting, Types, TypeOK
<1>2. CASE Goto(r, "send") /\ UNCHANGED <<sock, network>>
  <2>1. /\ at' \in [Request -> Places] /\ at'[r] = "send"
        /\ \A q \in Request : q # r => at'[q] = at[q]
    BY <1>2, GotoTypes DEF Places, Inv
  <2>2. StepOf(r) /\ SameConnection(c)
    BY <1>0, <1>1, <1>2, <2>1 DEF StepOf, SameRequest, SameConnection, network
  <2>3. Types'
    BY <1>1, <1>2, <2>1 DEF Inv, Types, TypeOK, NetworkTypes, network
  <2>4. Framed => Reusable(c)'
    BY <1>0, <1>1, <1>2, <2>2, SameIdle DEF Inv, RequestOK, Exchange
  <2>5. RequestOK(r)'
    BY <1>0, <1>1, <1>2, <2>1, <2>2, <2>4 DEF SameConnection, Inv, RequestOK, Exchange, Attempts, Credentials, Connected, Delivered
  <2> QED
    BY <1>1, <1>2, <2>1, <2>2, <2>3, <2>5, PrivateStep DEF Resting
<1>3. CASE Hangup({c}) /\ Hold(r, NoSocket) /\ Goto(r, "acquire")
  <2>1. /\ at' \in [Request -> Places] /\ at'[r] = "acquire"
        /\ \A q \in Request : q # r => at'[q] = at[q]
    BY <1>3, GotoTypes DEF Places, Inv
  <2>2. /\ sock' \in [Request -> Socket \cup {NoSocket}]
        /\ \A q \in Request : q # r => sock'[q] = sock[q]
    BY <1>3, HoldTypes DEF Inv
  <2>3. /\ NetworkTypes'
        /\ \A s \in Socket : s # c => SameConnection(s)
        /\ Silent(c)'
    BY <1>1, <1>3, HangupOne DEF Inv, Types
  <2>4. StepOf(r)
    BY <1>0, <1>1, <2>1, <2>2, <2>3 DEF StepOf, SameRequest
  <2>5. Types'
    BY <1>1, <2>1, <2>2, <2>3 DEF Inv, Types, TypeOK, NetworkTypes
  <2>6. RequestOK(r)'
    BY <1>1, <2>1 DEF Inv, RequestOK, Exchange, Attempts, Credentials, Connected, Delivered
  <2> QED
    BY <1>0, <1>1, <1>3, <2>1, <2>3, <2>4, <2>5, <2>6, GiveUp DEF Resting
<1> QED
  BY <1>0, <1>2, <1>3 DEF Check

\* clear(): what was pooled is closed, and no request notices.
LEMMA ClearPoolKeeps ==
  ASSUME Inv, ClearPool
  PROVE  Inv'
<1>1. /\ pool' = [h \in Host |-> <<>>] /\ Hangup(Pooled) /\ UNCHANGED <<at, sock, req, ran>>
  BY DEF ClearPool
<1>2. Pooled' = {}
  BY <1>1 DEF Pooled, ToSet
<1>3. \A s \in Socket : (s \in Pooled => Silent(s)') /\ (s \notin Pooled => SameConnection(s))
  BY <1>1 DEF Hangup, Silent, SameConnection
<1>4. ASSUME NEW q \in Request PROVE RequestOK(q)'
  <2>1. at[q] \notin Resting => sock[q] \in Socket /\ sock[q] \notin Pooled
    BY DEF Inv, Holding, OneUser, Types, TypeOK
  <2> QED
    BY <1>1, <1>3, <2>1, SameView DEF Inv, SameRequest
<1>5. Types'
  <2>1. pool' \in [Host -> Seq(Socket)]
    BY <1>1
  <2>2. <<>> \in Seq(Parts) /\ <<>> \in Seq(Ids)
    OBVIOUS
  <2>3. NetworkTypes'
    BY <1>1, <2>2 DEF Inv, Types, NetworkTypes, Hangup
  <2> QED
    BY <1>1, <2>1, <2>3 DEF Inv, Types, TypeOK, NetworkTypes
<1>6. \A h \in Host : pool'[h] = <<>> /\ Len(pool'[h]) = 0 /\ DOMAIN pool'[h] = {}
  BY <1>1
<1>7. Holding' /\ OneUser' /\ PoolsAreShort' /\ PooledByHost'
  BY <1>1, <1>2, <1>6, BoundsAssumption DEF Inv, Holding, OneUser, PoolsAreShort, PooledByHost
<1>8. \A s \in Unused' : Silent(s)'
  BY <1>1, <1>3, SameIdle DEF Inv, Unused
<1> QED
  BY <1>2, <1>4, <1>5, <1>7, <1>8 DEF Inv

Underway == {"connect", "send", "head", "body", "trailers"}

(* An attempt fails: the request connects again, once, if its method       *)
(* allows it and nothing of the answer has come; otherwise it is over.     *)
LEMMA FailedKeeps ==
  ASSUME Inv, NEW r \in Request, at[r] \in Underway, NEW retriable \in BOOLEAN, Failed(r, retriable)
  PROVE  Inv'
<1>0. PICK c : c = sock[r]
  OBVIOUS
<1>1. /\ Hangup({c}) /\ UNCHANGED <<pool, ran>> /\ c \in Socket /\ at[r] \notin Resting
      /\ req[r] \in Knowledge /\ req[r].home \in Host
  BY <1>0 DEF Failed, Underway, Inv, Holding, Resting, Types, TypeOK, Knowledge
<1>2. /\ NetworkTypes'
      /\ \A s \in Socket : s # c => SameConnection(s)
      /\ Silent(c)'
  BY <1>1, HangupOne DEF Inv, Types
<1>3. CASE /\ req[r].safe /\ ~req[r].started /\ ~req[r].retried
           /\ req' = [req EXCEPT ![r].retried = TRUE] /\ Goto(r, "connect") /\ UNCHANGED sock
  <2>1. /\ at' \in [Request -> Places] /\ at'[r] = "connect"
        /\ \A q \in Request : q # r => at'[q] = at[q]
    BY <1>3, GotoTypes DEF Places, Inv
  <2>2. /\ req' \in [Request -> Knowledge] /\ \A q \in Request : q # r => req'[q] = req[q]
        /\ req'[r] = [req[r] EXCEPT !.retried = TRUE]
    <3>1. [req[r] EXCEPT !.retried = TRUE] \in Knowledge
      BY <1>1 DEF Knowledge
    <3> QED
      BY <1>3, <3>1 DEF Inv, Types
  <2>3. StepOf(r)
    BY <1>0, <1>1, <1>2, <1>3, <2>1, <2>2 DEF StepOf, SameRequest
  <2>4. Types'
    BY <1>1, <1>2, <1>3, <2>1, <2>2 DEF Inv, Types, TypeOK, NetworkTypes
  <2>5. /\ req'[r].retried /\ req'[r].safe /\ ~req'[r].started
        /\ req'[r].auth = req[r].auth /\ req'[r].host = req[r].host /\ req'[r].home = req[r].home
        /\ req'[r].away = req[r].away
    BY <1>1, <1>3, <2>2 DEF Knowledge
  <2>6. Framed => Attempts(r)'
    <3>1. Framed => ran[r] \in Nat /\ ran[r] <= 1
      BY <1>3 DEF Underway, Inv, Types, RequestOK, Attempts
    <3> QED
      BY <1>1, <2>1, <2>5, <3>1 DEF Attempts
  <2>7. RequestOK(r)'
    BY <1>0, <1>2, <1>3, <2>1, <2>5, <2>6 DEF Inv, RequestOK, Exchange, Credentials, Connected, Delivered
  <2> QED
    BY <1>1, <1>3, <2>1, <2>3, <2>4, <2>7, PrivateStep DEF Resting
<1>4. CASE Hold(r, NoSocket) /\ Fail(r)
  <2>1. /\ at' \in [Request -> Places] /\ at'[r] = "failed"
        /\ \A q \in Request : q # r => at'[q] = at[q]
    BY <1>4, GotoTypes DEF Places, Inv, Fail
  <2>2. /\ sock' \in [Request -> Socket \cup {NoSocket}]
        /\ \A q \in Request : q # r => sock'[q] = sock[q]
    BY <1>4, HoldTypes DEF Inv
  <2>3. /\ req' \in [Request -> Knowledge] /\ \A q \in Request : q # r => req'[q] = req[q]
        /\ req'[r] = NewRequest(r, req[r].home)
    BY <1>1, <1>4, NewRequestTypes DEF Fail, Inv, Types
  <2>4. StepOf(r)
    BY <1>0, <1>1, <1>2, <2>1, <2>2, <2>3 DEF StepOf, SameRequest
  <2>5. Types'
    BY <1>1, <1>2, <2>1, <2>2, <2>3 DEF Inv, Types, TypeOK, NetworkTypes
  <2>6. req'[r].host = req'[r].home /\ ~req'[r].retried /\ ~req'[r].away
    BY <1>1, <2>3, NewRequestTypes
  <2>7. RequestOK(r)'
    BY <2>1, <2>6 DEF RequestOK, Exchange, Attempts, Credentials, Connected, Delivered
  <2> QED
    BY <1>0, <1>1, <1>2, <1>4, <2>1, <2>4, <2>5, <2>7, GiveUp DEF Resting
<1> QED
  BY <1>3, <1>4 DEF Failed

\* The connection is made, or it is not.
LEMMA ConnectKeeps ==
  ASSUME Inv, NEW r \in Request, Connect(r)
  PROVE  Inv'
<1>0. PICK c : c = sock[r]
  OBVIOUS
<1>1. at[r] = "connect" /\ c \in Socket
  BY <1>0 DEF Connect, Inv, Holding, Resting, Types, TypeOK
<1>2. CASE /\ peer' = [peer EXCEPT ![c] = "up"] /\ end' = [end EXCEPT ![c] = req[r].host] /\ Goto(r, "send")
           /\ UNCHANGED <<pool, sock, req, wire, inbox, plan, ran>>
  <2>1. /\ at' \in [Request -> Places] /\ at'[r] = "send"
        /\ \A q \in Request : q # r => at'[q] = at[q]
    BY <1>2, GotoTypes DEF Places, Inv
  <2>2. StepOf(r)
    BY <1>0, <1>1, <1>2, <2>1 DEF StepOf, SameRequest, SameConnection, Inv, Types, TypeOK, NetworkTypes
  <2>3. req[r].host \in Host /\ end'[c] = req[r].host /\ NetworkTypes'
    BY <1>1, <1>2 DEF Inv, Types, NetworkTypes, Knowledge
  <2>4. Types'
    BY <1>1, <1>2, <2>1, <2>3 DEF Inv, Types, TypeOK, NetworkTypes
  <2>5. Framed => Reusable(c)'
    BY <1>0, <1>1, <1>2 DEF Inv, RequestOK, Exchange, Silent, Reusable, Quiet
  <2>6. RequestOK(r)'
    BY <1>0, <1>1, <1>2, <2>1, <2>3, <2>5 DEF Inv, RequestOK, Exchange, Attempts, Credentials, Connected, Delivered
  <2> QED
    BY <1>1, <1>2, <2>1, <2>2, <2>4, <2>6, PrivateStep DEF Resting
<1>3. CASE \E retriable \in BOOLEAN : Failed(r, retriable)
  BY <1>1, <1>3, FailedKeeps DEF Underway
<1> QED
  BY <1>0, <1>2, <1>3 DEF Connect

\* The request is written, to a server that gets it or to one that has gone.
LEMMA SendKeeps ==
  ASSUME Inv, NEW r \in Request, Send(r)
  PROVE  Inv'
<1>0. PICK c : c = sock[r]
  OBVIOUS
<1> DEFINE n == req[r].sent + 1
<1>1. at[r] = "send" /\ c \in Socket /\ req[r] \in Knowledge
  BY <1>0 DEF Send, Inv, Holding, Resting, Types, TypeOK
<1>2. CASE /\ req' = [req EXCEPT ![r].sent = n] /\ Goto(r, "head")
           /\ inbox' = IF peer[c] = "up" THEN [inbox EXCEPT ![c] = Append(@, <<r, n>>)] ELSE inbox
           /\ UNCHANGED <<pool, sock, wire, peer, plan, end, ran>>
  <2>1. /\ at' \in [Request -> Places] /\ at'[r] = "head"
        /\ \A q \in Request : q # r => at'[q] = at[q]
    BY <1>2, GotoTypes DEF Places, Inv
  <2>2. /\ req' \in [Request -> Knowledge] /\ \A q \in Request : q # r => req'[q] = req[q]
        /\ req'[r] = [req[r] EXCEPT !.sent = n]
    <3>1. [req[r] EXCEPT !.sent = n] \in Knowledge
      BY <1>1 DEF Knowledge
    <3> QED
      BY <1>2, <3>1 DEF Inv, Types
  <2>3. /\ inbox' \in [Socket -> Seq(Ids)] /\ \A s \in Socket : s # c => inbox'[s] = inbox[s]
        /\ inbox'[c] = IF peer[c] = "up" THEN Append(inbox[c], <<r, n>>) ELSE inbox[c]
    <3>1. <<r, n>> \in Ids /\ inbox \in [Socket -> Seq(Ids)]
      BY <1>1 DEF Ids, Knowledge, Inv, Types, NetworkTypes
    <3>2. Append(inbox[c], <<r, n>>) \in Seq(Ids)
      BY <1>1, <3>1, AppendProperties
    <3> HIDE DEF n
    <3> QED
      BY <1>1, <1>2, <3>1, <3>2
  <2>4. StepOf(r)
    BY <1>0, <1>2, <2>1, <2>2, <2>3 DEF StepOf, SameRequest, SameConnection
  <2>5. Types'
    BY <1>2, <2>1, <2>2, <2>3 DEF Inv, Types, TypeOK, NetworkTypes
  <2>6. /\ req'[r].sent = n /\ req'[r].retried = req[r].retried /\ req'[r].safe = req[r].safe
        /\ req'[r].started = req[r].started
        /\ req'[r].auth = req[r].auth /\ req'[r].host = req[r].host /\ req'[r].home = req[r].home
        /\ req'[r].away = req[r].away
    BY <1>1, <2>2 DEF Knowledge
  <2>7. ASSUME Framed PROVE Asked(r)'
    <3>1. Quiet(c) /\ inbox[c] = <<>>
      BY <1>0, <1>1, <2>7 DEF Inv, RequestOK, Exchange, Reusable
    <3>2. Quiet(c)'
      BY <1>2, <3>1 DEF Quiet
    <3>3. inbox'[c] = IF peer'[c] = "up" THEN <<<<r, n>>>> ELSE <<>>
      BY <1>2, <2>3, <3>1
    <3> QED
      BY <1>0, <1>2, <2>6, <3>2, <3>3 DEF Asked, Id
  <2>8. Framed => Attempts(r)'
    BY <1>1, <1>2, <2>1, <2>6 DEF Inv, Types, RequestOK, Attempts
  <2>9. RequestOK(r)'
    BY <1>0, <1>1, <1>2, <2>1, <2>6, <2>7, <2>8 DEF Inv, RequestOK, Exchange, Credentials, Connected, Delivered
  <2> QED
    BY <1>1, <1>2, <2>1, <2>4, <2>5, <2>9, PrivateStep DEF Resting
<1>3. CASE Failed(r, TRUE)
  BY <1>1, <1>3, FailedKeeps DEF Underway
<1> QED
  BY <1>0, <1>2, <1>3 DEF Send

-----------------------------------------------------------------------------
(* The steps of a request: reading the answer.                             *)

\* r has the first j parts of its answer, and read some of them.
Reading(r, f, c, t, j) ==
    /\ c \in BOOLEAN /\ Taken(r) \in Nat
    /\ j \in Taken(r)..Len(Answer(r, f, c, t)) /\ Arriving(r, f, c, t, j)

\* What has arrived is a segment of the answer, from the part that r reads next.
LEMMA Coming ==
  ASSUME NEW r, NEW f, NEW c, NEW t, NEW j, Reading(r, f, c, t, j)
  PROVE  IsSegment(PartsOf(Id(r), f, c, t), Answer(r, f, c, t), Taken(r), j, wire[sock[r]])
<1>1. Answer(r, f, c, t) \in Seq(PartsOf(Id(r), f, c, t))
  <2>1. Shape(Answer(r, f, c, t), Id(r), f, c, t)
    BY ResponseShape DEF Answer, Reading
  <2> QED
    BY <2>1 DEF Shape
<1>2. Len(Answer(r, f, c, t)) \in Nat
  BY <1>1, LenProperties
<1> QED
  BY <1>1, <1>2 DEF Arriving, Reading, IsSegment

\* The part that r reads next is the next one of its answer.
LEMMA NextPart ==
  ASSUME NEW r, NEW f, NEW c, NEW t, NEW j, Reading(r, f, c, t, j), Arrived(r)
  PROVE  LET R == Answer(r, f, c, t) IN
         Len(R) \in Nat /\ Taken(r) < j /\ j <= Len(R) /\ Part(r) = R[Taken(r) + 1] /\ R[j].part # "fin"
<1>1. PICK S, R, i, w : S = PartsOf(Id(r), f, c, t) /\ R = Answer(r, f, c, t) /\ i = Taken(r) /\ w = wire[sock[r]]
  OBVIOUS
<1>2. IsSegment(S, R, i, j, w)
  BY <1>1, Coming
<1>3. /\ Len(R) \in Nat /\ i \in Nat /\ j \in Nat /\ i <= j /\ j <= Len(R)
      /\ w \in Seq(S) /\ Len(w) = j - i
  BY <1>2, SegmentParts
<1>4. w # <<>> /\ (j > 0 => R[j].part # "fin")
  BY <1>1 DEF Reading, Arriving, Arrived
<1>5. Len(w) # 0 /\ Head(w) = w[1]
  BY <1>3, <1>4, EmptySeq
<1>6. w[1] = R[i + 1]
  <2>1. 1 \in 1..Len(w) /\ \A k \in 1..Len(w) : w[k] = R[i + k]
    BY <1>2, <1>3, <1>5, SegmentParts
  <2> QED
    BY <2>1
<1> QED
  BY <1>1, <1>3, <1>4, <1>5, <1>6 DEF Part

\* What r has taken is a number of parts.
LEMMA TakenType ==
  ASSUME Inv, NEW r \in Request
  PROVE  Taken(r) \in Nat
<1>1. Len(req[r].body) \in Nat
  BY LenProperties DEF Inv, Types, Knowledge
<1> QED
  BY <1>1 DEF Taken

\* What has arrived consists of parts.
LEMMA ArrivedParts ==
  ASSUME Inv, NEW r \in Request, at[r] \in {"head", "body", "trailers"}, NEW w, w = wire[sock[r]]
  PROVE  /\ sock[r] \in Socket /\ w \in Seq(Parts) /\ Len(w) \in Nat /\ DOMAIN w = 1..Len(w)
         /\ \A i \in 1..Len(w) : w[i] \in Parts
         /\ Arrived(r) => 1 \in 1..Len(w) /\ Part(r) = w[1] /\ Part(r) \in Parts
<1>1. sock[r] \in Socket
  BY DEF Inv, Holding, Resting, Types, TypeOK
<1>2. w \in Seq(Parts)
  BY <1>1 DEF Inv, Types, NetworkTypes
<1>3. Len(w) \in Nat /\ DOMAIN w = 1..Len(w) /\ \A i \in 1..Len(w) : w[i] \in Parts
  BY <1>2, LenProperties, ElementOfSeq
<1>4. ASSUME Arrived(r) PROVE 1 \in 1..Len(w) /\ Part(r) = w[1]
  <2>1. w # <<>>
    BY <1>4 DEF Arrived
  <2>2. Len(w) # 0
    BY <1>2, <2>1, EmptySeq
  <2> QED
    BY <1>2, <1>3, <2>1, <2>2 DEF Part
<1> QED
  BY <1>1, <1>2, <1>3, <1>4

\* r reads n parts and goes on reading.
LEMMA GoesOn ==
  ASSUME Inv, NEW r \in Request, at[r] \in {"head", "body", "trailers"}, NEW n \in Nat, Consume(r, n),
         NEW q \in Knowledge, req' = [req EXCEPT ![r] = q], UNCHANGED <<pool, sock, ran>>,
         q.host = req[r].host, q.home = req[r].home, q.away = req[r].away, q.auth = req[r].auth,
         NEW place \in {"body", "trailers"}, Goto(r, place),
         Framed => Exchange(r)' /\ Attempts(r)'
  PROVE  Inv'
<1>0. PICK s, w : s = sock[r] /\ w = wire[s]
  OBVIOUS
<1>1. /\ at' \in [Request -> Places] /\ at'[r] = place
      /\ \A o \in Request : o # r => at'[o] = at[o]
  BY GotoTypes DEF Places, Inv
<1>2. /\ req' \in [Request -> Knowledge] /\ req'[r] = q /\ \A o \in Request : o # r => req'[o] = req[o]
  BY DEF Inv, Types
<1>3. s \in Socket /\ w \in Seq(Parts) /\ Len(w) \in Nat /\ \A i \in 1..Len(w) : w[i] \in Parts
  BY <1>0, ArrivedParts
<1>4. SubSeq(w, n + 1, Len(w)) \in Seq(Parts)
  <2>1. \A i \in (n + 1)..Len(w) : w[i] \in Parts
    BY <1>3
  <2> QED
    BY <1>3, <2>1, SubSeqProperties
<1>5. /\ wire' \in [Socket -> Seq(Parts)] /\ UNCHANGED <<peer, inbox, plan, end>>
      /\ \A z \in Socket : z # s => wire'[z] = wire[z]
  BY <1>0, <1>3, <1>4 DEF Consume, Inv, Types, NetworkTypes
<1>6. StepOf(r)
  BY <1>0, <1>1, <1>2, <1>5 DEF StepOf, SameRequest, SameConnection
<1>7. Types'
  BY <1>1, <1>2, <1>5 DEF Inv, Types, TypeOK, NetworkTypes
<1>8. RequestOK(r)'
  <2>1. Connected(r)'
    BY <1>1, <1>2, <1>5 DEF Inv, RequestOK, Connected
  <2> QED
    BY <1>1, <1>2, <2>1 DEF Inv, RequestOK, Credentials, Delivered
<1> QED
  BY <1>1, <1>6, <1>7, <1>8, PrivateStep DEF Resting

\* Of its own answer, the next n parts.
LEMMA Advance ==
  ASSUME Inv, Framed, NEW r \in Request, at[r] \in {"head", "body", "trailers"}, NEW n \in Nat, Consume(r, n),
         NEW f \in AllFramings, NEW c \in BOOLEAN, NEW t \in Targets(r), Possible(r, f, c, t),
         NEW j, Reading(r, f, c, t, j), n <= j - Taken(r),
         NEW q \in Knowledge, req' = [req EXCEPT ![r] = q], UNCHANGED <<pool, sock, ran>>,
         q.sent = req[r].sent, q.host = req[r].host, q.home = req[r].home, q.away = req[r].away,
         q.auth = req[r].auth, q.retried = req[r].retried, q.safe = req[r].safe, q.started,
         NEW place \in {"body", "trailers"}, Goto(r, place),
         Taken(r)' = Taken(r) + n, Understood(r, f, c, t)'
  PROVE  Inv'
<1>0. PICK s, w, R : s = sock[r] /\ w = wire[s] /\ R = Answer(r, f, c, t)
  OBVIOUS
<1>1. at'[r] = place
  BY GotoTypes DEF Places, Inv
<1>2. req'[r] = q
  BY DEF Inv, Types
<1>3. /\ s \in Socket /\ wire'[s] = SubSeq(w, n + 1, Len(w)) /\ UNCHANGED <<peer, inbox, plan>>
  BY <1>0, ArrivedParts DEF Consume, Inv, Types, NetworkTypes
<1>4. Id(r)' = Id(r) /\ Answer(r, f, c, t)' = R
  BY <1>0, <1>2 DEF Id, Answer
<1>5. PICK S, i : S = PartsOf(Id(r), f, c, t) /\ i = Taken(r)
  OBVIOUS
<1>6. IsSegment(S, R, i, j, w)
  BY <1>0, <1>5, Coming
<1>7. Len(R) \in Nat /\ i \in Nat /\ j \in Nat /\ i <= j /\ j <= Len(R) /\ Len(w) = j - i
  BY <1>6, SegmentParts
<1>8. Arriving(r, f, c, t, j)'
  <2>1. n \in 0..Len(w)
    BY <1>5, <1>7
  <2>2. SubSeq(w, n + 1, Len(w)) = SubSeq(R, (i + n) + 1, j)
    BY <1>6, <2>1, SegmentRest DEF IsSegment
  <2>3. /\ plan[s] = (IF peer[s] = "up" THEN SubSeq(R, j + 1, Len(R)) ELSE <<>>) /\ inbox[s] = <<>>
        /\ j > 0 => R[j].part # "fin"
    BY <1>0 DEF Reading, Arriving
  <2> QED
    BY <1>0, <1>3, <1>4, <1>5, <2>2, <2>3 DEF Arriving
<1>9. Answering(r)'
  <2>1. j \in Taken(r)'..Len(R)
    BY <1>5, <1>7
  <2>2. Possible(r, f, c, t)'
    BY DEF Possible
  <2> QED
    BY <1>4, <1>8, <2>1, <2>2 DEF Answering
<1>10. Exchange(r)' /\ Attempts(r)'
  BY <1>1, <1>2, <1>9 DEF Inv, RequestOK, Exchange, Attempts
<1> QED
  BY <1>10, GoesOn

\* The parts of an answer by their place in it.
LEMMA AnswerParts ==
  ASSUME NEW r \in Request, NEW f \in AllFramings, NEW c \in BOOLEAN, NEW t, NEW R, R = Answer(r, f, c, t)
  PROVE  /\ Len(R) = Size(f, c) /\ R[1].part = "line"
         /\ R[2].part = "head" /\ R[2].of = Id(r) /\ R[2].framing = f /\ R[2].close = c /\ R[2].to = t
         /\ f # "bodiless" => R[3].part = "data" /\ R[3].of = Id(r)
         /\ f = "chunked" => R[4].part = "last" /\ R[5].part = "crlf"
         /\ c \/ f = "bare" => R[Len(R)].part = "fin"
<1>1. Shape(R, Id(r), f, c, t)
  BY ResponseShape DEF Answer
<1>2. /\ HeadPart(Id(r), f, c, t).part = "head" /\ HeadPart(Id(r), f, c, t).of = Id(r)
      /\ HeadPart(Id(r), f, c, t).framing = f /\ HeadPart(Id(r), f, c, t).close = c
      /\ HeadPart(Id(r), f, c, t).to = t
  BY DEF HeadPart
<1>3. \A p : Piece(Id(r), p).part = p /\ Piece(Id(r), p).of = Id(r)
  BY DEF Piece
<1> QED
  BY <1>1, <1>2, <1>3 DEF Shape

\* A request that has the answer coming: what of it, and how far it is.
LEMMA AnsweringPick ==
  ASSUME Inv, NEW r \in Request, Answering(r)
  PROVE  \E f \in AllFramings, c \in BOOLEAN, t \in Targets(r) :
            \E j : Possible(r, f, c, t) /\ Understood(r, f, c, t) /\ Reading(r, f, c, t, j)
<1>1. Taken(r) \in Nat
  BY TakenType
<1> QED
  BY <1>1 DEF Answering, Reading

Knows(r, q, id, f, c, t) ==
    /\ q.started /\ q.head = f /\ q.body = <<id>> /\ q.close = c /\ q.to = t
    /\ q.sent = req[r].sent /\ q.host = req[r].host /\ q.home = req[r].home /\ q.away = req[r].away
    /\ q.auth = req[r].auth /\ q.retried = req[r].retried /\ q.safe = req[r].safe

\* What the request knows when it took id's head for the head of its answer.
LEMMA BegunKnows ==
  ASSUME Inv, NEW r \in Request, NEW id \in Ids, NEW f \in AllFramings \cup {"none"}, NEW c \in BOOLEAN,
         NEW t \in Host \cup {"here"}, Begun(r, id, f, c, t)
  PROVE  \E q \in Knowledge : req' = [req EXCEPT ![r] = q] /\ Knows(r, q, id, f, c, t)
<1>1. req[r] \in Knowledge
  BY DEF Inv, Types
<1>2. PICK q : q = [req[r] EXCEPT !.started = TRUE, !.head = f, !.body = <<id>>, !.close = c, !.to = t]
  OBVIOUS
<1>3. req' = [req EXCEPT ![r] = q]
  BY <1>1, <1>2 DEF Begun, Inv, Types
<1>4. <<id>> \in Seq(Ids)
  OBVIOUS
<1>5. /\ q \in Knowledge /\ q.started /\ q.head = f /\ q.body = <<id>> /\ q.close = c /\ q.to = t
      /\ q.sent = req[r].sent /\ q.host = req[r].host /\ q.home = req[r].home /\ q.away = req[r].away
      /\ q.auth = req[r].auth /\ q.retried = req[r].retried /\ q.safe = req[r].safe
  BY <1>1, <1>2, <1>4 DEF Knowledge
<1> QED
  BY <1>3, <1>5 DEF Knows

\* A head that comes in step has its line before it.
LEMMA HeadInStep ==
  ASSUME Inv, NEW r \in Request, at[r] = "head", Headed(r), ~OutOfStep(r), NEW w, w = wire[sock[r]]
  PROVE  Len(w) \in Nat /\ Len(w) >= 2 /\ w[2] \in Parts
<1>1. /\ w \in Seq(Parts) /\ Len(w) \in Nat /\ DOMAIN w = 1..Len(w)
      /\ \A i \in 1..Len(w) : w[i] \in Parts
      /\ Arrived(r) => Part(r) = w[1]
  BY ArrivedParts
<1>2. PICK i \in 1..Len(w) : w[i].part = "head"
  BY <1>1 DEF Headed
<1>3. Arrived(r)
  BY <1>1, <1>2 DEF Arrived
<1>4. w[1].part = "line"
  BY <1>1, <1>3 DEF OutOfStep
<1>5. i # 1
  BY <1>2, <1>4
<1>6. Len(w) >= 2 /\ 2 \in 1..Len(w)
  BY <1>1, <1>2, <1>5
<1> QED
  BY <1>1, <1>6

\* Servers that say where their answers end leave nothing to be taken for a head.
LEMMA NothingOutOfStep ==
  ASSUME Inv, Framed, NEW r \in Request, at[r] = "head"
  PROVE  ~OutOfStep(r)
<1> SUFFICES ASSUME OutOfStep(r) PROVE FALSE
  OBVIOUS
<1>1. Exchange(r) /\ Arrived(r)
  BY DEF Inv, RequestOK, OutOfStep
<1>2. ~Asked(r)
  BY <1>1 DEF Asked, Quiet, Arrived
<1>3. Answering(r)
  BY <1>1, <1>2 DEF Exchange
<1>4. PICK f \in AllFramings, c \in BOOLEAN, t \in Targets(r) : \E j : Reading(r, f, c, t, j)
  BY <1>3, AnsweringPick
<1>5. PICK j : Reading(r, f, c, t, j)
  BY <1>4
<1>6. Taken(r) + 1 = 1
  BY DEF Taken
<1>7. Part(r) = Answer(r, f, c, t)[1]
  BY <1>1, <1>5, <1>6, NextPart
<1>8. Answer(r, f, c, t)[1].part = "line"
  BY AnswerParts
<1> QED
  BY <1>7, <1>8 DEF OutOfStep

\* The head of an answer, which is the request's own if every answer says where it ends.
LEMMA InStepKeeps ==
  ASSUME Inv, NEW r \in Request, at[r] = "head", Headed(r), ~OutOfStep(r), NEW h, h = wire[sock[r]][2],
         Begun(r, h.of, h.framing, h.close, h.to), Consume(r, 2), Goto(r, "body"), UNCHANGED <<pool, sock, ran>>
  PROVE  Inv'
<1>0. PICK w : w = wire[sock[r]]
  OBVIOUS
<1>1. Len(w) \in Nat /\ Len(w) >= 2 /\ w[2] = h /\ h \in Parts
  BY <1>0, HeadInStep
<1>2. PICK q \in Knowledge :
        /\ req' = [req EXCEPT ![r] = q]
        /\ q.started /\ q.head = h.framing /\ q.body = <<h.of>> /\ q.close = h.close /\ q.to = h.to
        /\ q.sent = req[r].sent /\ q.host = req[r].host /\ q.home = req[r].home /\ q.away = req[r].away
        /\ q.auth = req[r].auth /\ q.retried = req[r].retried /\ q.safe = req[r].safe
  <2>1. /\ h.of \in Ids /\ h.framing \in AllFramings \cup {"none"} /\ h.close \in BOOLEAN
        /\ h.to \in Host \cup {"here"}
    BY <1>1 DEF Parts
  <2>2. PICK id, f, c, t : id = h.of /\ f = h.framing /\ c = h.close /\ t = h.to
    OBVIOUS
  <2>3. id \in Ids /\ f \in AllFramings \cup {"none"} /\ c \in BOOLEAN /\ t \in Host \cup {"here"} /\ Begun(r, id, f, c, t)
    BY <2>1, <2>2
  <2>4. \E q \in Knowledge : req' = [req EXCEPT ![r] = q] /\ Knows(r, q, id, f, c, t)
    BY <2>3, BegunKnows
  <2> QED
    BY <2>2, <2>4 DEF Knows
<1>3. CASE ~Framed
  BY <1>2, <1>3, GoesOn
<1>4. CASE Framed
  <2>1. Exchange(r)
    BY <1>4 DEF Inv, RequestOK
  <2>2. ~Asked(r)
    BY <1>0, <1>1 DEF Asked, Quiet
  <2>3. Answering(r)
    BY <2>1, <2>2 DEF Exchange
  <2>4. PICK f \in AllFramings, c \in BOOLEAN, t \in Targets(r) :
          \E j : Possible(r, f, c, t) /\ Understood(r, f, c, t) /\ Reading(r, f, c, t, j)
    BY <2>3, AnsweringPick
  <2>5. PICK j : Possible(r, f, c, t) /\ Reading(r, f, c, t, j)
    BY <2>4
  <2>6. PICK S, R, i : S = PartsOf(Id(r), f, c, t) /\ R = Answer(r, f, c, t) /\ i = Taken(r)
    OBVIOUS
  <2>7. i = 0
    BY <2>6 DEF Taken
  <2>8. IsSegment(S, R, i, j, w)
    BY <1>0, <2>5, <2>6, Coming
  <2>9. h = R[2] /\ 2 <= j - i
    <3>1. Len(w) = j - i /\ \A k \in 1..Len(w) : w[k] = R[i + k]
      BY <2>8, SegmentParts
    <3>2. 2 \in 1..Len(w) /\ i + 2 = 2
      BY <1>1, <2>7
    <3>3. w[2] = R[i + 2]
      BY <3>1, <3>2
    <3> QED
      BY <1>1, <3>1, <3>2, <3>3
  <2>10. h.of = Id(r) /\ h.framing = f /\ h.close = c /\ h.to = t
    BY <2>6, <2>9, AnswerParts
  <2>11. at'[r] = "body" /\ req'[r] = q
    BY <1>2, GotoTypes DEF Places, Inv, Types
  <2>12. Id(r)' = Id(r) /\ Len(<<Id(r)>>) = 1
    BY <1>2, <2>11 DEF Id
  <2>13. Taken(r)' = Taken(r) + 2
    <3>1. Len(req'[r].body) = 1
      BY <1>2, <2>10, <2>11, <2>12
    <3> QED
      BY <2>6, <2>7, <2>11, <3>1 DEF Taken
  <2>14. Understood(r, f, c, t)'
    BY <1>2, <2>10, <2>11, <2>12 DEF Understood
  <2> QED
    BY <1>2, <1>4, <2>5, <2>6, <2>9, <2>13, <2>14, Advance
<1> QED
  BY <1>3, <1>4

\* What is left over of another answer, when it spells a head.
LEMMA OutOfStepKeeps ==
  ASSUME Inv, NEW r \in Request, at[r] = "head", OutOfStep(r),
         NEW f \in AllFramings, NEW c \in BOOLEAN, NEW t \in {"here"} \cup Host,
         Begun(r, Part(r).of, f, c, t), Consume(r, 1), Goto(r, "body"), UNCHANGED <<pool, sock, ran>>
  PROVE  Inv'
<1>1. ~Framed
  BY NothingOutOfStep
<1>2. Part(r) \in Parts
  BY ArrivedParts DEF OutOfStep
<1>3. Part(r).of \in Ids
  BY <1>2 DEF Parts
<1>4. PICK q \in Knowledge :
        /\ req' = [req EXCEPT ![r] = q]
        /\ q.host = req[r].host /\ q.home = req[r].home /\ q.away = req[r].away /\ q.auth = req[r].auth
  BY <1>3, BegunKnows DEF Knows
<1> QED
  BY <1>1, <1>4, GoesOn

\* The head of its own answer, what passes for one, or what ends the request.
LEMMA ReadHeadKeeps ==
  ASSUME Inv, NEW r \in Request, ReadHead(r)
  PROVE  Inv'
<1>1. at[r] = "head"
  BY DEF ReadHead
<1>2. CASE \E retriable \in BOOLEAN : Failed(r, retriable)
  BY <1>1, <1>2, FailedKeeps DEF Underway
<1>3. CASE /\ Headed(r) /\ ~OutOfStep(r)
           /\ LET head == wire[sock[r]][2] IN Begun(r, head.of, head.framing, head.close, head.to)
           /\ Consume(r, 2) /\ Goto(r, "body") /\ UNCHANGED <<pool, sock, ran>>
  BY <1>1, <1>3, InStepKeeps
<1>4. CASE /\ OutOfStep(r)
           /\ \E framing \in AllFramings \ {"bodiless"}, close \in BOOLEAN, to \in {"here"} \cup Host :
                 Consistent(framing, close) /\ Begun(r, Part(r).of, framing, close, to)
           /\ Consume(r, 1) /\ Goto(r, "body") /\ UNCHANGED <<pool, sock, ran>>
  BY <1>1, <1>4, OutOfStepKeeps
<1> QED
  BY <1>2, <1>3, <1>4 DEF ReadHead

\* q is what r knows once it has read the whole of its answer.
Whole(r, q) ==
    /\ q \in Knowledge
    /\ q.host = req[r].host /\ q.home = req[r].home /\ q.away = req[r].away /\ q.auth = req[r].auth
    /\ Framed => /\ q.sent = req[r].sent
                 /\ \A i \in DOMAIN q.body : q.body[i] = Id(r)
                 /\ q.head = "eof" \/ Len(q.body) = 2

\* What a request knows when its response is delivered, and after a hop.
Finished(r, q) == [NewRequest(r, q.home) EXCEPT !.sent = q.sent, !.head = q.head, !.body = q.body]
Onward(r, q, auth, safe) == [Hop(r, q) EXCEPT !.auth = auth, !.safe = safe]

LEMMA FinishedTypes ==
  ASSUME NEW r \in Request, NEW q \in Knowledge
  PROVE  LET k == Finished(r, q) IN
         /\ k \in Knowledge /\ k.host = q.home /\ k.home = q.home /\ ~k.away /\ ~k.started /\ ~k.retried
         /\ k.sent = q.sent /\ k.head = q.head /\ k.body = q.body
<1>1. q.home \in Host /\ q.sent \in Nat /\ q.head \in AllFramings \cup {"none"} /\ q.body \in Seq(Ids)
  BY DEF Knowledge
<1>2. PICK n : n = NewRequest(r, q.home)
  OBVIOUS
<1>3. n \in Knowledge /\ n.host = q.home /\ n.home = q.home /\ ~n.started /\ ~n.retried /\ ~n.away
  BY <1>1, <1>2, NewRequestTypes
<1>4. Finished(r, q) = [n EXCEPT !.sent = q.sent, !.head = q.head, !.body = q.body]
  BY <1>2 DEF Finished
<1> QED
  BY <1>1, <1>3, <1>4 DEF Knowledge

LEMMA OnwardTypes ==
  ASSUME NEW r \in Request, NEW q \in Knowledge, q.to # "here", NEW auth \in BOOLEAN, NEW safe \in BOOLEAN
  PROVE  LET k == Onward(r, q, auth, safe) IN
         /\ k \in Knowledge /\ k.host = q.to /\ k.home = q.home /\ (k.away <=> (q.away \/ q.to # q.home))
         /\ k.auth = auth /\ ~k.started /\ ~k.retried
<1>1. q.to \in Host /\ q.home \in Host /\ q.away \in BOOLEAN /\ q.hops + 1 \in Nat /\ q.sent \in Nat
  BY DEF Knowledge
<1>2. PICK n : n = NewRequest(r, q.home)
  OBVIOUS
<1>3. n \in Knowledge /\ n.home = q.home /\ ~n.started /\ ~n.retried
  BY <1>1, <1>2, NewRequestTypes
<1>4. PICK away \in BOOLEAN : away = (q.away \/ q.to # q.home)
  OBVIOUS
<1>5. Onward(r, q, auth, safe) =
        [n EXCEPT !.host = q.to, !.away = away, !.hops = q.hops + 1, !.sent = q.sent, !.auth = auth, !.safe = safe]
  BY <1>2, <1>4 DEF Onward, Hop
<1>6. PICK to, hops, sent : to = q.to /\ hops = q.hops + 1 /\ sent = q.sent
  OBVIOUS
<1>7. PICK m : m = [n EXCEPT !.host = to, !.away = away, !.hops = hops]
  OBVIOUS
<1>8. m \in Knowledge /\ m.host = to /\ m.home = q.home /\ m.away = away /\ ~m.started /\ ~m.retried
  BY <1>1, <1>3, <1>6, <1>7 DEF Knowledge
<1>9. PICK k : k = [m EXCEPT !.sent = sent, !.auth = auth, !.safe = safe]
  OBVIOUS
<1>10. k \in Knowledge
  BY <1>1, <1>6, <1>8, <1>9 DEF Knowledge
<1>11. k.host = to /\ k.home = q.home /\ k.away = away /\ k.auth = auth /\ ~k.started /\ ~k.retried
  BY <1>8, <1>9 DEF Knowledge
<1>12. Onward(r, q, auth, safe) = k
  BY <1>5, <1>6, <1>7, <1>9
<1> QED
  BY <1>4, <1>6, <1>10, <1>11, <1>12

\* The response is delivered, or the redirect it asks for is followed or refused.
LEMMA DeliverKeeps ==
  ASSUME Inv, NEW r \in Request, NEW q, Whole(r, q), Deliver(r, q)
  PROVE  /\ at' \in [Request -> Places] /\ req' \in [Request -> Knowledge] /\ ran' \in [Request -> Nat]
         /\ at'[r] \in Resting /\ RequestOK(r)'
         /\ \A o \in Request : o # r => at'[o] = at[o] /\ req'[o] = req[o] /\ ran'[o] = ran[o]
<1>1. /\ req \in [Request -> Knowledge] /\ ran \in [Request -> Nat] /\ q \in Knowledge
      /\ req[r].home \in Host /\ q.home = req[r].home
      /\ q.auth => q.host = q.home /\ ~q.away
  BY DEF Inv, Types, Knowledge, Whole, RequestOK, Credentials
<1>2. CASE Succeed(r, q)
  <2>1. /\ at' \in [Request -> Places] /\ at'[r] = "ok"
        /\ \A o \in Request : o # r => at'[o] = at[o]
    BY <1>2, GotoTypes DEF Places, Inv, Succeed
  <2>2. PICK k : k = Finished(r, q)
    OBVIOUS
  <2>3. /\ k \in Knowledge /\ k.host = k.home /\ ~k.away /\ ~k.started /\ ~k.retried
        /\ k.sent = q.sent /\ k.head = q.head /\ k.body = q.body
    BY <1>1, <2>2, FinishedTypes
  <2>4. req' \in [Request -> Knowledge] /\ req'[r] = k /\ \A o \in Request : o # r => req'[o] = req[o]
    <3>1. req' = [req EXCEPT ![r] = k]
      BY <1>2, <2>2 DEF Succeed, Finished
    <3> QED
      BY <1>1, <2>3, <3>1
  <2>5. Credentials(r)' /\ Connected(r)' /\ Exchange(r)' /\ Attempts(r)'
    BY <2>1, <2>3, <2>4 DEF Credentials, Connected, Exchange, Attempts
  <2>6. Framed => Delivered(r)'
    BY <2>3, <2>4 DEF Delivered, Whole, Id
  <2> QED
    BY <1>1, <1>2, <2>1, <2>4, <2>5, <2>6 DEF Succeed, RequestOK, Resting
<1>3. CASE Fail(r) /\ UNCHANGED ran
  <2>1. /\ at' \in [Request -> Places] /\ at'[r] = "failed"
        /\ \A o \in Request : o # r => at'[o] = at[o]
    BY <1>3, GotoTypes DEF Places, Inv, Fail
  <2>2. /\ req' \in [Request -> Knowledge] /\ req'[r] = NewRequest(r, req[r].home)
        /\ \A o \in Request : o # r => req'[o] = req[o]
    BY <1>1, <1>3, NewRequestTypes DEF Fail
  <2>3. req'[r].host = req'[r].home /\ ~req'[r].retried /\ ~req'[r].away
    BY <1>1, <2>2, NewRequestTypes
  <2>4. RequestOK(r)'
    BY <2>1, <2>3 DEF RequestOK, Exchange, Attempts, Credentials, Connected, Delivered
  <2> QED
    BY <1>1, <1>3, <2>1, <2>2, <2>4 DEF Resting
<1>4. CASE /\ q.to # "here"
           /\ \E get \in BOOLEAN :
                 req' = [req EXCEPT ![r] = [Hop(r, q) EXCEPT !.auth = q.auth /\ q.to = q.host, !.safe = q.safe \/ get]]
           /\ ran' = [ran EXCEPT ![r] = 0] /\ Goto(r, "acquire")
  <2>1. /\ at' \in [Request -> Places] /\ at'[r] = "acquire"
        /\ \A o \in Request : o # r => at'[o] = at[o]
    BY <1>4, GotoTypes DEF Places, Inv
  <2>2. ran' \in [Request -> Nat] /\ ran'[r] = 0 /\ \A o \in Request : o # r => ran'[o] = ran[o]
    BY <1>1, <1>4
  <2>3. PICK get \in BOOLEAN :
          req' = [req EXCEPT ![r] = [Hop(r, q) EXCEPT !.auth = q.auth /\ q.to = q.host, !.safe = q.safe \/ get]]
    BY <1>4
  <2>4. PICK auth \in BOOLEAN : auth = (q.auth /\ q.to = q.host)
    OBVIOUS
  <2>5. PICK safe \in BOOLEAN : safe = (q.safe \/ get)
    OBVIOUS
  <2>6. PICK k : k = Onward(r, q, auth, safe)
    OBVIOUS
  <2>7. /\ k \in Knowledge /\ k.host = q.to /\ k.home = q.home /\ (k.away <=> (q.away \/ q.to # q.home))
        /\ k.auth = auth /\ ~k.started /\ ~k.retried
    BY <1>1, <1>4, <2>6, OnwardTypes
  <2>8. req' = [req EXCEPT ![r] = k]
    BY <2>3, <2>4, <2>5, <2>6 DEF Onward
  <2>9. req' \in [Request -> Knowledge] /\ req'[r] = k /\ \A o \in Request : o # r => req'[o] = req[o]
    BY <1>1, <2>7, <2>8
  <2>10. Credentials(r)'
    BY <1>1, <2>4, <2>7, <2>9 DEF Credentials
  <2>11. Connected(r)' /\ Exchange(r)' /\ Attempts(r)' /\ Delivered(r)'
    BY <2>1, <2>2, <2>7, <2>9 DEF Connected, Exchange, Attempts, Delivered
  <2> QED
    BY <2>1, <2>2, <2>9, <2>10, <2>11 DEF RequestOK, Resting
<1> QED
  BY <1>2, <1>3, <1>4 DEF Deliver

\* What is left of a sequence after its first m elements is one over the same set.
LEMMA RestOfSeq ==
  ASSUME NEW S, NEW w \in Seq(S), NEW m \in Nat
  PROVE  SubSeq(w, m + 1, Len(w)) \in Seq(S)
<1>1. Len(w) \in Nat /\ \A i \in 1..Len(w) : w[i] \in S
  BY LenProperties, ElementOfSeq
<1>2. \A i \in (m + 1)..Len(w) : w[i] \in S
  BY <1>1
<1> QED
  BY <1>1, <1>2, SubSeqProperties

(* The connection goes back to the pool, with nothing on it if every       *)
(* answer says where it ends, or it is closed.                             *)
LEMMA CompleteKeeps ==
  ASSUME Inv, NEW r \in Request, at[r] \in {"body", "trailers"}, NEW q, Whole(r, q),
         NEW n \in Nat, NEW keep \in BOOLEAN, Complete(r, q, n, keep), NEW c, c = sock[r],
         Framed /\ keep => /\ inbox[c] = <<>> /\ plan[c] = <<>>
                           /\ \A m \in n..Len(wire[c]) : SubSeq(wire[c], m + 1, Len(wire[c])) = <<>>
  PROVE  Inv'
<1> DEFINE h == req[r].host
<1>1. c \in Socket /\ h \in Host /\ at[r] \notin Resting
  BY DEF Inv, Holding, Resting, Types, TypeOK, Knowledge
<1>2. Settle(r, n, keep) /\ Deliver(r, q) /\ Hold(r, NoSocket)
  BY DEF Complete, Settle
<1>3. /\ at' \in [Request -> Places] /\ req' \in [Request -> Knowledge] /\ ran' \in [Request -> Nat]
      /\ at'[r] \in Resting /\ RequestOK(r)'
      /\ \A o \in Request : o # r => at'[o] = at[o] /\ req'[o] = req[o] /\ ran'[o] = ran[o]
  BY <1>2, DeliverKeeps
<1>4. sock' \in [Request -> Socket \cup {NoSocket}] /\ \A o \in Request : o # r => sock'[o] = sock[o]
  BY <1>2, HoldTypes DEF Inv
<1>5. CASE keep /\ Len(pool[h]) < MaxPerHost
  <2>1. PICK m \in n..Len(wire[c]) : wire' = [wire EXCEPT ![c] = SubSeq(@, m + 1, Len(@))]
    BY <1>2, <1>5 DEF Settle
  <2>2. pool' = [pool EXCEPT ![h] = Append(@, c)] /\ UNCHANGED <<peer, inbox, plan, end>>
    BY <1>2, <1>5 DEF Settle
  <2>3. PICK rest : rest = SubSeq(wire[c], m + 1, Len(wire[c]))
    OBVIOUS
  <2>4. wire' = [wire EXCEPT ![c] = rest] /\ rest \in Seq(Parts)
    <3>1. wire[c] \in Seq(Parts) /\ m \in Nat
      BY <1>1, <2>1 DEF Inv, Types, NetworkTypes
    <3> QED
      BY <2>1, <2>3, <3>1, RestOfSeq
  <2>5. /\ wire' \in [Socket -> Seq(Parts)] /\ wire'[c] = rest
        /\ \A s \in Socket : s # c => wire'[s] = wire[s]
    BY <1>1, <2>4 DEF Inv, Types, NetworkTypes
  <2>6. Framed => Reusable(c)'
    BY <1>5, <2>1, <2>2, <2>3, <2>5 DEF Reusable, Quiet
  <2>7. StepOf(r)
    BY <1>3, <1>4, <2>2, <2>5 DEF StepOf, SameRequest, SameConnection
  <2>8. Types'
    <3>1. pool' \in [Host -> Seq(Socket)]
      BY <1>1, <2>2 DEF Inv, Types, TypeOK
    <3> QED
      BY <1>3, <1>4, <2>2, <2>5, <3>1 DEF Inv, Types, TypeOK, NetworkTypes
  <2>9. end'[c] = h
    BY <2>2 DEF Inv, RequestOK, Connected
  <2> QED
    BY <1>1, <1>2, <1>3, <1>5, <2>2, <2>6, <2>7, <2>8, <2>9, GiveBack
<1>6. CASE ~(keep /\ Len(pool[h]) < MaxPerHost)
  <2>1. Hangup({c}) /\ UNCHANGED pool
    BY <1>2, <1>6 DEF Settle
  <2>2. /\ NetworkTypes'
        /\ \A s \in Socket : s # c => SameConnection(s)
        /\ Silent(c)'
    BY <1>1, <2>1, HangupOne DEF Inv, Types
  <2>3. StepOf(r)
    BY <1>3, <1>4, <2>2 DEF StepOf, SameRequest
  <2>4. Types'
    BY <1>3, <1>4, <2>1, <2>2 DEF Inv, Types, TypeOK, NetworkTypes
  <2> QED
    BY <1>1, <1>2, <1>3, <2>1, <2>2, <2>3, <2>4, GiveUp
<1> QED
  BY <1>5, <1>6

\* What a request knows in the body and in the trailers, and how much it has read.
LEMMA BodyFacts ==
  ASSUME Inv, Framed, NEW r \in Request, at[r] \in {"body", "trailers"},
         NEW f \in AllFramings, NEW c \in BOOLEAN, NEW t \in Targets(r),
         Possible(r, f, c, t), Understood(r, f, c, t)
  PROVE  /\ req[r] \in Knowledge /\ req[r].started /\ Id(r) \in Ids
         /\ req[r].head = f /\ req[r].close = c /\ req[r].to = t
         /\ f # "bare" /\ (f = "eof" => c)
         /\ \A i \in DOMAIN req[r].body : req[r].body[i] = Id(r)
         /\ \/ at[r] = "body" /\ Taken(r) = 2 /\ req[r].body = <<Id(r)>>
            \/ at[r] = "body" /\ Taken(r) = 3 /\ req[r].body = <<Id(r), Id(r)>> /\ f \in {"chunked", "eof"}
            \/ at[r] = "trailers" /\ Taken(r) = 4 /\ req[r].body = <<Id(r), Id(r)>> /\ f = "chunked"
<1>1. req[r] \in Knowledge /\ req[r].started
  BY DEF Inv, Types, RequestOK, Attempts
<1>2. Id(r) \in Ids
  BY <1>1 DEF Id, Ids, Knowledge
<1>3. /\ req[r].head = f /\ req[r].close = c /\ req[r].to = t
      /\ \/ at[r] = "body" /\ req[r].body = <<Id(r)>>
         \/ at[r] = "body" /\ req[r].body = <<Id(r), Id(r)>> /\ f \in {"chunked", "eof"}
         \/ at[r] = "trailers" /\ req[r].body = <<Id(r), Id(r)>> /\ f = "chunked"
  BY DEF Understood
<1>4. Len(<<Id(r)>>) = 1 /\ Len(<<Id(r), Id(r)>>) = 2
  OBVIOUS
<1>5. (at[r] = "body" => Taken(r) = Len(req[r].body) + 1) /\ (at[r] = "trailers" => Taken(r) = 4)
  BY DEF Taken
<1>6. \A i \in DOMAIN req[r].body : req[r].body[i] = Id(r)
  <2>1. (\A i \in DOMAIN <<Id(r)>> : <<Id(r)>>[i] = Id(r)) /\ (\A i \in DOMAIN <<Id(r), Id(r)>> : <<Id(r), Id(r)>>[i] = Id(r))
    OBVIOUS
  <2> QED
    BY <1>3, <2>1
<1>7. f # "bare" /\ (f = "eof" => c)
  BY DEF Possible, Consistent
<1>8. PICK x, y : x = <<Id(r)>> /\ y = <<Id(r), Id(r)>>
  OBVIOUS
<1>9. Len(x) = 1 /\ Len(y) = 2
  BY <1>4, <1>8
<1>10. \/ at[r] = "body" /\ Taken(r) = 2 /\ req[r].body = x
       \/ at[r] = "body" /\ Taken(r) = 3 /\ req[r].body = y /\ f \in {"chunked", "eof"}
       \/ at[r] = "trailers" /\ Taken(r) = 4 /\ req[r].body = y /\ f = "chunked"
  <2>1. CASE at[r] = "body" /\ req[r].body = x
    <3>1. Taken(r) = Len(x) + 1
      BY <1>5, <2>1
    <3>2. Taken(r) = 2
      BY <1>9, <3>1
    <3> QED
      BY <2>1, <3>2
  <2>2. CASE at[r] = "body" /\ req[r].body = y /\ f \in {"chunked", "eof"}
    <3>1. Taken(r) = Len(y) + 1
      BY <1>5, <2>2
    <3>2. Taken(r) = 3
      BY <1>9, <3>1
    <3> QED
      BY <2>2, <3>2
  <2>3. CASE at[r] = "trailers" /\ req[r].body = y /\ f = "chunked"
    BY <1>5, <2>3
  <2> QED
    BY <1>3, <1>8, <2>1, <2>2, <2>3
<1> QED
  BY <1>1, <1>2, <1>3, <1>6, <1>7, <1>8, <1>10

\* Nothing is left on a connection whose answer was read to its last part.
LEMMA NothingRemains ==
  ASSUME NEW r \in Request, NEW f \in AllFramings, NEW c \in BOOLEAN, NEW t,
         NEW j, Reading(r, f, c, t, j), Arrived(r),
         Taken(r) + 1 = Len(Answer(r, f, c, t)), NEW s, s = sock[r]
  PROVE  /\ inbox[s] = <<>> /\ plan[s] = <<>>
         /\ \A m \in 1..Len(wire[s]) : SubSeq(wire[s], m + 1, Len(wire[s])) = <<>>
<1>1. PICK S, R, i, w : S = PartsOf(Id(r), f, c, t) /\ R = Answer(r, f, c, t) /\ i = Taken(r) /\ w = wire[s]
  OBVIOUS
<1>2. Len(R) \in Nat /\ i < j /\ j <= Len(R) /\ i \in Nat
  <2>1. /\ Len(Answer(r, f, c, t)) \in Nat /\ Taken(r) < j /\ j <= Len(Answer(r, f, c, t))
    BY NextPart
  <2> QED
    BY <1>1, <2>1 DEF Reading
<1>3. IsSegment(S, R, i, j, w)
  BY <1>1, Coming
<1>4. Len(w) = j - i /\ j \in Nat
  BY <1>3, SegmentParts
<1>5. j = Len(R) /\ Len(w) = 1
  BY <1>1, <1>2, <1>4
<1>6. inbox[s] = <<>> /\ plan[s] = IF peer[s] = "up" THEN SubSeq(R, j + 1, Len(R)) ELSE <<>>
  BY <1>1 DEF Reading, Arriving
<1>7. plan[s] = <<>>
  BY <1>2, <1>5, <1>6, SubSeqEmpty
<1>8. SubSeq(w, 1 + 1, 1) = <<>>
  BY SubSeqEmpty
<1>9. \A m \in 1..1 : m = 1
  OBVIOUS
<1> QED
  BY <1>1, <1>5, <1>6, <1>7, <1>8, <1>9

\* Which part of its answer r has before it, if it is in the body.
LEMMA BodyPart ==
  ASSUME Inv, Framed, NEW r \in Request, at[r] = "body", Arrived(r),
         NEW f \in AllFramings, NEW c \in BOOLEAN, NEW t \in Targets(r),
         Possible(r, f, c, t), Understood(r, f, c, t), NEW j, Reading(r, f, c, t, j)
  PROVE  /\ Taken(r) + 1 <= j
         /\ \/ Taken(r) = 2 /\ f # "bodiless" /\ Part(r).part = "data" /\ Part(r).of = Id(r)
            \/ Taken(r) = 3 /\ f = "chunked" /\ Part(r).part = "last"
<1>1. PICK R : R = Answer(r, f, c, t)
  OBVIOUS
<1>2. Len(R) \in Nat /\ Taken(r) < j /\ j <= Len(R) /\ Part(r) = R[Taken(r) + 1] /\ R[j].part # "fin"
  BY <1>1, NextPart
<1>3. /\ Len(R) = Size(f, c)
      /\ f # "bodiless" => R[3].part = "data" /\ R[3].of = Id(r)
      /\ f = "chunked" => R[4].part = "last"
      /\ c => R[Len(R)].part = "fin"
  BY <1>1, AnswerParts
<1>4. f # "bare" /\ (f = "eof" => c) /\ (Taken(r) = 2 \/ (Taken(r) = 3 /\ f \in {"chunked", "eof"}))
  BY BodyFacts
<1>5. j \in Nat
  BY <1>2, <1>4 DEF Reading
<1>6. CASE Taken(r) = 2
  <2>1. f # "bodiless"
    <3> SUFFICES ASSUME f = "bodiless" PROVE FALSE
      OBVIOUS
    <3>1. Len(R) = IF c THEN 3 ELSE 2
      BY <1>3 DEF Size
    <3>2. c /\ j = Len(R)
      BY <1>2, <1>5, <1>6, <3>1
    <3> QED
      BY <1>2, <1>3, <3>2
  <2> QED
    BY <1>2, <1>3, <1>5, <1>6, <2>1
<1>7. CASE Taken(r) = 3 /\ f = "chunked"
  BY <1>2, <1>3, <1>5, <1>7
<1>8. CASE Taken(r) = 3 /\ f = "eof"
  <2>1. Len(R) = 4
    BY <1>3, <1>4, <1>8 DEF Size
  <2>2. j = Len(R)
    BY <1>2, <1>5, <1>8, <2>1
  <2> QED
    BY <1>2, <1>3, <1>4, <1>8, <2>2
<1> QED
  BY <1>4, <1>6, <1>7, <1>8

\* One part of a body, in an answer that says where it ends.
LEMMA ReadDataKeeps ==
  ASSUME Inv, Framed, NEW r \in Request, at[r] = "body", req[r].head # "bare", ReadData(r),
         NEW f \in AllFramings, NEW c \in BOOLEAN, NEW t \in Targets(r),
         Possible(r, f, c, t), Understood(r, f, c, t), NEW j, Reading(r, f, c, t, j)
  PROVE  Inv'
<1>1. /\ req[r] \in Knowledge /\ req[r].started /\ Id(r) \in Ids
      /\ req[r].head = f /\ req[r].close = c /\ f # "bare"
      /\ Taken(r) = 2 => req[r].body = <<Id(r)>>
  BY BodyFacts
<1>2. Arrived(r) /\ (f = "chunked" => Part(r).part = "data")
  BY <1>1 DEF ReadData, Data
<1>3. Taken(r) = 2 /\ f # "bodiless" /\ Part(r).of = Id(r) /\ 1 <= j - Taken(r) /\ j \in Nat
  <2>1. /\ Taken(r) + 1 <= j
        /\ \/ Taken(r) = 2 /\ f # "bodiless" /\ Part(r).part = "data" /\ Part(r).of = Id(r)
           \/ Taken(r) = 3 /\ f = "chunked" /\ Part(r).part = "last"
    BY <1>2, BodyPart
  <2>2. Taken(r) = 2 /\ f # "bodiless" /\ Part(r).of = Id(r)
    BY <1>2, <2>1
  <2>3. j \in Nat
    BY <2>2 DEF Reading
  <2> QED
    BY <2>1, <2>2, <2>3
<1>4. PICK q : q = WithData(r)
  OBVIOUS
<1>5. /\ q \in Knowledge /\ q.started = req[r].started /\ q.head = f /\ q.close = c /\ q.to = req[r].to
      /\ q.sent = req[r].sent /\ q.host = req[r].host /\ q.home = req[r].home /\ q.away = req[r].away
      /\ q.auth = req[r].auth /\ q.retried = req[r].retried /\ q.safe = req[r].safe
      /\ q.body = <<Id(r), Id(r)>>
  <2>1. Append(<<Id(r)>>, Id(r)) = <<Id(r), Id(r)>> /\ <<Id(r), Id(r)>> \in Seq(Ids)
    <3>1. PICK id \in Ids : id = Id(r)
      BY <1>1
    <3>2. Append(<<id>>, id) = <<id, id>> /\ <<id, id>> \in Seq(Ids)
      BY AppendToOne
    <3> QED
      BY <3>1, <3>2
  <2>2. q = [req[r] EXCEPT !.body = <<Id(r), Id(r)>>]
    BY <1>1, <1>3, <1>4, <2>1 DEF WithData
  <2> QED
    BY <1>1, <2>1, <2>2 DEF Knowledge
<1>6. Len(q.body) = 2 /\ \A i \in DOMAIN q.body : q.body[i] = Id(r)
  <2>1. Len(<<Id(r), Id(r)>>) = 2 /\ \A i \in DOMAIN <<Id(r), Id(r)>> : <<Id(r), Id(r)>>[i] = Id(r)
    OBVIOUS
  <2> QED
    BY <1>5, <2>1
<1>7. CASE f = "length"
  <2>1. Complete(r, q, 1, Keep(r)) /\ Keep(r) = ~c /\ Keep(r) \in BOOLEAN
    BY <1>1, <1>4, <1>7 DEF ReadData, Keep
  <2>2. Whole(r, q)
    BY <1>5, <1>6 DEF Whole
  <2>3. PICK s : s = sock[r]
    OBVIOUS
  <2>4. ASSUME Keep(r)
        PROVE  /\ inbox[s] = <<>> /\ plan[s] = <<>>
               /\ \A m \in 1..Len(wire[s]) : SubSeq(wire[s], m + 1, Len(wire[s])) = <<>>
    <3>0. ~c
      BY <2>1, <2>4
    <3>1. Len(Answer(r, f, c, t)) = Size(f, c)
      BY AnswerParts
    <3>2. Taken(r) + 1 = Len(Answer(r, f, c, t))
      BY <1>3, <1>7, <3>0, <3>1 DEF Size
    <3> QED
      BY <1>2, <2>3, <3>2, NothingRemains
  <2> QED
    BY <2>1, <2>2, <2>3, <2>4, CompleteKeeps
<1>8. CASE f # "length"
  <2>1. Read(r, q, "body")
    BY <1>1, <1>3, <1>4, <1>8 DEF ReadData
  <2>2. Consume(r, 1) /\ req' = [req EXCEPT ![r] = q] /\ Goto(r, "body") /\ UNCHANGED <<pool, sock, ran>>
    BY <2>1 DEF Read
  <2>3. f \in {"chunked", "eof"}
    BY <1>1, <1>3, <1>8 DEF AllFramings
  <2>4. req'[r] = q /\ at'[r] = "body"
    BY <2>2 DEF Inv, Types, TypeOK, Goto
  <2>5. Taken(r)' = Taken(r) + 1
    <3>1. Taken(r)' = Len(q.body) + 1
      BY <2>4 DEF Taken
    <3> QED
      BY <1>3, <1>6, <3>1
  <2>6. Id(r)' = Id(r)
    BY <1>5, <2>4 DEF Id
  <2>7. Understood(r, f, c, t)'
    <3>1. req[r].to = t
      BY BodyFacts
    <3> QED
      BY <1>5, <2>3, <2>4, <2>6, <3>1 DEF Understood
  <2> QED
    BY <1>1, <1>3, <1>5, <2>2, <2>5, <2>7, Advance
<1> QED
  BY <1>7, <1>8

\* A part of the body or its end, in an answer that says where it ends.
LEMMA ReadBodyFramed ==
  ASSUME Inv, Framed, NEW r \in Request, ReadBody(r)
  PROVE  Inv'
<1>1. at[r] = "body" /\ req[r] \in Knowledge /\ Answering(r)
  BY DEF ReadBody, Inv, Types, RequestOK, Exchange
<1>2. PICK f \in AllFramings, c \in BOOLEAN, t \in Targets(r) :
        \E j : Possible(r, f, c, t) /\ Understood(r, f, c, t) /\ Reading(r, f, c, t, j)
  BY <1>1, AnsweringPick
<1>3. PICK j : Possible(r, f, c, t) /\ Understood(r, f, c, t) /\ Reading(r, f, c, t, j)
  BY <1>2
<1>4. /\ req[r].started /\ req[r].head = f /\ req[r].close = c /\ req[r].to = t /\ f # "bare"
      /\ \A i \in DOMAIN req[r].body : req[r].body[i] = Id(r)
      /\ \/ Taken(r) = 2
         \/ Taken(r) = 3 /\ req[r].body = <<Id(r), Id(r)>>
  BY <1>1, <1>3, BodyFacts
<1>5. CASE \E retriable \in BOOLEAN : Failed(r, retriable)
  BY <1>1, <1>5, FailedKeeps DEF Underway
<1>6. CASE req[r].head # "bare" /\ ReadData(r)
  BY <1>1, <1>3, <1>6, ReadDataKeeps
<1>7. CASE req[r].head = "eof" /\ Complete(r, req[r], 0, FALSE)
  <2>1. Whole(r, req[r])
    BY <1>1, <1>4, <1>7 DEF Whole
  <2> QED
    BY <1>1, <1>7, <2>1, CompleteKeeps
<1>8. CASE req[r].head = "chunked" /\ Arrived(r) /\ Part(r).part = "last" /\ Read(r, req[r], "trailers")
  <2>1. Consume(r, 1) /\ req' = [req EXCEPT ![r] = req[r]] /\ Goto(r, "trailers") /\ UNCHANGED <<pool, sock, ran>>
    BY <1>8 DEF Read
  <2>2. Taken(r) = 3 /\ req[r].body = <<Id(r), Id(r)>> /\ f = "chunked" /\ Taken(r) + 1 <= j
    BY <1>1, <1>3, <1>4, <1>8, BodyPart
  <2>3. req'[r] = req[r] /\ at'[r] = "trailers"
    BY <1>1, <2>1 DEF Inv, Types, TypeOK, Goto
  <2>4. Taken(r)' = Taken(r) + 1
    BY <2>2, <2>3 DEF Taken
  <2>5. Id(r)' = Id(r)
    BY <2>3 DEF Id
  <2>6. Understood(r, f, c, t)'
    BY <1>4, <2>2, <2>3, <2>5 DEF Understood
  <2>7. 1 <= j - Taken(r)
    <3>1. j \in Nat
      BY <1>3, <2>2 DEF Reading
    <3> QED
      BY <2>2, <3>1
  <2> QED
    BY <1>1, <1>3, <1>4, <2>1, <2>4, <2>6, <2>7, Advance
<1> QED
  BY <1>4, <1>5, <1>6, <1>7, <1>8 DEF ReadBody, BodyCut

\* The same when leftovers of another answer may be among what is read.
LEMMA ReadBodyUnframed ==
  ASSUME Inv, ~Framed, NEW r \in Request, ReadBody(r)
  PROVE  Inv'
<1>1. at[r] = "body" /\ req[r] \in Knowledge
  BY DEF ReadBody, Inv, Types
<1>2. CASE \E retriable \in BOOLEAN : Failed(r, retriable)
  BY <1>1, <1>2, FailedKeeps DEF Underway
<1>3. ASSUME Arrived(r), NEW q, q = WithData(r)
      PROVE  q \in Knowledge /\ q.host = req[r].host /\ q.home = req[r].home /\ q.away = req[r].away /\ q.auth = req[r].auth
  <2>1. Part(r).of \in Ids
    <3>1. Part(r) \in Parts
      BY <1>1, <1>3, ArrivedParts
    <3> QED
      BY <3>1 DEF Parts
  <2>2. PICK b : b = Append(req[r].body, Part(r).of)
    OBVIOUS
  <2>3. b \in Seq(Ids)
    <3>1. req[r].body \in Seq(Ids)
      BY <1>1 DEF Knowledge
    <3> QED
      BY <2>1, <2>2, <3>1, AppendProperties
  <2>4. q = [req[r] EXCEPT !.body = b]
    BY <1>1, <1>3, <2>2 DEF WithData
  <2> QED
    BY <1>1, <2>3, <2>4 DEF Knowledge
<1>4. Whole(r, req[r]) /\ Keep(r) \in BOOLEAN
  BY <1>1 DEF Whole, Keep
<1>5. CASE ReadData(r)
  <2>1. PICK q : q = WithData(r)
    OBVIOUS
  <2>2. q \in Knowledge /\ q.host = req[r].host /\ q.home = req[r].home /\ q.away = req[r].away /\ q.auth = req[r].auth
    BY <1>3, <1>5, <2>1 DEF ReadData, Data
  <2>3. CASE Complete(r, q, 1, Keep(r))
    <3>1. Whole(r, q)
      BY <2>2 DEF Whole
    <3> QED
      BY <1>1, <1>4, <2>3, <3>1, CompleteKeeps
  <2>4. CASE Read(r, q, "body")
    BY <1>1, <2>2, <2>4, GoesOn DEF Read
  <2> QED
    BY <1>5, <2>1, <2>3, <2>4 DEF ReadData
<1>6. CASE Complete(r, req[r], 0, FALSE)
  BY <1>1, <1>4, <1>6, CompleteKeeps
<1>7. CASE Complete(r, req[r], 0, Keep(r))
  BY <1>1, <1>4, <1>7, CompleteKeeps
<1>8. CASE Read(r, req[r], "trailers")
  BY <1>1, <1>8, GoesOn DEF Read
<1> QED
  BY <1>2, <1>5, <1>6, <1>7, <1>8 DEF ReadBody, BodyCut

\* A part of the body or its end.
LEMMA ReadBodyKeeps ==
  ASSUME Inv, NEW r \in Request, ReadBody(r)
  PROVE  Inv'
BY ReadBodyFramed, ReadBodyUnframed

\* The end of a chunked body: the connection is kept if it came, and closed otherwise.
LEMMA ReadTrailersKeeps ==
  ASSUME Inv, NEW r \in Request, ReadTrailers(r)
  PROVE  Inv'
<1>0. PICK s : s = sock[r]
  OBVIOUS
<1>1. at[r] = "trailers" /\ req[r] \in Knowledge /\ Keep(r) \in BOOLEAN
  BY DEF ReadTrailers, Inv, Types, Keep
<1>2. ASSUME Framed
      PROVE  \E f \in AllFramings, c \in BOOLEAN, t \in Targets(r) :
                \E j : Possible(r, f, c, t) /\ Understood(r, f, c, t) /\ Reading(r, f, c, t, j)
  <2>1. Answering(r)
    BY <1>1, <1>2 DEF Inv, RequestOK, Exchange
  <2> QED
    BY <2>1, AnsweringPick
<1>3. Whole(r, req[r])
  <2>1. ASSUME Framed
        PROVE  (\A i \in DOMAIN req[r].body : req[r].body[i] = Id(r)) /\ Len(req[r].body) = 2
    <3>1. PICK f \in AllFramings, c \in BOOLEAN, t \in Targets(r) : Possible(r, f, c, t) /\ Understood(r, f, c, t)
      BY <1>2, <2>1
    <3>2. (\A i \in DOMAIN req[r].body : req[r].body[i] = Id(r)) /\ req[r].body = <<Id(r), Id(r)>>
      BY <1>1, <2>1, <3>1, BodyFacts
    <3>3. Len(<<Id(r), Id(r)>>) = 2
      OBVIOUS
    <3> QED
      BY <3>2, <3>3
  <2> QED
    BY <1>1, <2>1 DEF Whole
<1>4. CASE Arrived(r) /\ Complete(r, req[r], 1, Keep(r))
  <2>1. ASSUME Framed, Keep(r)
        PROVE  /\ inbox[s] = <<>> /\ plan[s] = <<>>
               /\ \A m \in 1..Len(wire[s]) : SubSeq(wire[s], m + 1, Len(wire[s])) = <<>>
    <3>1. PICK f \in AllFramings, c \in BOOLEAN, t \in Targets(r) :
            \E j : Possible(r, f, c, t) /\ Understood(r, f, c, t) /\ Reading(r, f, c, t, j)
      BY <1>2, <2>1
    <3>2. PICK j : Possible(r, f, c, t) /\ Understood(r, f, c, t) /\ Reading(r, f, c, t, j)
      BY <3>1
    <3>3. Taken(r) = 4 /\ f = "chunked" /\ ~c
      BY <1>1, <2>1, <3>2, BodyFacts DEF Keep
    <3>4. Len(Answer(r, f, c, t)) = Size(f, c)
      BY AnswerParts
    <3>5. Taken(r) + 1 = Len(Answer(r, f, c, t))
      BY <3>3, <3>4 DEF Size
    <3> QED
      BY <1>0, <1>4, <3>2, <3>5, NothingRemains
  <2> QED
    BY <1>0, <1>1, <1>3, <1>4, <2>1, CompleteKeeps
<1>5. CASE Complete(r, req[r], 0, FALSE)
  BY <1>0, <1>1, <1>3, <1>5, CompleteKeeps
<1> QED
  BY <1>4, <1>5 DEF ReadTrailers

-----------------------------------------------------------------------------
(* The steps of the servers.                                               *)

(* A step of the server of s: if s is idle it stays fit for use, and if it *)
(* is held, its holder's view of it stays right.                           *)
LEMMA ServerStep ==
  ASSUME Inv, NEW s \in Socket, UNCHANGED <<pool, at, sock, req, end>>,
         \A z \in Socket : z # s => SameConnection(z), NetworkTypes', ran' \in [Request -> Nat],
         s \notin Unused,
         Framed => /\ s \in Pooled => Reusable(s)'
                   /\ \A q \in Request : sock[q] # s => ran'[q] = ran[q]
                   /\ \A q \in Request : sock[q] = s => Exchange(q)' /\ Attempts(q)'
  PROVE  Inv'
<1>1. Types'
  BY DEF Inv, Types, TypeOK, NetworkTypes
<1>2. Pooled' = Pooled /\ Unused' = Unused
  BY DEF Pooled, Unused
<1>3. Holding' /\ OneUser' /\ PoolsAreShort' /\ PooledByHost'
  BY <1>2 DEF Inv, Holding, OneUser, PoolsAreShort, PooledByHost
<1>4. ASSUME NEW q \in Request PROVE RequestOK(q)'
  <2>1. Credentials(q)' /\ Connected(q)'
    BY DEF Inv, RequestOK, Credentials, Connected
  <2>2. CASE ~Framed
    BY <2>1, <2>2 DEF RequestOK
  <2>3. CASE Framed /\ sock[q] = s
    <3>1. Delivered(q)'
      BY <2>3 DEF Inv, RequestOK, Delivered, Id
    <3> QED
      BY <2>1, <2>3, <3>1 DEF RequestOK
  <2>4. CASE Framed /\ sock[q] # s
    <3>1. SameRequest(q)
      BY <2>4 DEF SameRequest
    <3>2. at[q] \notin Resting => SameConnection(sock[q])
      BY <2>4 DEF Inv, Holding, Types, TypeOK
    <3> QED
      BY <3>1, <3>2, SameView DEF Inv
  <2> QED
    BY <2>2, <2>3, <2>4
<1>5. Framed => \A z \in Pooled : Reusable(z)'
  BY PoolMembers, SameIdle DEF Inv
<1>6. \A z \in Unused : Silent(z)'
  BY SameIdle DEF Inv, Unused
<1> QED
  BY <1>1, <1>2, <1>3, <1>4, <1>5, <1>6 DEF Inv

\* A server whose inbox is not empty has the request of the one who holds the connection.
LEMMA Requested ==
  ASSUME Inv, Framed, NEW s \in Socket, inbox[s] # <<>>
  PROVE  \E r \in Request : /\ sock[r] = s /\ at[r] = "head" /\ Asked(r)
                            /\ inbox[s] = <<Id(r)>> /\ peer[s] = "up"
<1>1. s \notin Pooled /\ s \notin Unused
  BY DEF Inv, Reusable, Silent
<1>2. PICK r \in Request : sock[r] = s
  BY <1>1 DEF Unused
<1>3. Exchange(r) /\ at[r] \in Places /\ at[r] \notin Resting
  BY <1>2, NoSocketAssumption DEF Inv, Types, TypeOK, Holding, RequestOK
<1>4. ~Silent(s) /\ ~Reusable(s)
  BY DEF Silent, Reusable
<1>5. ~Answering(r)
  BY <1>2 DEF Answering, Arriving
<1>6. at[r] = "head" /\ Asked(r)
  BY <1>2, <1>3, <1>4, <1>5 DEF Exchange, Places, Resting
<1>7. inbox[s] = <<Id(r)>> /\ peer[s] = "up"
  BY <1>2, <1>6 DEF Asked
<1> QED
  BY <1>2, <1>6, <1>7

\* A response consists of parts.
LEMMA ResponseTypes ==
  ASSUME NEW id \in Ids, NEW f \in AllFramings, NEW c \in BOOLEAN, NEW t \in Host \cup {"here"}
  PROVE  Response(id, f, c, t) \in Seq(Parts)
<1>1. Response(id, f, c, t) \in Seq(PartsOf(id, f, c, t))
  BY ResponseShape DEF Shape
<1>2. HeadPart(id, f, c, t) \in Parts
  BY DEF HeadPart, Parts
<1>3. \A p \in {"line", "data", "last", "crlf", "fin"} : Piece(id, p) \in Parts
  BY DEF Piece, Parts
<1>4. PartsOf(id, f, c, t) \subseteq Parts
  BY <1>2, <1>3 DEF PartsOf
<1> HIDE DEF Response
<1> QED
  BY <1>1, <1>4

\* The first and the others of a sequence.
LEMMA HeadAndTail ==
  ASSUME NEW S, NEW w \in Seq(S), w # <<>>
  PROVE  Head(w) \in S /\ Tail(w) \in Seq(S)
<1>1. Len(w) \in Nat /\ Len(w) # 0
  BY LenProperties, EmptySeq
<1>2. 1 \in 1..Len(w)
  BY <1>1
<1> QED
  BY <1>2, ElementOfSeq

\* A server carries out a request and makes up its answer.
LEMMA ServeKeeps ==
  ASSUME Inv, NEW s \in Socket, Serve(s)
  PROVE  Inv'
<1>1. peer[s] = "up" /\ plan[s] = <<>> /\ inbox[s] # <<>> /\ UNCHANGED <<pool, at, sock, req, wire, peer, end>>
  BY DEF Serve
<1>2. PICK id : id = Head(inbox[s])
  OBVIOUS
<1>3. id \in Ids /\ Tail(inbox[s]) \in Seq(Ids) /\ id[1] \in Request
  <2>1. inbox[s] \in Seq(Ids)
    BY DEF Inv, Types, NetworkTypes
  <2>2. Head(inbox[s]) \in Ids /\ Tail(inbox[s]) \in Seq(Ids)
    BY <1>1, <2>1, HeadAndTail
  <2> QED
    BY <1>2, <2>2 DEF Ids
<1>4. PICK f \in Framings[id[1]], c \in BOOLEAN, t \in Targets(id[1]) :
        Consistent(f, c) /\ plan' = [plan EXCEPT ![s] = Response(id, f, c, t)]
  <2>1. PICK f \in Framings[Head(inbox[s])[1]], c \in BOOLEAN, t \in Targets(Head(inbox[s])[1]) :
          Consistent(f, c) /\ plan' = [plan EXCEPT ![s] = Response(Head(inbox[s]), f, c, t)]
    BY DEF Serve
  <2>2. f \in Framings[id[1]] /\ t \in Targets(id[1]) /\ Response(Head(inbox[s]), f, c, t) = Response(id, f, c, t)
    BY <1>2
  <2> HIDE DEF Response
  <2> QED
    BY <2>1, <2>2
<1>5. ran' = [ran EXCEPT ![id[1]] = @ + 1] /\ inbox' = [inbox EXCEPT ![s] = Tail(@)]
  BY <1>2 DEF Serve
<1>6. f \in AllFramings /\ t \in Host \cup {"here"}
  BY <1>3, <1>4, FramingsAssumption DEF Targets
<1>7. PICK R : R = Response(id, f, c, t)
  OBVIOUS
<1>8. R \in Seq(Parts)
  BY <1>3, <1>4, <1>6, <1>7, ResponseTypes
<1>9. /\ NetworkTypes' /\ ran' \in [Request -> Nat]
      /\ plan'[s] = R /\ inbox'[s] = Tail(inbox[s])
      /\ \A z \in Socket : z # s => SameConnection(z)
  BY <1>1, <1>3, <1>4, <1>5, <1>7, <1>8 DEF Inv, Types, NetworkTypes, SameConnection
<1>10. s \notin Unused
  BY <1>1 DEF Inv, Silent
<1>11. ASSUME Framed
       PROVE  /\ s \in Pooled => Reusable(s)'
              /\ \A q \in Request : sock[q] # s => ran'[q] = ran[q]
              /\ \A q \in Request : sock[q] = s => Exchange(q)' /\ Attempts(q)'
  <2>1. PICK r \in Request : /\ sock[r] = s /\ at[r] = "head" /\ Asked(r)
                             /\ inbox[s] = <<Id(r)>> /\ peer[s] = "up"
    BY <1>1, <1>11, Requested
  <2>2. id = Id(r) /\ id[1] = r /\ Tail(inbox[s]) = <<>>
    BY <1>2, <2>1 DEF Id
  <2>3. R = Answer(r, f, c, t) /\ wire[s] = <<>>
    BY <1>7, <2>1, <2>2 DEF Answer, Asked, Quiet
  <2>4. Id(r)' = Id(r) /\ Answer(r, f, c, t)' = R /\ Taken(r)' = 0
    BY <1>1, <2>1, <2>3 DEF Id, Answer, Taken
  <2>5. Len(R) \in Nat /\ SubSeq(R, 0 + 1, Len(R)) = R /\ SubSeq(R, 0 + 1, 0) = <<>>
    BY <1>8, LenProperties, SubSeqFull, SubSeqEmpty
  <2>6. Arriving(r, f, c, t, 0)'
    BY <1>1, <1>9, <2>1, <2>2, <2>3, <2>4, <2>5 DEF Arriving
  <2>7. Possible(r, f, c, t)'
    BY <1>4, <1>11, <2>2 DEF Possible, Framed
  <2>8. Understood(r, f, c, t)'
    BY <1>1, <2>1 DEF Understood
  <2>9. Answering(r)'
    <3>1. 0 \in 0..Len(R)
      BY <2>5
    <3> QED
      BY <1>4, <1>6, <2>2, <2>4, <2>6, <2>7, <2>8, <3>1 DEF Answering
  <2>10. Exchange(r)'
    BY <1>1, <2>1, <2>9 DEF Exchange
  <2>11. ran'[r] = ran[r] + 1 /\ \A q \in Request : q # r => ran'[q] = ran[q]
    BY <1>5, <2>2 DEF Inv, Types
  <2>12. Attempts(r)'
    <3>1. Attempts(r) /\ ran[r] \in Nat
      BY <1>11 DEF Inv, Types, RequestOK
    <3> QED
      BY <1>1, <1>9, <2>1, <2>2, <2>11, <3>1 DEF Attempts
  <2>13. \A q \in Request : sock[q] = s => q = r
    BY <2>1, NoSocketAssumption DEF Inv, OneUser
  <2>14. s \notin Pooled
    BY <1>1, <1>11 DEF Inv, Reusable
  <2> QED
    BY <2>1, <2>10, <2>11, <2>12, <2>13, <2>14
<1> QED
  BY <1>1, <1>9, <1>10, <1>11, ServerStep

\* The end of the connection is the last part of an answer.
LEMMA FinIsLast ==
  ASSUME NEW r \in Request, NEW f \in AllFramings, NEW c \in BOOLEAN, NEW t, NEW R, R = Answer(r, f, c, t),
         NEW i \in 1..Len(R), R[i].part = "fin"
  PROVE  i = Len(R)
<1>1. /\ Len(R) = Size(f, c) /\ R[1].part = "line" /\ R[2].part = "head"
      /\ f # "bodiless" => R[3].part = "data"
      /\ f = "chunked" => R[4].part = "last" /\ R[5].part = "crlf"
  BY AnswerParts
<1>2. i # 1 /\ i # 2
  BY <1>1
<1>3. CASE f = "chunked"
  <2>1. i # 3 /\ i # 4 /\ i # 5 /\ Len(R) \in {5, 6}
    BY <1>1, <1>3 DEF Size
  <2>2. PICK n \in {5, 6} : n = Len(R)
    BY <2>1
  <2>3. i \in 1..n
    BY <2>2
  <2>4. i = n
    BY <1>2, <2>1, <2>3
  <2> QED
    BY <2>2, <2>4
<1>4. CASE f = "bodiless"
  <2>1. PICK n \in {2, 3} : n = Len(R)
    BY <1>1, <1>4 DEF Size
  <2>2. i \in 1..n
    BY <2>1
  <2>3. i = n
    BY <1>2, <2>2
  <2> QED
    BY <2>1, <2>3
<1>5. CASE f \notin {"chunked", "bodiless"}
  <2>1. PICK n \in {3, 4} : n = Len(R)
    BY <1>1, <1>5 DEF Size
  <2>2. i \in 1..n /\ i # 3
    BY <1>1, <1>5, <2>1
  <2>3. i = n
    BY <1>2, <2>2
  <2> QED
    BY <2>1, <2>3
<1> QED
  BY <1>3, <1>4, <1>5

\* The first of a segment.
LEMMA SegmentFirst ==
  ASSUME NEW S, NEW R, NEW i, NEW j, NEW w, IsSegment(S, R, i, j, w), w # <<>>, NEW k, k = i + 1
  PROVE  i < j /\ Head(w) = R[k]
<1>1. R \in Seq(S) /\ i \in 0..Len(R) /\ j \in i..Len(R) /\ w = SubSeq(R, i + 1, j)
  BY DEF IsSegment
<1>2. w # <<>> => i < j
  BY <1>1, Segment
<1>3. i < j => w[1] = R[i + 1] /\ Head(w) = R[i + 1]
  BY <1>1, Segment
<1> QED
  BY <1>2, <1>3

\* The others.
LEMMA SegmentTail ==
  ASSUME NEW S, NEW R, NEW i, NEW j, NEW w, IsSegment(S, R, i, j, w), w # <<>>, NEW k, k = i + 1
  PROVE  IsSegment(S, R, k, j, Tail(w))
<1>1. R \in Seq(S) /\ i \in 0..Len(R) /\ j \in i..Len(R) /\ w = SubSeq(R, i + 1, j)
  BY DEF IsSegment
<1>2. Len(R) \in Nat /\ i \in Nat /\ j \in Nat /\ j <= Len(R)
  BY SegmentParts
<1>3. w # <<>> => i < j
  BY <1>1, Segment
<1>4. i < j => Tail(w) = SubSeq(R, i + 2, j)
  BY <1>1, Segment
<1>5. k \in 0..Len(R) /\ j \in k..Len(R) /\ k + 1 = i + 2
  BY <1>2, <1>3
<1> QED
  BY <1>1, <1>3, <1>4, <1>5 DEF IsSegment

\* The answer that r waits for, when its server sends one part more.
LEMMA AnsweringEmitted ==
  ASSUME Inv, NEW r \in Request, NEW s \in Socket, s = sock[r], Emit(s), Answering(r)
  PROVE  Answering(r)'
<1>1. UNCHANGED <<at, sock, req>> /\ plan[s] # <<>> /\ plan'[s] = Tail(plan[s])
  BY DEF Emit, Inv, Types, NetworkTypes
<1>2. PICK f \in AllFramings, c \in BOOLEAN, t \in Targets(r) :
        \E j : Possible(r, f, c, t) /\ Understood(r, f, c, t) /\ Reading(r, f, c, t, j)
  BY AnsweringPick
<1>3. PICK j : Possible(r, f, c, t) /\ Understood(r, f, c, t) /\ Reading(r, f, c, t, j)
  BY <1>2
<1>4. PICK R, i, w, S : R = Answer(r, f, c, t) /\ i = Taken(r) /\ w = wire[s] /\ S = PartsOf(Id(r), f, c, t)
  OBVIOUS
<1>5. Taken(r)' = i /\ Id(r)' = Id(r) /\ Answer(r, f, c, t)' = R
  BY <1>1, <1>4 DEF Taken, Id, Answer
<1>6. Possible(r, f, c, t)' /\ Understood(r, f, c, t)'
  BY <1>1, <1>3, <1>5 DEF Possible, Understood
<1>7. IsSegment(S, R, i, j, w)
  BY <1>3, <1>4, Coming
<1>8. /\ R \in Seq(S) /\ i \in 0..Len(R) /\ j \in i..Len(R) /\ w = SubSeq(R, i + 1, j)
      /\ Len(R) \in Nat /\ i \in Nat /\ j \in Nat /\ i <= j /\ j <= Len(R)
  BY <1>7, SegmentParts DEF IsSegment
<1>9. /\ inbox[s] = <<>> /\ (j > 0 => R[j].part # "fin")
      /\ peer[s] = "up" /\ plan[s] = SubSeq(R, j + 1, Len(R))
  BY <1>1, <1>3, <1>4 DEF Reading, Arriving
<1>10. PICK k : k = j + 1
  OBVIOUS
<1>11. j < Len(R) /\ Head(plan[s]) = R[k] /\ IsSegment(S, R, k, Len(R), Tail(plan[s]))
  <2>1. PICK n, p : n = Len(R) /\ p = plan[s]
    OBVIOUS
  <2>2. IsSegment(S, R, j, n, p)
    BY <1>8, <1>9, <2>1 DEF IsSegment
  <2>3. p # <<>>
    BY <1>1, <2>1
  <2>4. j < n /\ Head(p) = R[k]
    BY <1>10, <2>2, <2>3, SegmentFirst
  <2>5. IsSegment(S, R, k, n, Tail(p))
    BY <1>10, <2>2, <2>3, SegmentTail
  <2> QED
    BY <2>1, <2>4, <2>5
<1>12. k \in 1..Len(R) /\ k \in i..Len(R)
  BY <1>8, <1>10, <1>11
<1>13. CASE R[k].part = "fin"
  <2>1. k = Len(R)
    BY <1>4, <1>12, <1>13, FinIsLast
  <2>2. Tail(plan[s]) = SubSeq(R, k + 1, k)
    BY <1>11, <2>1 DEF IsSegment
  <2>3. Tail(plan[s]) = <<>>
    BY <1>8, <1>10, <2>2, SubSeqEmpty
  <2>4. wire'[s] = w /\ peer'[s] = "fin" /\ inbox'[s] = <<>>
    BY <1>4, <1>11, <1>13 DEF Emit, Inv, Types, TypeOK, NetworkTypes
  <2>5. Arriving(r, f, c, t, j)'
    BY <1>1, <1>5, <1>8, <1>9, <2>3, <2>4 DEF Arriving
  <2> QED
    BY <1>5, <1>6, <1>8, <2>5 DEF Answering
<1>14. CASE R[k].part # "fin"
  <2>1. wire'[s] = Append(w, R[k]) /\ peer'[s] = "up" /\ inbox'[s] = <<>>
    BY <1>4, <1>9, <1>11, <1>14 DEF Emit, Inv, Types, TypeOK, NetworkTypes
  <2>2. Append(w, R[k]) = SubSeq(R, i + 1, k)
    <3>1. j < Len(R) => Append(w, R[j + 1]) = SubSeq(R, i + 1, j + 1)
      BY <1>8, Segment
    <3> QED
      BY <1>10, <1>11, <3>1
  <2>3. plan'[s] = SubSeq(R, k + 1, Len(R))
    BY <1>1, <1>11 DEF IsSegment
  <2>4. Arriving(r, f, c, t, k)'
    BY <1>1, <1>5, <1>14, <2>1, <2>2, <2>3 DEF Arriving
  <2> QED
    BY <1>5, <1>6, <1>12, <2>4 DEF Answering
<1> QED
  BY <1>13, <1>14

\* A server sends one part more of an answer, or the end of the connection.
LEMMA EmitKeeps ==
  ASSUME Inv, NEW s \in Socket, Emit(s)
  PROVE  Inv'
<1>1. UNCHANGED <<pool, at, sock, req, end, ran>> /\ plan[s] # <<>>
  BY DEF Emit
<1>2. Head(plan[s]) \in Parts /\ Tail(plan[s]) \in Seq(Parts) /\ wire[s] \in Seq(Parts)
  <2>1. plan[s] \in Seq(Parts) /\ wire[s] \in Seq(Parts)
    BY DEF Inv, Types, NetworkTypes
  <2> QED
    BY <1>1, <2>1, HeadAndTail
<1>3. PICK p, rest : p = Head(plan[s]) /\ rest = Tail(plan[s])
  OBVIOUS
<1>4. /\ \A z \in Socket : z # s => SameConnection(z)
      /\ NetworkTypes'
      /\ inbox'[s] \in {inbox[s], <<>>}
  <2>1. plan' = [plan EXCEPT ![s] = rest] /\ rest \in Seq(Parts) /\ end' = end
    BY <1>1, <1>2, <1>3 DEF Emit
  <2>2. CASE p.part = "fin"
    <3>1. peer' = [peer EXCEPT ![s] = "fin"] /\ inbox' = [inbox EXCEPT ![s] = <<>>] /\ UNCHANGED wire
      BY <1>3, <2>2 DEF Emit
    <3>2. <<>> \in Seq(Ids)
      OBVIOUS
    <3> QED
      BY <2>1, <3>1, <3>2 DEF SameConnection, Inv, Types, NetworkTypes
  <2>3. CASE p.part # "fin"
    <3>1. PICK w : w = Append(wire[s], p)
      OBVIOUS
    <3>2. w \in Seq(Parts)
      BY <1>2, <1>3, <3>1, AppendProperties
    <3>3. wire' = [wire EXCEPT ![s] = w] /\ UNCHANGED <<peer, inbox>>
      BY <1>3, <2>3, <3>1 DEF Emit
    <3> QED
      BY <2>1, <3>2, <3>3 DEF SameConnection, Inv, Types, NetworkTypes
  <2> QED
    BY <2>2, <2>3
<1>5. s \notin Unused
  BY <1>1 DEF Inv, Silent
<1>6. ~Quiet(s) /\ ~Reusable(s) /\ ~Silent(s)
  BY <1>1 DEF Quiet, Reusable, Silent
<1>7. ASSUME Framed, NEW q \in Request, sock[q] = s PROVE Exchange(q)' /\ Attempts(q)'
  <2>1. Exchange(q) /\ Attempts(q)
    BY <1>7 DEF Inv, RequestOK
  <2>2. ~Asked(q)
    BY <1>6, <1>7 DEF Asked
  <2>3. Answering(q) => Answering(q)'
    BY <1>7, AnsweringEmitted
  <2>4. Exchange(q)'
    BY <1>1, <1>6, <1>7, <2>1, <2>2, <2>3 DEF Exchange
  <2>5. Attempts(q)'
    BY <1>1, <1>4, <1>7, <2>1 DEF Attempts
  <2> QED
    BY <2>4, <2>5
<1>8. Framed => s \notin Pooled
  BY <1>6 DEF Inv
<1>9. ran' \in [Request -> Nat]
  BY <1>1 DEF Inv, Types
<1> QED
  BY <1>1, <1>4, <1>5, <1>7, <1>8, <1>9, ServerStep

\* A server lets go of a connection, and what it had to say is lost.
LEMMA DropKeeps ==
  ASSUME Inv, NEW s \in Socket, Drop(s)
  PROVE  Inv'
<1>1. UNCHANGED <<pool, at, sock, req, end, ran>> /\ peer[s] = "up"
  BY DEF Drop
<1>2. /\ \A z \in Socket : z # s => SameConnection(z)
      /\ NetworkTypes'
      /\ peer'[s] # "up" /\ inbox'[s] = <<>> /\ plan'[s] = <<>> /\ wire'[s] \in {wire[s], <<>>}
  <2>1. <<>> \in Seq(Parts) /\ <<>> \in Seq(Ids)
    OBVIOUS
  <2> QED
    BY <2>1 DEF Drop, SameConnection, Inv, Types, NetworkTypes
<1>3. s \notin Unused
  BY <1>1 DEF Inv, Silent
<1>4. Quiet(s) => Quiet(s)' /\ Reusable(s)'
  BY <1>2 DEF Reusable, Quiet
<1>5. ASSUME Framed, NEW q \in Request, sock[q] = s PROVE Exchange(q)' /\ Attempts(q)'
  <2>1. Exchange(q) /\ Attempts(q) /\ Id(q)' = Id(q)
    BY <1>1, <1>5 DEF Inv, RequestOK, Id
  <2>2. at[q] # "connect"
    BY <1>1, <1>5, <2>1 DEF Exchange, Silent
  <2>3. Reusable(s) => Reusable(s)'
    BY <1>4 DEF Reusable
  <2>4. Asked(q) => Asked(q)'
    BY <1>1, <1>2, <1>4, <1>5 DEF Asked
  <2>5. ASSUME Answering(q) PROVE Answering(q)'
    <3>1. PICK f \in AllFramings, c \in BOOLEAN, t \in Targets(q) :
            \E j : Possible(q, f, c, t) /\ Understood(q, f, c, t) /\ Reading(q, f, c, t, j)
      BY <2>5, AnsweringPick
    <3>2. PICK j : Possible(q, f, c, t) /\ Understood(q, f, c, t) /\ Reading(q, f, c, t, j)
      BY <3>1
    <3>3. PICK R, k, w, S : R = Answer(q, f, c, t) /\ k = Taken(q) /\ w = wire[s] /\ S = PartsOf(Id(q), f, c, t)
      OBVIOUS
    <3>4. Taken(q)' = k /\ Answer(q, f, c, t)' = R
      BY <1>1, <2>1, <3>3 DEF Taken, Answer
    <3>5. Possible(q, f, c, t)' /\ Understood(q, f, c, t)'
      BY <1>1, <2>1, <3>2 DEF Possible, Understood
    <3>6. IsSegment(S, R, k, j, w)
      BY <1>5, <3>2, <3>3, Coming
    <3>7. /\ w = SubSeq(R, k + 1, j) /\ j \in k..Len(R)
          /\ Len(R) \in Nat /\ k \in Nat /\ j \in Nat /\ k <= j /\ j <= Len(R)
      BY <3>6, SegmentParts DEF IsSegment
    <3>8. j > 0 => R[j].part # "fin"
      BY <3>2, <3>3 DEF Reading, Arriving
    <3>9. CASE wire'[s] = w
      <4>1. Arriving(q, f, c, t, j)'
        BY <1>1, <1>2, <1>5, <3>4, <3>7, <3>8, <3>9 DEF Arriving
      <4> QED
        BY <3>4, <3>5, <3>7, <4>1 DEF Answering
    <3>10. CASE wire'[s] = <<>>
      <4>1. k > 0 => R[k].part # "fin"
        <5> SUFFICES ASSUME k > 0, R[k].part = "fin" PROVE FALSE
          OBVIOUS
        <5>1. k \in 1..Len(R)
          BY <3>7
        <5>2. k = Len(R)
          BY <3>3, <5>1, FinIsLast
        <5>3. j = k
          BY <3>7, <5>2
        <5> QED
          BY <3>8, <5>3
      <4>2. SubSeq(R, k + 1, k) = <<>>
        BY <3>7, SubSeqEmpty
      <4>3. Arriving(q, f, c, t, k)'
        BY <1>1, <1>2, <1>5, <3>4, <3>10, <4>1, <4>2 DEF Arriving
      <4>4. k \in k..Len(R)
        BY <3>7
      <4> QED
        BY <3>4, <3>5, <4>3, <4>4 DEF Answering
    <3> QED
      BY <1>2, <3>3, <3>9, <3>10
  <2>6. Exchange(q)'
    BY <1>1, <1>5, <2>1, <2>2, <2>3, <2>4, <2>5 DEF Exchange
  <2>7. Attempts(q)'
    BY <1>1, <1>2, <1>5, <2>1 DEF Attempts
  <2> QED
    BY <2>6, <2>7
<1>6. Framed /\ s \in Pooled => Reusable(s)'
  BY <1>4 DEF Inv, Reusable
<1>7. ran' \in [Request -> Nat]
  BY <1>1 DEF Inv, Types
<1> QED
  BY <1>1, <1>2, <1>3, <1>5, <1>6, <1>7, ServerStep

-----------------------------------------------------------------------------
(* The invariant and what follows from it.                                 *)

\* At the start the pools are empty, every request rests and every connection is silent.
LEMMA InitKeeps == Init => Inv
<1> SUFFICES ASSUME Init PROVE Inv
  OBVIOUS
<1>1. PICK home \in [Request -> Home] : req = [r \in Request |-> NewRequest(r, home[r])]
  BY DEF Init
<1>2. \A r \in Request : home[r] \in Host
  BY HomeAssumption
<1>3. \A r \in Request : /\ req[r] \in Knowledge /\ req[r].host = req[r].home /\ ~req[r].away
                         /\ ~req[r].started /\ ~req[r].retried
  BY <1>1, <1>2, NewRequestTypes
<1>4. Types
  <2>1. TypeOK
    BY DEF Init, TypeOK, Places
  <2>2. <<>> \in Seq(Parts) /\ <<>> \in Seq(Ids)
    OBVIOUS
  <2>3. NetworkTypes
    BY <2>2 DEF Init, NetworkTypes
  <2>4. req \in [Request -> Knowledge] /\ ran \in [Request -> Nat]
    BY <1>1, <1>3 DEF Init
  <2> QED
    BY <2>1, <2>3, <2>4 DEF Types
<1>5. Pooled = {}
  BY DEF Init, Pooled, ToSet
<1>6. Holding /\ PoolsAreShort /\ PooledByHost
  BY BoundsAssumption DEF Init, Holding, Resting, PoolsAreShort, PooledByHost
<1>7. OneUser
  BY <1>5 DEF Init, OneUser
<1>8. ASSUME NEW r \in Request PROVE RequestOK(r)
  <2>1. at[r] = "idle" /\ ran[r] = 0
    BY DEF Init
  <2> QED
    BY <1>3, <2>1 DEF RequestOK, Exchange, Attempts, Credentials, Connected, Delivered
<1>9. \A s \in Socket : Silent(s)
  BY DEF Init, Silent
<1> QED
  BY <1>4, <1>5, <1>6, <1>7, <1>8, <1>9 DEF Inv, Unused

\* Every step preserves the invariant.
LEMMA InvStep == Inv /\ [Next]_vars => Inv'
<1> SUFFICES ASSUME Inv, [Next]_vars PROVE Inv'
  OBVIOUS
<1>1. ASSUME NEW r \in Request, Begin(r) PROVE Inv'
  BY <1>1, BeginKeeps
<1>2. ASSUME NEW r \in Request, Step(r) PROVE Inv'
  <2>1. CASE Pop(r)
    BY <2>1, PopFreshKeeps, PopPooledKeeps
  <2>2. CASE Check(r)
    BY <2>2, CheckKeeps
  <2>3. CASE Connect(r)
    BY <2>3, ConnectKeeps
  <2>4. CASE Send(r)
    BY <2>4, SendKeeps
  <2>5. CASE ReadHead(r)
    BY <2>5, ReadHeadKeeps
  <2>6. CASE ReadBody(r)
    BY <2>6, ReadBodyKeeps
  <2>7. CASE ReadTrailers(r)
    BY <2>7, ReadTrailersKeeps
  <2> QED
    BY <1>2, <2>1, <2>2, <2>3, <2>4, <2>5, <2>6, <2>7 DEF Step
<1>3. ASSUME NEW s \in Socket, Serve(s) PROVE Inv'
  BY <1>3, ServeKeeps
<1>4. ASSUME NEW s \in Socket, Emit(s) PROVE Inv'
  BY <1>4, EmitKeeps
<1>5. ASSUME NEW s \in Socket, Drop(s) PROVE Inv'
  BY <1>5, DropKeeps
<1>6. CASE ClearPool
  BY <1>6, ClearPoolKeeps
<1>7. CASE UNCHANGED vars
  <2>1. UNCHANGED <<pool, at, sock, req, ran, wire, peer, inbox, plan, end>>
    BY <1>7 DEF vars, network
  <2>2. Types' /\ Holding' /\ OneUser' /\ Pooled' = Pooled /\ Unused' = Unused
    BY <2>1 DEF Inv, Types, TypeOK, NetworkTypes, Holding, OneUser, Pooled, Unused
  <2>3. PoolsAreShort' /\ PooledByHost'
    BY <2>1 DEF Inv, PoolsAreShort, PooledByHost
  <2>4. (\A r \in Request : SameRequest(r)) /\ \A s : SameConnection(s)
    BY <2>1 DEF SameRequest, SameConnection
  <2>5. \A r \in Request : RequestOK(r)'
    BY <2>4, SameView DEF Inv
  <2>6. (Framed => \A s \in Pooled : Reusable(s)') /\ (\A s \in Unused : Silent(s)')
    BY <2>4, SameIdle DEF Inv
  <2> QED
    BY <2>2, <2>3, <2>5, <2>6 DEF Inv
<1> QED
  BY <1>1, <1>2, <1>3, <1>4, <1>5, <1>6, <1>7 DEF Next

\* The invariant holds throughout.
THEOREM InvHolds == Spec => []Inv
<1> QED
  BY InitKeeps, InvStep, PTL DEF Spec

(* A connection belongs to one request or stands once in the pool of one   *)
(* host, whoever pops, checks, returns and clears at the same time.        *)
THEOREM OneUserHolds == Spec => []OneUser
<1>1. Inv => OneUser
  BY DEF Inv
<1> QED
  BY <1>1, InvHolds, PTL

(* The Authorization header travels to the origin the caller sent it to    *)
(* and to no other, along any chain of redirects, over new and pooled      *)
(* connections; it does not come back once a redirect has dropped it.      *)
THEOREM CredentialsStay == Spec => []CredentialsStayHome
<1>1. Inv => CredentialsStayHome
  BY DEF Inv, RequestOK, Credentials, Connected, CredentialsStayHome
<1> QED
  BY <1>1, InvHolds, PTL

\* What the server has yet to send is the rest of the answer.
LEMMA PlannedParts ==
  ASSUME NEW r \in Request, NEW f, NEW c, NEW t, NEW j, Reading(r, f, c, t, j), peer[sock[r]] = "up",
         plan[sock[r]] = <<>>, NEW R, R = Answer(r, f, c, t)
  PROVE  j = Len(R)
<1>1. PICK S, w, p : S = PartsOf(Id(r), f, c, t) /\ w = wire[sock[r]] /\ p = plan[sock[r]]
  OBVIOUS
<1>2. IsSegment(S, R, Taken(r), j, w)
  BY <1>1, Coming
<1>3. Len(R) \in Nat /\ j \in Nat /\ j <= Len(R) /\ R \in Seq(S)
  BY <1>2, SegmentParts DEF IsSegment
<1>4. p = SubSeq(R, j + 1, Len(R))
  BY <1>1 DEF Reading, Arriving
<1>5. IsSegment(S, R, j, Len(R), p)
  BY <1>3, <1>4 DEF IsSegment
<1>6. Len(p) = Len(R) - j
  BY <1>5, SegmentParts
<1>7. Len(p) = 0
  BY <1>1
<1> QED
  BY <1>3, <1>6, <1>7

\* A request that waits for its head, and has nothing of it that is whole, is owed some.
LEMMA HeadToCome ==
  ASSUME Inv, NEW r \in Request, at[r] = "head", Answering(r), ~Headed(r), peer[sock[r]] = "up"
  PROVE  plan[sock[r]] # <<>>
<1> SUFFICES ASSUME plan[sock[r]] = <<>> PROVE FALSE
  OBVIOUS
<1>1. PICK f \in AllFramings, c \in BOOLEAN, t \in Targets(r) : \E j : Reading(r, f, c, t, j)
  BY AnsweringPick
<1>2. PICK j : Reading(r, f, c, t, j)
  BY <1>1
<1>3. PICK S, R, w : S = PartsOf(Id(r), f, c, t) /\ R = Answer(r, f, c, t) /\ w = wire[sock[r]]
  OBVIOUS
<1>4. j = Len(R) /\ Taken(r) = 0
  BY <1>2, <1>3, PlannedParts DEF Taken
<1>5. IsSegment(S, R, 0, j, w)
  BY <1>2, <1>3, <1>4, Coming
<1>6. R[2].part = "head" /\ Len(R) = Size(f, c)
  BY <1>3, AnswerParts
<1>7. Len(R) \in Nat /\ Len(R) >= 2
  BY <1>6 DEF Size
<1>8. Len(w) = j - 0 /\ w \in Seq(S) /\ \A k \in 1..Len(w) : w[k] = R[0 + k]
  BY <1>5, SegmentParts
<1>9. 2 \in 1..Len(w) /\ 2 \in DOMAIN w
  BY <1>4, <1>7, <1>8
<1>10. w[2] = R[2]
  BY <1>8, <1>9
<1> QED
  BY <1>3, <1>6, <1>9, <1>10 DEF Headed

\* One that waits in the body or for the trailers is owed some unless the answer has no body.
LEMMA BodyToCome ==
  ASSUME Inv, Framed, NEW r \in Request, at[r] \in {"body", "trailers"}, Answering(r),
         wire[sock[r]] = <<>>, peer[sock[r]] = "up", plan[sock[r]] = <<>>
  PROVE  at[r] = "body" /\ req[r].head = "bodiless"
<1>1. PICK f \in AllFramings, c \in BOOLEAN, t \in Targets(r) :
        \E j : Possible(r, f, c, t) /\ Understood(r, f, c, t) /\ Reading(r, f, c, t, j)
  BY AnsweringPick
<1>2. PICK j : Possible(r, f, c, t) /\ Understood(r, f, c, t) /\ Reading(r, f, c, t, j)
  BY <1>1
<1>3. PICK S, R, i, w : S = PartsOf(Id(r), f, c, t) /\ R = Answer(r, f, c, t) /\ i = Taken(r) /\ w = wire[sock[r]]
  OBVIOUS
<1>4. /\ req[r].head = f /\ (f = "eof" => c)
      /\ \/ at[r] = "body" /\ i = 2
         \/ at[r] = "body" /\ i = 3 /\ f \in {"chunked", "eof"}
         \/ at[r] = "trailers" /\ i = 4 /\ f = "chunked"
  BY <1>2, <1>3, BodyFacts
<1>5. j = Len(R)
  BY <1>2, <1>3, PlannedParts
<1>6. IsSegment(S, R, i, j, w)
  BY <1>2, <1>3, Coming
<1>7. Len(w) = j - i /\ Len(R) \in Nat
  BY <1>6, SegmentParts
<1>8. Len(w) = 0
  BY <1>3
<1>9. i = Len(R)
  BY <1>4, <1>5, <1>7, <1>8
<1>10. Len(R) = Size(f, c)
  BY <1>3, AnswerParts
<1> QED
  BY <1>4, <1>9, <1>10 DEF Size

(* If the servers say how each of their answers ends, no request waits for *)
(* bytes that nobody is going to send, but for the body of an answer that  *)
(* has none: its server still has the request or a part of the answer, or  *)
(* has hung up.                                                            *)
THEOREM NobodyWaitsInVain ==
  ASSUME Framed
  PROVE  Spec => []NoVainWait
<1>1. ASSUME Inv, NEW r \in Request, InVain(r)
      PROVE  at[r] = "body" /\ req[r].head = "bodiless"
  <2>1. PICK s : s = sock[r]
    OBVIOUS
  <2>2. Waiting(r) /\ peer[s] = "up" /\ inbox[s] = <<>> /\ plan[s] = <<>>
    BY <1>1, <2>1 DEF InVain
  <2>3. Exchange(r)
    BY <1>1 DEF Inv, RequestOK
  <2>4. CASE at[r] = "head"
    <3>1. ~Headed(r)
      BY <2>2, <2>4 DEF Waiting
    <3>2. ~Asked(r)
      <4>1. <<>> # <<Id(r)>>
        OBVIOUS
      <4> QED
        BY <2>1, <2>2, <4>1 DEF Asked
    <3>3. Answering(r)
      BY <2>3, <2>4, <3>2 DEF Exchange
    <3> QED
      BY <1>1, <2>1, <2>2, <2>4, <3>1, <3>3, HeadToCome
  <2>5. CASE at[r] \in {"body", "trailers"} /\ wire[s] = <<>>
    <3>1. Answering(r)
      BY <2>3, <2>5 DEF Exchange
    <3> QED
      BY <1>1, <2>1, <2>2, <2>5, <3>1, BodyToCome
  <2> QED
    BY <2>1, <2>2, <2>4, <2>5 DEF Waiting
<1>2. Inv => NoVainWait
  BY <1>1 DEF NoVainWait
<1> QED
  BY <1>2, InvHolds, PTL

(* If the servers say how each of their answers ends, the response a       *)
(* caller gets answers the request as it sent it last, and it is whole,    *)
(* unless its body ends with its connection.                               *)
THEOREM OwnResponse ==
  ASSUME Framed
  PROVE  Spec => []ResponseIsOwn
<1>1. ASSUME Inv, NEW r \in Request, at[r] = "ok"
      PROVE  /\ \A i \in DOMAIN req[r].body : req[r].body[i] = <<r, req[r].sent>>
             /\ req[r].head = "eof" \/ Len(req[r].body) = 2
  <2>1. Delivered(r)
    BY <1>1 DEF Inv, RequestOK
  <2> QED
    BY <1>1, <2>1 DEF Delivered, Id
<1>2. Inv => ResponseIsOwn
  BY <1>1 DEF ResponseIsOwn
<1> QED
  BY <1>2, InvHolds, PTL

\* The number of runs of a request goes up only when the server takes it from its connection.
LEMMA OnlyServersRun ==
  ASSUME Inv, [Next]_vars, NEW r \in Request, ran'[r] > ran[r]
  PROVE  \E s \in Socket : Serve(s)
<1>1. ran \in [Request -> Nat]
  BY DEF Inv, Types
<1>2. ran' # ran /\ ran'[r] # 0 /\ ran'[r] # ran[r]
  <2>1. ran[r] \in Nat /\ ran'[r] \in Nat
    BY <1>1, InvStep DEF Inv, Types
  <2> QED
    BY <2>1
<1>3. ASSUME NEW q \in Request, NEW x, Deliver(q, x) PROVE FALSE
  BY <1>1, <1>2, <1>3 DEF Deliver, Succeed
<1>4. \A q \in Request : \A x, n, keep : ~Complete(q, x, n, keep)
  BY <1>3 DEF Complete
<1>5. \A q \in Request, retriable \in BOOLEAN : ~Failed(q, retriable)
  BY <1>2 DEF Failed
<1>6. \A q \in Request : \A x, place : ~Read(q, x, place)
  BY <1>2 DEF Read
<1>7. \A q \in Request : ~Begin(q) /\ ~Pop(q) /\ ~Check(q)
  BY <1>2 DEF Begin, Pop, Check
<1>8. \A q \in Request : ~Connect(q) /\ ~Send(q) /\ ~ReadHead(q)
  BY <1>2, <1>5 DEF Connect, Send, ReadHead
<1>9. \A q \in Request : ~ReadBody(q) /\ ~ReadTrailers(q)
  BY <1>4, <1>5, <1>6 DEF ReadBody, ReadTrailers, ReadData, BodyCut
<1>10. (\A s \in Socket : ~Emit(s) /\ ~Drop(s)) /\ ~ClearPool
  BY <1>2 DEF Emit, Drop, ClearPool
<1> QED
  BY <1>2, <1>7, <1>8, <1>9, <1>10 DEF Next, Step, vars

(* If the servers say how each of their answers ends, one carries a        *)
(* request out a second time only if its method is idempotent, never once  *)
(* the head of its answer was read, and never a third time.                *)
THEOREM NoRepetition ==
  ASSUME Framed
  PROVE  Spec => NotRepeated
<1>1. ASSUME Inv, [Next]_vars, NEW r \in Request, ran'[r] > ran[r]
      PROVE  ~req[r].started /\ (ran[r] = 0 \/ (ran[r] = 1 /\ req[r].safe))
  <2>1. PICK s \in Socket : Serve(s)
    BY <1>1, OnlyServersRun
  <2>2. inbox[s] # <<>>
    BY <2>1 DEF Serve
  <2>3. PICK o \in Request : /\ sock[o] = s /\ at[o] = "head" /\ Asked(o)
                             /\ inbox[s] = <<Id(o)>> /\ peer[s] = "up"
    BY <1>1, <2>2, Requested
  <2>4. ran' = [ran EXCEPT ![o] = @ + 1]
    <3>1. Head(inbox[s])[1] = o
      BY <2>3 DEF Id
    <3> QED
      BY <2>1, <3>1 DEF Serve
  <2>5. ran \in [Request -> Nat] /\ ran[r] \in Nat /\ RequestOK(r)
    BY <1>1 DEF Inv, Types
  <2>6. o = r
    BY <1>1, <2>4, <2>5
  <2>7. at[r] = "head" /\ inbox[sock[r]] # <<>> /\ Attempts(r)
    BY <2>2, <2>3, <2>5, <2>6 DEF RequestOK
  <2>8. PICK k : k = IF req[r].retried THEN 1 ELSE 0
    OBVIOUS
  <2>9. ~req[r].started /\ (req[r].retried => req[r].safe) /\ ran[r] <= k
    BY <2>7, <2>8 DEF Attempts
  <2> QED
    BY <2>5, <2>8, <2>9
<1>2. Inv /\ [Next]_vars =>
        [\A r \in Request : ran'[r] > ran[r] =>
            ~req[r].started /\ (ran[r] = 0 \/ (ran[r] = 1 /\ req[r].safe))]_vars
  BY <1>1
<1> QED
  BY <1>2, InvHolds, PTL DEF Spec, NotRepeated
=============================================================================
