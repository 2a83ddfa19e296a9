-------------------------- MODULE HttpStreamProofs --------------------------
(***************************************************************************)
(* What is proved of one streamed response, for any number of pieces of    *)
(* the body and any of the framings: the order of the callbacks, whoever   *)
(* stops the stream and whenever the timer fires, and what is on a socket  *)
(* that goes back to the pool.                                             *)
(***************************************************************************)
EXTENDS HttpStream, FiniteSetTheorems, SequenceTheorems, TLAPS

Callbacks == {"connect", "data", "error", "timeout", "disconnect"}

\* What the chain may report before on_disconnect.
Reports == {"connect", "data", "error"}

Reported(l) == \E i, j \in DOMAIN l : i < j /\ l[i] = "error" /\ l[j] = "disconnect"
EndsIt(l) == \A i \in DOMAIN l : l[i] = "disconnect" => i = Len(l)

-----------------------------------------------------------------------------
(* Segments of sequences: what was sent, what has arrived and what was     *)
(* read are segments of the same answer.                                   *)

(* Of the elements of R, those after the i-th up to the j-th: how many,    *)
(* which is first, and what a further one or the loss of some makes of it. *)
LEMMA Segment ==
  ASSUME NEW S, NEW R \in Seq(S), NEW i \in 0..Len(R), NEW j \in i..Len(R),
         NEW w, w = SubSeq(R, i + 1, j)
  PROVE  /\ Len(w) = j - i /\ (i = j => w = <<>>) /\ (w # <<>> => i < j)
         /\ i < j => w[1] = R[i + 1] /\ Head(w) = R[i + 1] /\ Tail(w) = SubSeq(R, i + 2, j)
         /\ j < Len(R) => Append(w, R[j + 1]) = SubSeq(R, i + 1, j + 1)
         /\ \A m \in 0..Len(w) : SubSeq(w, m + 1, Len(w)) = SubSeq(R, i + m + 1, j)
<1>0. Len(R) \in Nat /\ i \in Nat /\ j \in Nat /\ i <= j /\ j <= Len(R)
  BY LenProperties
<1>1. \A k \in (i + 1)..(j + 1) : k <= Len(R) => R[k] \in S
  BY <1>0, ElementOfSeq
<1>2. /\ w \in Seq(S) /\ Len(w) = j - i
      /\ \A k \in 1..(j - i) : w[k] = R[i + k]
  <2>1. \A k \in (i + 1)..j : R[k] \in S
    BY <1>0, <1>1
  <2>2. /\ w \in Seq(S) /\ Len(w) = (IF i + 1 <= j THEN j - (i + 1) + 1 ELSE 0)
        /\ \A k \in 1..(j - (i + 1) + 1) : w[k] = R[(i + 1) + k - 1]
    BY <1>0, <2>1, SubSeqProperties
  <2>3. j - (i + 1) + 1 = j - i /\ \A k \in 1..(j - i) : (i + 1) + k - 1 = i + k
    BY <1>0
  <2> QED
    BY <1>0, <2>2, <2>3
<1>3. (i = j => w = <<>>) /\ (w # <<>> => i < j)
  BY <1>0, <1>2, EmptySeq
<1>4. ASSUME i < j
      PROVE  w[1] = R[i + 1] /\ Head(w) = R[i + 1] /\ Tail(w) = SubSeq(R, i + 2, j)
  <2>1. i + 1 \in 1..Len(R) /\ j \in (i + 1)..Len(R)
    BY <1>0, <1>4
  <2>2. Head(w) = R[i + 1] /\ Tail(w) = SubSeq(R, (i + 1) + 1, j)
    BY <2>1, HeadTailOfSubSeq
  <2>3. w[1] = R[i + 1]
    BY <1>0, <1>2, <1>4
  <2>4. (i + 1) + 1 = i + 2
    BY <1>0
  <2> QED
    BY <2>2, <2>3, <2>4
<1>5. ASSUME j < Len(R)
      PROVE  Append(w, R[j + 1]) = SubSeq(R, i + 1, j + 1)
  <2>1. i + 1 \in 1..Len(R) /\ j + 1 \in (i + 1)..Len(R) /\ R[j + 1] \in S
    BY <1>0, <1>5, ElementOfSeq
  <2>2. SubSeq(R, i + 1, j + 1) = SubSeq(R, i + 1, (j + 1) - 1) \o <<R[j + 1]>>
    BY <2>1, SubSeqRecursiveSecond
  <2>3. (j + 1) - 1 = j
    BY <1>0
  <2> QED
    BY <1>2, <2>1, <2>2, <2>3, AppendIsConcat
<1>6. ASSUME NEW m \in 0..Len(w)
      PROVE  SubSeq(w, m + 1, Len(w)) = SubSeq(R, i + m + 1, j)
  <2>1. CASE m = Len(w)
    <3>1. SubSeq(w, m + 1, Len(w)) = <<>> /\ SubSeq(R, i + m + 1, j) = <<>>
      BY <1>0, <1>2, <2>1, SubSeqEmpty
    <3> QED
      BY <3>1
  <2>2. CASE m # Len(w)
    <3>1. /\ i + 1 \in 1..Len(R) /\ j \in 1..Len(R)
          /\ m + 1 \in 1..(j - (i + 1) + 1) /\ Len(w) \in 1..(j - (i + 1) + 1)
      BY <1>0, <1>2, <2>2
    <3>2. SubSeq(w, m + 1, Len(w)) = SubSeq(R, (i + 1) + (m + 1) - 1, (i + 1) + Len(w) - 1)
      BY <3>1, SubSeqOfSubSeq
    <3>3. (i + 1) + (m + 1) - 1 = i + m + 1 /\ (i + 1) + Len(w) - 1 = j
      BY <1>0, <1>2
    <3> QED
      BY <3>2, <3>3
  <2> QED
    BY <2>1, <2>2
<1> QED
  BY <1>2, <1>3, <1>4, <1>5, <1>6

\* A segment, cut in two after its k-th element.
LEMMA SegmentCut ==
  ASSUME NEW S, NEW R \in Seq(S), NEW i \in 0..Len(R), NEW j \in i..Len(R),
         NEW w, w = SubSeq(R, i + 1, j), NEW k \in 0..Len(w)
  PROVE  /\ i + k \in i..j
         /\ SubSeq(w, 1, k) = SubSeq(R, i + 1, i + k)
         /\ SubSeq(w, k + 1, Len(w)) = SubSeq(R, i + k + 1, j)
<1>0. Len(R) \in Nat /\ i \in Nat /\ j \in Nat /\ i <= j /\ j <= Len(R)
  BY LenProperties
<1>1. Len(w) = j - i
  BY Segment
<1>2. i + k \in i..j
  BY <1>0, <1>1
<1>3. SubSeq(w, k + 1, Len(w)) = SubSeq(R, i + k + 1, j)
  BY Segment
<1>4. SubSeq(w, 1, k) = SubSeq(R, i + 1, i + k)
  <2>1. CASE k = 0
    <3>1. SubSeq(w, 1, k) = <<>> /\ SubSeq(R, i + 1, i + k) = <<>>
      BY <1>0, <2>1, SubSeqEmpty
    <3> QED
      BY <3>1
  <2>2. CASE k # 0
    <3>1. /\ i + 1 \in 1..Len(R) /\ j \in 1..Len(R)
          /\ 1 \in 1..(j - (i + 1) + 1) /\ k \in 1..(j - (i + 1) + 1)
      BY <1>0, <1>1, <2>2
    <3>2. SubSeq(w, 1, k) = SubSeq(R, (i + 1) + 1 - 1, (i + 1) + k - 1)
      BY <3>1, SubSeqOfSubSeq
    <3>3. (i + 1) + 1 - 1 = i + 1 /\ (i + 1) + k - 1 = i + k
      BY <1>0, <1>1
    <3> QED
      BY <3>2, <3>3
  <2> QED
    BY <2>1, <2>2
<1> QED
  BY <1>2, <1>3, <1>4

\* The elements of a segment by their places.
LEMMA SegmentElements ==
  ASSUME NEW S, NEW R \in Seq(S), NEW i \in 0..Len(R), NEW j \in i..Len(R),
         NEW w, w = SubSeq(R, i + 1, j)
  PROVE  /\ w \in Seq(S) /\ Len(w) = j - i /\ DOMAIN w = 1..(j - i)
         /\ \A k \in 1..(j - i) : w[k] = R[i + k]
<1>0. Len(R) \in Nat /\ i \in Nat /\ j \in Nat /\ i <= j /\ j <= Len(R)
  BY LenProperties
<1>1. \A k \in (i + 1)..j : R[k] \in S
  BY <1>0, ElementOfSeq
<1>2. /\ w \in Seq(S) /\ Len(w) = (IF i + 1 <= j THEN j - (i + 1) + 1 ELSE 0)
      /\ \A k \in 1..(j - (i + 1) + 1) : w[k] = R[(i + 1) + k - 1]
  BY <1>0, <1>1, SubSeqProperties
<1>3. j - (i + 1) + 1 = j - i /\ \A k \in 1..(j - i) : (i + 1) + k - 1 = i + k
  BY <1>0
<1>4. Len(w) = j - i
  BY <1>0, <1>2
<1>5. DOMAIN w = 1..Len(w)
  BY <1>2, LenProperties
<1> QED
  BY <1>2, <1>3, <1>4, <1>5

-----------------------------------------------------------------------------
(* The log of the callbacks.                                               *)

\* What two sequences have between them.
LEMMA ConcatElements ==
  ASSUME NEW S, NEW a \in Seq(S), NEW b \in Seq(S)
  PROVE  ToSet(a \o b) = ToSet(a) \cup ToSet(b)
<1>0. PICK c : c = a \o b
  OBVIOUS
<1>1. /\ c \in Seq(S) /\ Len(c) = Len(a) + Len(b)
      /\ \A i \in 1..(Len(a) + Len(b)) : c[i] = IF i <= Len(a) THEN a[i] ELSE b[i - Len(a)]
  BY <1>0, ConcatProperties
<1>2. /\ Len(a) \in Nat /\ Len(b) \in Nat /\ DOMAIN a = 1..Len(a) /\ DOMAIN b = 1..Len(b)
      /\ DOMAIN c = 1..(Len(a) + Len(b))
  BY <1>1, LenProperties
<1>3. \A i \in DOMAIN a : i \in DOMAIN c /\ c[i] = a[i]
  BY <1>1, <1>2
<1>4. \A i \in DOMAIN b : i + Len(a) \in DOMAIN c /\ c[i + Len(a)] = b[i]
  BY <1>1, <1>2
<1>5. ASSUME NEW i \in DOMAIN c, i \notin DOMAIN a
      PROVE  i - Len(a) \in DOMAIN b /\ c[i] = b[i - Len(a)]
  BY <1>1, <1>2, <1>5
<1>6. \A x \in ToSet(c) : x \in ToSet(a) \/ x \in ToSet(b)
  BY <1>3, <1>5 DEF ToSet
<1>7. (\A x \in ToSet(a) : x \in ToSet(c)) /\ \A x \in ToSet(b) : x \in ToSet(c)
  BY <1>3, <1>4 DEF ToSet
<1>8. ToSet(c) = ToSet(a) \cup ToSet(b)
  BY <1>6, <1>7
<1> QED
  BY <1>0, <1>8

\* More callbacks: those of before are still there, and in their order.
LEMMA LongerLog ==
  ASSUME NEW l \in Seq(Callbacks), NEW more \in Seq(Callbacks), NEW k, k = l \o more
  PROVE  /\ k \in Seq(Callbacks) /\ ToSet(k) = ToSet(l) \cup ToSet(more)
         /\ Reported(l) => Reported(k)
<1>1. /\ k \in Seq(Callbacks) /\ Len(k) = Len(l) + Len(more)
      /\ \A i \in 1..(Len(l) + Len(more)) : k[i] = IF i <= Len(l) THEN l[i] ELSE more[i - Len(l)]
  BY ConcatProperties
<1>2. /\ Len(l) \in Nat /\ Len(more) \in Nat /\ DOMAIN l = 1..Len(l) /\ DOMAIN more = 1..Len(more)
      /\ DOMAIN k = 1..(Len(l) + Len(more))
  BY <1>1, LenProperties
<1>3. \A i \in DOMAIN l : i \in DOMAIN k /\ k[i] = l[i]
  BY <1>1, <1>2
<1>6. ToSet(k) = ToSet(l) \cup ToSet(more)
  BY ConcatElements
<1>7. Reported(l) => Reported(k)
  BY <1>3 DEF Reported
<1> QED
  BY <1>1, <1>6, <1>7

\* k is l, then what was seen, then on_disconnect: it is the last, after an error that was seen.
Closes(l, seen, k) ==
    /\ k \in Seq(Callbacks) /\ ToSet(k) = ToSet(l) \cup ToSet(seen) \cup {"disconnect"}
    /\ Reported(l) => Reported(k)
    /\ "error" \in ToSet(seen) => Reported(k)
    /\ "disconnect" \notin ToSet(l) => EndsIt(k)

\* What on_disconnect makes of a log.
LEMMA EndOfLog ==
  ASSUME NEW l \in Seq(Callbacks), NEW seen \in Seq(Reports), NEW k, k = l \o seen \o <<"disconnect">>
  PROVE  Closes(l, seen, k)
<1>0. PICK e, m : e = <<"disconnect">> /\ m = l \o seen
  OBVIOUS
<1>1. /\ seen \in Seq(Callbacks) /\ e \in Seq(Callbacks) /\ Len(e) = 1 /\ e[1] = "disconnect"
      /\ ToSet(e) = {"disconnect"} /\ "disconnect" \notin ToSet(seen)
  <2>1. seen \in Seq(Callbacks) /\ \A i \in 1..Len(seen) : seen[i] \in Reports
    BY ElementOfSeq DEF Reports, Callbacks
  <2>2. DOMAIN seen = 1..Len(seen)
    BY LenProperties
  <2>3. "disconnect" \notin ToSet(seen)
    BY <2>1, <2>2 DEF ToSet, Reports
  <2>4. e \in Seq(Callbacks) /\ Len(e) = 1 /\ e[1] = "disconnect" /\ DOMAIN e = {1}
    BY <1>0 DEF Callbacks
  <2> QED
    BY <2>1, <2>3, <2>4 DEF ToSet
<1>2. m \in Seq(Callbacks) /\ ToSet(m) = ToSet(l) \cup ToSet(seen) /\ (Reported(l) => Reported(m))
  BY <1>0, <1>1, LongerLog
<1>3. k = m \o e
  BY <1>0
<1>4. k \in Seq(Callbacks) /\ ToSet(k) = ToSet(m) \cup ToSet(e) /\ (Reported(m) => Reported(k))
  BY <1>1, <1>2, <1>3, LongerLog
<1>5. /\ Len(k) = Len(m) + 1 /\ Len(m) \in Nat /\ k[Len(m) + 1] = "disconnect"
      /\ DOMAIN k = 1..(Len(m) + 1) /\ DOMAIN m = 1..Len(m) /\ \A i \in 1..Len(m) : k[i] = m[i]
  <2>1. /\ Len(k) = Len(m) + Len(e) /\ Len(m) \in Nat
        /\ \A i \in 1..(Len(m) + Len(e)) : k[i] = IF i <= Len(m) THEN m[i] ELSE e[i - Len(m)]
    <3>1. Len(m) \in Nat
      BY <1>2, LenProperties
    <3>2. m \in Seq(Callbacks) /\ e \in Seq(Callbacks)
      BY <1>1, <1>2
    <3>3. /\ Len(m \o e) = Len(m) + Len(e)
          /\ \A i \in 1..(Len(m) + Len(e)) : (m \o e)[i] = IF i <= Len(m) THEN m[i] ELSE e[i - Len(m)]
      BY <3>2, ConcatProperties
    <3> QED
      BY <1>3, <3>1, <3>3
  <2>2. Len(k) = Len(m) + 1 /\ k[Len(m) + 1] = "disconnect" /\ \A i \in 1..Len(m) : k[i] = m[i]
    <3>1. Len(m) + 1 \in 1..(Len(m) + Len(e)) /\ ~(Len(m) + 1 <= Len(m)) /\ (Len(m) + 1) - Len(m) = 1
      BY <1>1, <2>1
    <3>2. \A i \in 1..Len(m) : i \in 1..(Len(m) + Len(e)) /\ i <= Len(m)
      BY <1>1, <2>1
    <3> QED
      BY <1>1, <2>1, <3>1, <3>2
  <2> QED
    BY <1>2, <1>4, <2>1, <2>2, LenProperties
<1>6. ASSUME "error" \in ToSet(seen) PROVE Reported(k)
  <2>1. PICK i \in DOMAIN m : m[i] = "error"
    BY <1>2, <1>6 DEF ToSet
  <2>2. i \in DOMAIN k /\ Len(m) + 1 \in DOMAIN k /\ i < Len(m) + 1 /\ k[i] = "error"
    BY <1>5, <2>1
  <2> QED
    BY <1>5, <2>2 DEF Reported
<1>7. ASSUME "disconnect" \notin ToSet(l) PROVE EndsIt(k)
  <2>1. \A i \in DOMAIN m : m[i] # "disconnect"
    BY <1>1, <1>2, <1>7 DEF ToSet
  <2>2. \A i \in DOMAIN k : i \in DOMAIN m \/ i = Len(m) + 1
    BY <1>5
  <2> QED
    BY <1>5, <2>1, <2>2 DEF EndsIt
<1> QED
  BY <1>1, <1>2, <1>4, <1>6, <1>7 DEF Closes

-----------------------------------------------------------------------------
(* The callbacks: when the stream has ended and what was reported first.   *)

\* A timer that has won should_stop, or found that it was set.
Fired == timer \in {"cancel", "report", "end"}

CallInv ==
    /\ log \in Seq(Callbacks)
    /\ Fired => Stopped
    /\ op = "aborted" => Stopped
    /\ at \in {"size", "chunk", "trailers"} => framing = "chunked"
    /\ timer = "end" => Logged("timeout")
    /\ Logged("timeout") => Stopped
    /\ Logged("disconnect") => at = "gone" \/ Logged("timeout")
    /\ EndIsLast /\ TruncationIsReported

\* The chain ends: an error is reported first if the body is short.
LEMMA FinishKeeps ==
  ASSUME CallInv, at # "gone", NEW complete, NEW seen \in Seq(Reports), Finish(complete, seen),
         Stopped => Stopped', Fired' => timer' = timer,
         ~Stopped' /\ framing' = "length" /\ received' < Spans => "error" \in ToSet(seen)
  PROVE  CallInv'
<1>1. at' = "gone" /\ op' = "none" /\ log' = log \o seen \o <<"disconnect">>
  BY DEF Finish, Settle
<1>2. /\ log' \in Seq(Callbacks) /\ ToSet(log') = ToSet(log) \cup ToSet(seen) \cup {"disconnect"}
      /\ "error" \in ToSet(seen) => Reported(log')
      /\ "disconnect" \notin ToSet(log) => EndsIt(log')
  <2>1. PICK l, k : l = log /\ k = log'
    OBVIOUS
  <2>2. l \in Seq(Callbacks) /\ k = l \o seen \o <<"disconnect">>
    BY <1>1, <2>1 DEF CallInv
  <2>3. /\ k \in Seq(Callbacks) /\ ToSet(k) = ToSet(l) \cup ToSet(seen) \cup {"disconnect"}
        /\ "error" \in ToSet(seen) => Reported(k)
        /\ "disconnect" \notin ToSet(l) => EndsIt(k)
    <3>1. Closes(l, seen, k)
      BY <2>2, EndOfLog
    <3> QED
      BY <3>1 DEF Closes
  <2> QED
    BY <2>1, <2>3
<1>3. "timeout" \notin ToSet(seen)
  <2>1. DOMAIN seen = 1..Len(seen) /\ \A i \in 1..Len(seen) : seen[i] \in Reports
    BY LenProperties, ElementOfSeq
  <2> QED
    BY <2>1 DEF ToSet, Reports
<1>4. Logged("timeout")' <=> Logged("timeout")
  BY <1>2, <1>3 DEF Logged
<1>5. EndIsLast'
  BY <1>2, <1>4 DEF CallInv, EndIsLast, EndsIt, Logged
<1>6. TruncationIsReported'
  BY <1>2 DEF TruncationIsReported, Reported
<1> QED
  BY <1>1, <1>2, <1>4, <1>5, <1>6 DEF CallInv, Fired

\* The chain goes on, after what was seen.
LEMMA GoesOnKeeps ==
  ASSUME CallInv, at # "gone", at' # "gone", op' # "aborted", NEW seen \in Seq(Reports), log' = log \o seen,
         Stopped => Stopped', Fired' => timer' = timer,
         at' \in {"size", "chunk", "trailers"} => framing' = "chunked"
  PROVE  CallInv'
<1>1. "timeout" \notin ToSet(seen) /\ "disconnect" \notin ToSet(seen) /\ seen \in Seq(Callbacks)
  <2>1. DOMAIN seen = 1..Len(seen) /\ \A i \in 1..Len(seen) : seen[i] \in Reports
    BY LenProperties, ElementOfSeq
  <2> QED
    <3>1. "timeout" \notin ToSet(seen) /\ "disconnect" \notin ToSet(seen)
      BY <2>1 DEF ToSet, Reports
    <3>2. seen \in Seq(Callbacks)
      BY DEF Reports, Callbacks
    <3> QED
      BY <3>1, <3>2
<1>2. log' \in Seq(Callbacks) /\ ToSet(log') = ToSet(log) \cup ToSet(seen)
  BY <1>1, LongerLog DEF CallInv
<1>3. (Logged("timeout")' <=> Logged("timeout")) /\ (Logged("disconnect")' <=> Logged("disconnect"))
  BY <1>1, <1>2 DEF Logged
<1>4. EndIsLast'
  <2>1. ~Logged("timeout")' => ~Logged("disconnect")'
    BY <1>3 DEF CallInv
  <2>2. ~Logged("disconnect")' => \A i \in DOMAIN log' : log'[i] # "disconnect"
    BY DEF Logged, ToSet
  <2> QED
    BY <2>1, <2>2 DEF EndIsLast
<1>5. TruncationIsReported'
  BY <1>3 DEF CallInv, TruncationIsReported
<1> QED
  BY <1>2, <1>3, <1>4, <1>5 DEF CallInv, Fired

\* What others do while the chain stays where it is.
LEMMA AsideKeeps ==
  ASSUME CallInv, UNCHANGED <<log, at, framing, received>>, Stopped => Stopped',
         Fired' => Stopped', timer' = "end" => timer = "end", op' = "aborted" => op = "aborted" \/ Stopped'
  PROVE  CallInv'
<1>1. \A e : Logged(e)' = Logged(e)
  BY DEF Logged
<1>2. EndIsLast'
  BY <1>1 DEF CallInv, EndIsLast
<1>3. TruncationIsReported'
  BY <1>1 DEF CallInv, TruncationIsReported
<1> QED
  BY <1>1, <1>2, <1>3 DEF CallInv, Fired

\* disconnect(), and the first steps of the timer.
LEMMA StopKeeps == CallInv /\ (Disconnect \/ Cancel \/ Expire \/ TimerTest \/ TimerDisconnect) => CallInv'
<1> SUFFICES ASSUME CallInv, Disconnect \/ Cancel \/ Expire \/ TimerTest \/ TimerDisconnect PROVE CallInv'
  OBVIOUS
<1>1. CASE Disconnect
  BY <1>1, AsideKeeps DEF Disconnect, Stopped, CallInv, Fired
<1>2. CASE Cancel
  <2>1. should_stop' = "done" /\ UNCHANGED <<log, at, framing, received>>
    BY <1>2 DEF Cancel
  <2>2. timer' = "end" => timer = "end"
    BY <1>2 DEF Cancel, TimerCancelled
  <2> QED
    BY <2>1, <2>2, AsideKeeps DEF Stopped
<1>3. CASE Expire \/ TimerTest
  BY <1>3, AsideKeeps DEF Expire, TimerTest, state, Stopped, Fired
<1>4. CASE TimerDisconnect
  BY <1>4, AsideKeeps DEF TimerDisconnect, Stopped, CallInv, Fired
<1> QED
  BY <1>1, <1>2, <1>3, <1>4

\* The timer reports.
LEMMA TimerReportKeeps == CallInv /\ TimerReport => CallInv'
<1> SUFFICES ASSUME CallInv, TimerReport PROVE CallInv'
  OBVIOUS
<1>1. /\ timer = "report" /\ timer' = "end" /\ log' = Append(log, "timeout")
      /\ UNCHANGED <<should_stop, at, op, framing, received>>
  BY DEF TimerReport
<1>2. Stopped /\ Stopped'
  BY <1>1 DEF CallInv, Fired, Stopped
<1>3. <<"timeout">> \in Seq(Callbacks) /\ ToSet(<<"timeout">>) = {"timeout"} /\ log' = log \o <<"timeout">>
  <2>1. "timeout" \in Callbacks
    BY DEF Callbacks
  <2>2. log' = log \o <<"timeout">>
    BY <1>1, <2>1, AppendIsConcat DEF CallInv
  <2>3. DOMAIN <<"timeout">> = {1} /\ <<"timeout">>[1] = "timeout" /\ <<"timeout">> \in Seq(Callbacks)
    BY <2>1
  <2> QED
    BY <2>2, <2>3 DEF ToSet
<1>4. log' \in Seq(Callbacks) /\ ToSet(log') = ToSet(log) \cup {"timeout"}
  <2>1. PICK l, k, more : l = log /\ k = log' /\ more = <<"timeout">>
    OBVIOUS
  <2>2. l \in Seq(Callbacks) /\ more \in Seq(Callbacks) /\ k = l \o more
    BY <1>3, <2>1 DEF CallInv
  <2>3. k \in Seq(Callbacks) /\ ToSet(k) = ToSet(l) \cup ToSet(more)
    BY <2>2, LongerLog
  <2> QED
    BY <1>3, <2>1, <2>3
<1>5. Logged("timeout")' /\ (Logged("disconnect")' <=> Logged("disconnect"))
  BY <1>4 DEF Logged
<1>6. EndIsLast' /\ TruncationIsReported'
  BY <1>2, <1>5 DEF EndIsLast, TruncationIsReported
<1> QED
  BY <1>1, <1>2, <1>4, <1>5, <1>6 DEF CallInv, Fired

\* The timer ends the stream, under whatever operation is pending.
LEMMA TimerEndKeeps == CallInv /\ TimerEnd => CallInv'
<1> SUFFICES ASSUME CallInv, TimerEnd PROVE CallInv'
  OBVIOUS
<1>1. /\ timer = "end" /\ timer' = "off" /\ log' = log \o <<>> \o <<"disconnect">>
      /\ UNCHANGED <<should_stop, at, framing, received>>
  BY DEF TimerEnd, Settle
<1>2. Stopped /\ Stopped' /\ Logged("timeout")
  BY <1>1 DEF CallInv, Fired, Stopped
<1>3. <<>> \in Seq(Reports) /\ ToSet(<<>>) = {}
  BY DEF ToSet
<1>4. log' \in Seq(Callbacks) /\ ToSet(log') = ToSet(log) \cup ToSet(<<>>) \cup {"disconnect"}
  BY <1>1, <1>3, EndOfLog DEF CallInv, Closes
<1>5. Logged("timeout")'
  BY <1>2, <1>4 DEF Logged
<1>6. EndIsLast' /\ TruncationIsReported'
  BY <1>2, <1>5 DEF EndIsLast, TruncationIsReported
<1> QED
  BY <1>1, <1>2, <1>4, <1>5, <1>6 DEF CallInv, Fired

\* What a handler of the chain may report in one go.
LEMMA SomeReports ==
  /\ <<>> \in Seq(Reports) /\ <<"error">> \in Seq(Reports) /\ <<"connect">> \in Seq(Reports)
  /\ <<"data">> \in Seq(Reports) /\ <<"connect", "error">> \in Seq(Reports)
  /\ "error" \in ToSet(<<"error">>) /\ "error" \in ToSet(<<"connect", "error">>)
<1>1. "error" \in Reports /\ "connect" \in Reports /\ "data" \in Reports
  BY DEF Reports
<1>2. /\ <<>> \in Seq(Reports) /\ <<"error">> \in Seq(Reports) /\ <<"connect">> \in Seq(Reports)
      /\ <<"data">> \in Seq(Reports) /\ <<"connect", "error">> \in Seq(Reports)
  BY <1>1
<1>3. 1 \in DOMAIN <<"error">> /\ <<"error">>[1] = "error"
  OBVIOUS
<1>4. 2 \in DOMAIN <<"connect", "error">> /\ <<"connect", "error">>[2] = "error"
  OBVIOUS
<1> QED
  BY <1>2, <1>3, <1>4 DEF ToSet

\* The chain goes on without a word, or after one.
LEMMA GoesOnWith ==
  ASSUME CallInv, at # "gone", at' # "gone", op' # "aborted",
         Stopped => Stopped', Fired' => timer' = timer,
         at' \in {"size", "chunk", "trailers"} => framing' = "chunked",
         \/ log' = log
         \/ \E x \in Reports : log' = Append(log, x)
  PROVE  CallInv'
<1>1. CASE log' = log
  <2>1. log' = log \o <<>>
    BY <1>1, ConcatEmptySeq DEF CallInv
  <2> QED
    BY <2>1, SomeReports, GoesOnKeeps
<1>2. CASE \E x \in Reports : log' = Append(log, x)
  <2>1. PICK x \in Reports : log' = Append(log, x)
    BY <1>2
  <2>2. x \in Callbacks /\ <<x>> \in Seq(Reports)
    BY <2>1 DEF Reports, Callbacks
  <2>3. log' = log \o <<x>>
    BY <2>1, <2>2, AppendIsConcat DEF CallInv
  <2> QED
    BY <2>2, <2>3, GoesOnKeeps
<1> QED
  BY <1>1, <1>2

\* A callback may stop the stream, and with it the timer.
LEMMA HeedFacts ==
  ASSUME NEW reaction, Heed(reaction)
  PROVE  /\ Stopped => Stopped'
         /\ Fired' => timer' = timer
BY DEF Heed, Stopped, TimerCancelled, Fired

\* Operations are started and completed.
LEMMA OperationKeeps == CallInv /\ (Start \/ Perform) => CallInv'
<1> SUFFICES ASSUME CallInv, Start \/ Perform PROVE CallInv'
  OBVIOUS
<1>1. UNCHANGED <<log, at, framing, received, should_stop, timer>>
  BY DEF Start, Perform, state
<1>2. op' = "aborted" => op = "aborted"
  <2>1. CASE Start
    BY <2>1 DEF Start
  <2>2. CASE Perform
    BY <2>2 DEF Perform, Take
  <2> QED
    BY <2>1, <2>2
<1>3. Stopped' = Stopped /\ Fired' = Fired
  BY <1>1 DEF Stopped, Fired
<1> QED
  BY <1>1, <1>2, <1>3, AsideKeeps DEF CallInv

\* Resolving, connecting and sending.
LEMMA HandleEarlyKeeps == CallInv /\ HandleEarly => CallInv'
<1> SUFFICES ASSUME CallInv, HandleEarly PROVE CallInv'
  OBVIOUS
<1>1. at \in Early /\ UNCHANGED <<should_stop, framing, received, timer>>
  BY DEF HandleEarly
<1>2. at # "gone" /\ Stopped' = Stopped /\ Fired' = Fired
  BY <1>1 DEF Early, Stopped, Fired
<1>3. CASE Finish(FALSE, <<"error">>)
  BY <1>1, <1>2, <1>3, SomeReports, FinishKeeps
<1>4. CASE /\ GoOn(CASE at = "resolve" -> "connect" [] at = "connect" -> "send" [] at = "send" -> "head", "start")
           /\ UNCHANGED log
  <2>1. at' \in {"connect", "send", "head"} /\ op' = "start" /\ log' = log
    BY <1>1, <1>4 DEF GoOn, Early
  <2> QED
    BY <1>1, <1>2, <2>1, GoesOnWith
<1> QED
  BY <1>3, <1>4 DEF HandleEarly

\* The head.
LEMMA HandleHeadKeeps == CallInv /\ HandleHead => CallInv'
<1> SUFFICES ASSUME CallInv, HandleHead PROVE CallInv'
  OBVIOUS
<1>1. at = "head" /\ received' = received
  BY DEF HandleHead
<1>2. CASE Finish(FALSE, <<"error">>) /\ UNCHANGED <<should_stop, timer>>
  BY <1>1, <1>2, SomeReports, FinishKeeps DEF Stopped
<1>3. CASE ~(Finish(FALSE, <<"error">>) /\ UNCHANGED <<should_stop, peer_will_close, framing, timer, buffer>>)
  <2>1. ~Stopped /\ timer' = TimerCancelled
    BY <1>3 DEF HandleHead
  <2>2. PICK last \in BOOLEAN : last = (Head(buffer) = "head")
    OBVIOUS
  <2>3. PICK reaction \in Reactions :
          /\ should_stop' = IF reaction = "none" THEN should_stop ELSE "done"
          /\ \/ /\ last /\ answer.status = "error" /\ reaction # "refuse"
                /\ Finish(FALSE, <<"connect", "error">>)
             \/ /\ ~last \/ answer.status = "fine"
                /\ IF reaction = "refuse"
                   THEN Finish(FALSE, <<"connect">>)
                   ELSE /\ is_connected' = TRUE /\ log' = Append(log, "connect")
                        /\ at' = IF framing' = "chunked" THEN "size" ELSE "body"
                        /\ op' = IF framing' = "chunked" THEN "start" ELSE "enter"
                        /\ UNCHANGED socket
    BY <1>3, <2>2 DEF HandleHead
  <2>4. Fired' => timer' = timer
    BY <2>1 DEF Fired, TimerCancelled
  <2>5. CASE Finish(FALSE, <<"connect", "error">>)
    BY <1>1, <2>1, <2>4, <2>5, SomeReports, FinishKeeps
  <2>6. CASE reaction = "refuse" /\ Finish(FALSE, <<"connect">>)
    <3>1. Stopped'
      BY <2>3, <2>6 DEF Stopped
    <3> QED
      BY <1>1, <2>4, <2>6, <3>1, SomeReports, FinishKeeps
  <2>7. CASE /\ log' = Append(log, "connect")
             /\ at' = IF framing' = "chunked" THEN "size" ELSE "body"
             /\ op' = IF framing' = "chunked" THEN "start" ELSE "enter"
    <3>1. "connect" \in Reports
      BY DEF Reports
    <3>2. at' # "gone" /\ op' # "aborted" /\ (at' \in {"size", "chunk", "trailers"} => framing' = "chunked")
      BY <2>7
    <3> QED
      BY <1>1, <2>1, <2>4, <2>7, <3>1, <3>2, GoesOnWith
  <2> QED
    BY <2>3, <2>5, <2>6, <2>7
<1> QED
  BY <1>2, <1>3

\* The body: it is delivered, and it ends, or it is cut short.
LEMMA HandleBodyKeeps == CallInv /\ HandleBody => CallInv'
<1> SUFFICES ASSUME CallInv, HandleBody PROVE CallInv'
  OBVIOUS
<1>1. at = "body" /\ op \in Results \cup {"enter"} /\ framing' = framing
  BY DEF HandleBody
<1>2. CASE Enter
  <2> DEFINE span == IF framing = "none" THEN 0 ELSE Cardinality({i \in DOMAIN buffer : buffer[i] = "data"})
             rest == SubSeq(buffer, span + 1, Len(buffer))
  <2>1. PICK seen : seen = IF span > 0 THEN <<"data">> ELSE <<>>
    OBVIOUS
  <2>2. seen \in Seq(Reports)
    BY <2>1, SomeReports
  <2>3. PICK reaction :
          /\ Heed(reaction)
          /\ IF should_stop' # "no"
             THEN Finish(FALSE, seen)
             ELSE IF StreamBodyComplete(received')
             THEN \E complete : Finish(complete, seen)
             ELSE GoOn("body", "start") /\ log' = log \o seen
    BY <1>2, <2>1 DEF Enter
  <2>4. (Stopped => Stopped') /\ (Fired' => timer' = timer)
    BY <2>3, HeedFacts
  <2>5. CASE should_stop' # "no" /\ Finish(FALSE, seen)
    BY <1>1, <2>2, <2>4, <2>5, FinishKeeps DEF Stopped
  <2>6. CASE StreamBodyComplete(received') /\ \E complete : Finish(complete, seen)
    <3>1. framing' = "length" => ~(received' < Spans)
      BY <1>1, <2>6, SpansAssumption DEF StreamBodyComplete
    <3> QED
      BY <1>1, <2>2, <2>4, <2>6, <3>1, FinishKeeps
  <2>7. CASE GoOn("body", "start") /\ log' = log \o seen
    <3>1. at' = "body" /\ op' = "start"
      BY <2>7 DEF GoOn
    <3> QED
      BY <1>1, <2>2, <2>4, <2>7, <3>1, GoesOnKeeps
  <2> QED
    BY <2>3, <2>5, <2>6, <2>7
<1>3. CASE ~(op = "enter" \/ (op = "ok" /\ ~Stopped))
  <2>1. /\ Finish(FALSE, IF ReadFailureIsError THEN <<"error">> ELSE <<>>)
        /\ UNCHANGED <<should_stop, timer, received>>
    BY <1>3 DEF HandleBody
  <2>2. ~Stopped' /\ framing' = "length" /\ received' < Spans => ReadFailureIsError
    BY <1>1, <2>1 DEF ReadFailureIsError, Stopped, CallInv
  <2>3. PICK seen : seen = IF ReadFailureIsError THEN <<"error">> ELSE <<>>
    OBVIOUS
  <2>4. seen \in Seq(Reports) /\ (ReadFailureIsError => "error" \in ToSet(seen))
    BY <2>3, SomeReports
  <2> QED
    BY <1>1, <2>1, <2>2, <2>3, <2>4, FinishKeeps DEF Stopped
<1> QED
  BY <1>2, <1>3 DEF HandleBody

\* A chunk is delivered.
LEMMA ChunkKeeps ==
  ASSUME CallInv, at # "gone", framing = "chunked", framing' = framing, NEW rest, DeliverChunk(rest)
  PROVE  CallInv'
<1>1. PICK reaction :
        /\ Heed(reaction)
        /\ \/ Finish(FALSE, <<"data">>)
           \/ GoOn("size", "start") /\ log' = Append(log, "data")
  BY DEF DeliverChunk
<1>2. (Stopped => Stopped') /\ (Fired' => timer' = timer)
  BY <1>1, HeedFacts
<1>3. CASE Finish(FALSE, <<"data">>)
  BY <1>2, <1>3, SomeReports, FinishKeeps
<1>4. CASE GoOn("size", "start") /\ log' = Append(log, "data")
  <2>1. at' = "size" /\ op' = "start" /\ "data" \in Reports
    BY <1>4 DEF GoOn, Reports
  <2> QED
    BY <1>2, <1>4, <2>1, GoesOnWith
<1> QED
  BY <1>1, <1>3, <1>4

\* A chunked body is cut short.
LEMMA EndChunkedKeeps ==
  ASSUME CallInv, at # "gone", framing = "chunked", framing' = framing, EndChunked
  PROVE  CallInv'
<1>1. PICK seen : seen = IF op = "failed" /\ ~Stopped THEN <<"error">> ELSE <<>>
  OBVIOUS
<1>2. seen \in Seq(Reports) /\ Finish(FALSE, seen) /\ UNCHANGED <<should_stop, timer>>
  BY <1>1, SomeReports DEF EndChunked
<1> QED
  BY <1>2, FinishKeeps DEF Stopped

\* The sizes of the chunks, the chunks and what comes after the last of them.
LEMMA HandleChunksKeep == CallInv /\ (HandleSize \/ HandleChunk \/ HandleTrailers) => CallInv'
<1> SUFFICES ASSUME CallInv, HandleSize \/ HandleChunk \/ HandleTrailers PROVE CallInv'
  OBVIOUS
<1>1. at \in {"size", "chunk", "trailers"} /\ framing' = framing
  BY DEF HandleSize, HandleChunk, HandleTrailers
<1>2. framing = "chunked" /\ at # "gone"
  BY <1>1 DEF CallInv
<1>3. CASE EndChunked
  BY <1>1, <1>2, <1>3, EndChunkedKeeps
<1>4. CASE \E rest : DeliverChunk(rest)
  BY <1>1, <1>2, <1>4, ChunkKeeps
<1>5. CASE \E place \in {"chunk", "trailers"} : GoOn(place, "start") /\ UNCHANGED <<log, should_stop, timer>>
  <2>1. at' \in {"chunk", "trailers"} /\ op' = "start" /\ UNCHANGED <<log, should_stop, timer>>
    BY <1>5 DEF GoOn
  <2> QED
    BY <1>1, <1>2, <2>1, GoesOnWith DEF Stopped
<1>6. CASE \E seen \in {<<>>, <<"error">>} : \E complete : Finish(complete, seen) /\ UNCHANGED <<should_stop, timer>>
  BY <1>1, <1>2, <1>6, SomeReports, FinishKeeps DEF Stopped
<1>7. CASE HandleSize
  BY <1>3, <1>4, <1>5, <1>6, <1>7 DEF HandleSize
<1>8. CASE HandleChunk
  BY <1>3, <1>4, <1>8 DEF HandleChunk
<1>9. CASE HandleTrailers
  BY <1>6, <1>9 DEF HandleTrailers
<1> QED
  BY <1>7, <1>8, <1>9

\* At the start the caller has seen nothing.
LEMMA CallInit == Init => CallInv
<1> SUFFICES ASSUME Init PROVE CallInv
  OBVIOUS
<1>1. /\ log = <<>> /\ timer = "armed" /\ op = "start" /\ at \in {"resolve", "send"}
  BY DEF Init
<1>2. \A e : ~Logged(e)
  BY <1>1 DEF Logged, ToSet
<1>3. EndIsLast /\ TruncationIsReported
  BY <1>1, <1>2 DEF EndIsLast, TruncationIsReported
<1> QED
  BY <1>1, <1>2, <1>3 DEF CallInv, Fired

\* Every step preserves the invariant of the callbacks.
LEMMA CallStep == CallInv /\ [Next]_vars => CallInv'
<1> SUFFICES ASSUME CallInv, [Next]_vars PROVE CallInv'
  OBVIOUS
<1>1. CASE Disconnect \/ Cancel \/ Expire \/ TimerTest \/ TimerDisconnect
  BY <1>1, StopKeeps
<1>2. CASE TimerReport \/ TimerEnd
  BY <1>2, TimerReportKeeps, TimerEndKeeps
<1>3. CASE Start \/ Perform
  BY <1>3, OperationKeeps
<1>4. CASE HandleEarly \/ HandleHead \/ HandleBody
  BY <1>4, HandleEarlyKeeps, HandleHeadKeeps, HandleBodyKeeps
<1>5. CASE HandleSize \/ HandleChunk \/ HandleTrailers
  BY <1>5, HandleChunksKeep
<1>6. CASE Emit \/ Drop \/ UNCHANGED vars
  <2>1. UNCHANGED <<log, at, framing, received, should_stop, timer, op>>
    BY <1>6 DEF Emit, Drop, vars, state
  <2> QED
    BY <2>1, AsideKeeps DEF Stopped, Fired, CallInv
<1> QED
  BY <1>1, <1>2, <1>3, <1>4, <1>5, <1>6 DEF Next, Timer, Chain

(* Until the timer has reported, on_disconnect is the last callback and    *)
(* arrives once, whoever disconnects and wherever the chain is.            *)
THEOREM EndIsAlwaysLast == Spec => []EndIsLast
<1>1. CallInv => EndIsLast
  BY DEF CallInv
<1> QED
  BY <1>1, CallInit, CallStep, PTL DEF Spec

(* A caller that has not asked to stop and gets less than the declared     *)
(* length has an error before on_disconnect.                               *)
THEOREM TruncationIsAlwaysReported == Spec => []TruncationIsReported
<1>1. CallInv => TruncationIsReported
  BY DEF CallInv
<1> QED
  BY <1>1, CallInit, CallStep, PTL DEF Spec

-----------------------------------------------------------------------------
(* What the server sends.                                                  *)

Parts == {"interim", "head", "size", "data", "last", "crlf", "surplus", "fin"}

\* How many parts of an answer its body is made of.
BodySize(f) == IF f = "none" THEN 0 ELSE IF f = "chunked" THEN 2 * Spans + 2 ELSE Spans

\* S is an answer that is framed by f: a head, a body, and what comes after it.
AnswerShape(S, f, close) ==
    /\ S \in Seq(Parts) /\ Len(S) >= 1 + BodySize(f)
    /\ S[1] = "head"
    /\ f \in {"length", "eof"} => \A i \in 2..(Spans + 1) : S[i] = "data"
    /\ f = "chunked" => \A i \in 2..Len(S) : S[i] = "last" => i = 2 * Spans + 2
    /\ \A i \in (2 + BodySize(f))..Len(S) :
          S[i] \in {"surplus", "fin"} /\ (~close => S[i] = "surplus")

\* The body has the parts that its framing asks for.
LEMMA BodyShape ==
  ASSUME NEW f \in Framings, NEW B, B = Body(f)
  PROVE  /\ B \in Seq(Parts) /\ Len(B) = BodySize(f) /\ BodySize(f) \in Nat
         /\ f \in {"length", "eof"} => \A i \in 1..Spans : B[i] = "data"
         /\ f = "chunked" => \A i \in 1..Len(B) : B[i] = "last" => i = 2 * Spans + 1
<1>0. Spans \in Nat \ {0} /\ f \in {"none", "length", "chunked", "eof"}
  BY SpansAssumption, FramingsAssumption
<1>1. CASE f = "none"
  BY <1>1 DEF Body, BodySize
<1>2. CASE f \in {"length", "eof"}
  <2>1. B = [i \in 1..Spans |-> "data"]
    BY <1>2 DEF Body
  <2>2. "data" \in Parts
    BY DEF Parts
  <2>3. B \in Seq(Parts) /\ Len(B) = Spans /\ \A i \in 1..Spans : B[i] = "data"
    BY <1>0, <2>1, <2>2
  <2> QED
    BY <1>0, <1>2, <2>3 DEF BodySize
<1>3. CASE f = "chunked"
  <2>1. PICK C : C = [i \in 1..2 * Spans |-> IF i % 2 = 1 THEN "size" ELSE "data"]
    OBVIOUS
  <2>2. PICK D : D = <<"last", "crlf">>
    OBVIOUS
  <2>3. B = C \o D
    BY <1>3, <2>1, <2>2 DEF Body
  <2>4. PICK n \in Nat : n = 2 * Spans
    BY <1>0
  <2>5. C \in Seq(Parts) /\ Len(C) = n /\ \A i \in 1..n : C[i] # "last"
    BY <2>1, <2>4 DEF Parts
  <2>6. D \in Seq(Parts) /\ Len(D) = 2 /\ D[1] = "last" /\ D[2] = "crlf"
    BY <2>2 DEF Parts
  <2>7. /\ C \o D \in Seq(Parts) /\ Len(C \o D) = n + 2
        /\ \A i \in 1..(n + 2) : (C \o D)[i] = IF i <= n THEN C[i] ELSE D[i - n]
    <3>1. /\ C \o D \in Seq(Parts) /\ Len(C \o D) = Len(C) + Len(D)
          /\ \A i \in 1..(Len(C) + Len(D)) : (C \o D)[i] = IF i <= Len(C) THEN C[i] ELSE D[i - Len(C)]
      BY <2>5, <2>6, ConcatProperties
    <3> QED
      BY <2>5, <2>6, <3>1
  <2>8. ASSUME NEW i \in 1..(n + 2), B[i] = "last" PROVE i = n + 1
    <3>1. ~(i <= n) /\ B[i] = D[i - n]
      BY <2>3, <2>4, <2>5, <2>7, <2>8
    <3>2. i = n + 1 \/ i = n + 2
      BY <2>4, <3>1
    <3>3. i # n + 2
      BY <2>4, <2>6, <2>8, <3>1
    <3> QED
      BY <3>2, <3>3
  <2>9. B \in Seq(Parts) /\ Len(B) = n + 2
    BY <2>3, <2>7
  <2>10. BodySize(f) = n + 2 /\ n + 1 = 2 * Spans + 1 /\ f \notin {"length", "eof"}
    BY <1>3, <2>4 DEF BodySize
  <2> QED
    BY <2>8, <2>9, <2>10
<1> QED
  BY <1>0, <1>1, <1>2, <1>3

\* The script of an answer, when the server sends no other head before the real one.
LEMMA ScriptShape ==
  ASSUME ~Interim, NEW a \in Answers
  PROVE  AnswerShape(Script(a), a.framing, a.close)
<1>0. /\ a.framing \in Framings /\ a.close \in BOOLEAN /\ a.surplus \in BOOLEAN /\ ~a.interim
      /\ Interim \in BOOLEAN
  BY SpansAssumption DEF Answers
<1>1. PICK f, H, B, X, F :
        /\ f = a.framing /\ H = <<"head">> /\ B = Body(f)
        /\ X = (IF a.surplus THEN <<"surplus">> ELSE <<>>) /\ F = (IF a.close THEN <<"fin">> ELSE <<>>)
  OBVIOUS
<1>2. /\ B \in Seq(Parts) /\ Len(B) = BodySize(f) /\ BodySize(f) \in Nat
      /\ f \in {"length", "eof"} => \A i \in 1..Spans : B[i] = "data"
      /\ f = "chunked" => \A i \in 1..Len(B) : B[i] = "last" => i = 2 * Spans + 1
  BY <1>0, <1>1, BodyShape
<1>3. H \in Seq(Parts) /\ Len(H) = 1 /\ H[1] = "head"
  BY <1>1 DEF Parts
<1>4. X \in Seq(Parts) /\ Len(X) \in Nat /\ \A i \in 1..Len(X) : X[i] = "surplus"
  <2>1. CASE a.surplus
    BY <1>1, <2>1 DEF Parts
  <2>2. CASE ~a.surplus
    BY <1>1, <2>2
  <2> QED
    BY <2>1, <2>2
<1>5. /\ F \in Seq(Parts) /\ Len(F) \in Nat /\ \A i \in 1..Len(F) : F[i] = "fin"
      /\ ~a.close => Len(F) = 0
  <2>1. CASE a.close
    BY <1>1, <2>1 DEF Parts
  <2>2. CASE ~a.close
    BY <1>1, <2>2
  <2> QED
    BY <2>1, <2>2
<1>6. Script(a) = H \o B \o X \o F
  <2>1. <<>> \o <<"head">> = <<"head">>
    BY <1>1, <1>3, ConcatEmptySeq
  <2> QED
    BY <1>0, <1>1, <2>1 DEF Script
<1>7. PICK n \in Nat : n = BodySize(f)
  BY <1>2
<1>8. PICK HB : HB = H \o B
  OBVIOUS
<1>9. /\ HB \in Seq(Parts) /\ Len(HB) = 1 + n
      /\ \A i \in 1..(1 + n) : HB[i] = IF i <= 1 THEN H[i] ELSE B[i - 1]
  <2>1. /\ HB \in Seq(Parts) /\ Len(HB) = Len(H) + Len(B)
        /\ \A i \in 1..(Len(H) + Len(B)) : HB[i] = IF i <= Len(H) THEN H[i] ELSE B[i - Len(H)]
    BY <1>2, <1>3, <1>8, ConcatProperties
  <2> QED
    BY <1>2, <1>3, <1>7, <2>1
<1>10. PICK HBX : HBX = HB \o X
  OBVIOUS
<1>11. /\ HBX \in Seq(Parts) /\ Len(HBX) = 1 + n + Len(X)
       /\ \A i \in 1..(1 + n + Len(X)) : HBX[i] = IF i <= 1 + n THEN HB[i] ELSE X[i - (1 + n)]
  <2>1. /\ HBX \in Seq(Parts) /\ Len(HBX) = Len(HB) + Len(X)
        /\ \A i \in 1..(Len(HB) + Len(X)) : HBX[i] = IF i <= Len(HB) THEN HB[i] ELSE X[i - Len(HB)]
    BY <1>4, <1>9, <1>10, ConcatProperties
  <2> QED
    BY <1>9, <2>1
<1>12. PICK S : S = Script(a)
  OBVIOUS
<1>13. /\ S \in Seq(Parts) /\ Len(S) = 1 + n + Len(X) + Len(F)
       /\ \A i \in 1..(1 + n + Len(X) + Len(F)) :
             S[i] = IF i <= 1 + n + Len(X) THEN HBX[i] ELSE F[i - (1 + n + Len(X))]
  <2>1. S = HBX \o F
    BY <1>6, <1>8, <1>10, <1>12
  <2>2. /\ S \in Seq(Parts) /\ Len(S) = Len(HBX) + Len(F)
        /\ \A i \in 1..(Len(HBX) + Len(F)) : S[i] = IF i <= Len(HBX) THEN HBX[i] ELSE F[i - Len(HBX)]
    BY <1>5, <1>11, <2>1, ConcatProperties
  <2> QED
    BY <1>11, <2>2
<1>14. S[1] = "head" /\ \A i \in 2..(1 + n) : S[i] = B[i - 1]
  <2>1. \A i \in 1..(1 + n) : S[i] = HB[i]
    BY <1>4, <1>5, <1>7, <1>11, <1>13
  <2> QED
    BY <1>3, <1>7, <1>9, <2>1
<1>15. ASSUME NEW i \in (2 + n)..Len(S)
       PROVE  S[i] \in {"surplus", "fin"} /\ (~a.close => S[i] = "surplus")
  <2>1. CASE i <= 1 + n + Len(X)
    <3>1. S[i] = X[i - (1 + n)] /\ i - (1 + n) \in 1..Len(X)
      BY <1>4, <1>5, <1>7, <1>11, <1>13, <1>15, <2>1
    <3> QED
      BY <1>4, <3>1
  <2>2. CASE ~(i <= 1 + n + Len(X))
    <3>1. S[i] = F[i - (1 + n + Len(X))] /\ i - (1 + n + Len(X)) \in 1..Len(F)
      BY <1>4, <1>5, <1>7, <1>13, <1>15, <2>2
    <3>2. Len(F) # 0
      BY <1>5, <3>1
    <3> QED
      BY <1>5, <3>1, <3>2
  <2> QED
    BY <2>1, <2>2
<1>16. f = "chunked" => \A i \in 2..Len(S) : S[i] = "last" => i = 2 * Spans + 2
  <2> SUFFICES ASSUME f = "chunked", NEW i \in 2..Len(S), S[i] = "last" PROVE i = 2 * Spans + 2
    OBVIOUS
  <2>1. i \in 2..(1 + n)
    <3>1. i \notin (2 + n)..Len(S)
      BY <1>15
    <3> QED
      BY <1>4, <1>5, <1>7, <1>13, <3>1
  <2>2. i - 1 \in 1..n /\ B[i - 1] = "last"
    BY <1>7, <1>14, <2>1
  <2>3. i - 1 = 2 * Spans + 1
    BY <1>2, <1>7, <2>2
  <2> QED
    BY <2>1, <2>3, SpansAssumption
<1>17. f \in {"length", "eof"} => \A i \in 2..(Spans + 1) : S[i] = "data"
  <2> SUFFICES ASSUME f \in {"length", "eof"}, NEW i \in 2..(Spans + 1) PROVE S[i] = "data"
    OBVIOUS
  <2>1. n = Spans
    BY <1>7 DEF BodySize
  <2>2. i \in 2..(1 + n) /\ i - 1 \in 1..Spans
    BY <2>1, SpansAssumption
  <2> QED
    BY <1>2, <1>14, <2>2
<1>18. Len(S) >= 1 + n
  BY <1>4, <1>5, <1>7, <1>13
<1> QED
  BY <1>1, <1>7, <1>12, <1>13, <1>14, <1>15, <1>16, <1>17, <1>18 DEF AnswerShape


-----------------------------------------------------------------------------
(* The socket that goes back to the pool.                                  *)

NoInterim == ~Interim

\* Of the answer, p parts were consumed, q were read and m have been sent; what was
\* sent and not read is lost when the server resets, and it sends no more once it hung up.
Streaming(p, q, m, n) ==
    LET S == Script(answer) IN
    /\ p \in 0..q /\ q \in 0..m /\ m \in 0..n /\ n \in 0..Len(S)
    /\ buffer = SubSeq(S, p + 1, q)
    /\ wire = SubSeq(S, q + 1, m) \/ (wire = <<>> /\ peer # "up")
    /\ left = SubSeq(S, n + 1, Len(S)) /\ (peer = "up" => n = m)

\* How many parts the chain has consumed, by where it is.
Consumed(p) ==
    /\ at \in Early \cup {"head"} => p = 0 /\ received = 0
    /\ at = "body" => received \in Nat /\ p = 1 + received /\ p <= 1 + Spans /\ framing # "chunked"
    /\ at = "trailers" => p = 2 * Spans + 2
    /\ at \in {"size", "chunk"} => p >= 1

InStep == \E p, q, m, n \in Nat : Streaming(p, q, m, n) /\ Consumed(p)

SocketInv ==
    /\ answer \in Answers /\ at \in Early \cup Reads \cup {"gone"}
    /\ response_complete => at = "gone" /\ socket # "held"
    /\ socket = "pooled" => at = "gone"
    /\ at \in {"body", "size", "chunk", "trailers"} => framing = answer.framing /\ peer_will_close = answer.close
    /\ at \in {"size", "chunk", "trailers"} => framing = "chunked"
    /\ op = "ok" /\ at \in Reads => buffer # <<>>
    /\ at # "gone" => InStep
    /\ wire \in Seq(Parts) /\ left \in Seq(Parts)
    /\ PooledInStep

\* The shape of the answer that is being read.
LEMMA TheAnswer ==
  ASSUME NoInterim, SocketInv, NEW S, S = Script(answer)
  PROVE  AnswerShape(S, answer.framing, answer.close) /\ S \in Seq(Parts) /\ Len(S) \in Nat
<1>1. AnswerShape(S, answer.framing, answer.close)
  BY ScriptShape DEF NoInterim, SocketInv
<1>2. S \in Seq(Parts)
  BY <1>1 DEF AnswerShape
<1> QED
  BY <1>1, <1>2, LenProperties

\* The stream, with the sequence that is streamed named, and its bounds side by side.
Flow(S, p, q, m, n) ==
    /\ S = Script(answer) /\ AnswerShape(S, answer.framing, answer.close)
    /\ S \in Seq(Parts) /\ Len(S) \in Nat /\ Consumed(p)
    /\ p \in Nat /\ q \in Nat /\ m \in Nat /\ n \in Nat
    /\ p <= q /\ q <= m /\ m <= n /\ n <= Len(S)
    /\ p \in 0..Len(S) /\ q \in p..Len(S) /\ q \in 0..Len(S) /\ m \in q..Len(S)
    /\ n \in 0..Len(S) /\ Len(S) \in n..Len(S)
    /\ buffer = SubSeq(S, p + 1, q)
    /\ wire = SubSeq(S, q + 1, m) \/ (wire = <<>> /\ peer # "up")
    /\ left = SubSeq(S, n + 1, Len(S)) /\ (peer = "up" => n = m)

\* Before the chain is at its end, the answer is on its way.
LEMMA StreamPick ==
  ASSUME NoInterim, SocketInv, at # "gone"
  PROVE  \E S, p, q, m, n : Flow(S, p, q, m, n)
<1>1. PICK S : S = Script(answer)
  OBVIOUS
<1>2. AnswerShape(S, answer.framing, answer.close) /\ S \in Seq(Parts) /\ Len(S) \in Nat
  BY <1>1, TheAnswer
<1>3. PICK p \in Nat, q \in Nat, m \in Nat, n \in Nat : Streaming(p, q, m, n) /\ Consumed(p)
  BY DEF SocketInv, InStep
<1>4. /\ p \in 0..q /\ q \in 0..m /\ m \in 0..n /\ n \in 0..Len(S)
      /\ buffer = SubSeq(S, p + 1, q)
      /\ wire = SubSeq(S, q + 1, m) \/ (wire = <<>> /\ peer # "up")
      /\ left = SubSeq(S, n + 1, Len(S)) /\ (peer = "up" => n = m)
  BY <1>1, <1>3 DEF Streaming
<1>5. /\ p <= q /\ q <= m /\ m <= n /\ n <= Len(S)
      /\ p \in 0..Len(S) /\ q \in p..Len(S) /\ q \in 0..Len(S) /\ m \in q..Len(S)
      /\ Len(S) \in n..Len(S)
  BY <1>2, <1>3, <1>4
<1> QED
  BY <1>1, <1>2, <1>3, <1>4, <1>5 DEF Flow

\* The chain ends and gives the socket up.
LEMMA GivesUp ==
  ASSUME SocketInv, at # "gone", NEW seen, Finish(FALSE, seen), UNCHANGED <<answer, wire, left, response_complete>>
  PROVE  SocketInv'
<1>1. at' = "gone" /\ op' = "none" /\ socket' # "pooled"
  BY DEF Finish, Settle, SocketInv
<1>2. ~response_complete'
  BY DEF SocketInv
<1> QED
  BY <1>1, <1>2 DEF SocketInv, PooledInStep, Reads

\* The chain ends with the last part of the answer that it waits for.
LEMMA EndsWhole ==
  ASSUME NoInterim, SocketInv, at # "gone", NEW complete \in BOOLEAN, NEW seen, Finish(complete, seen),
         UNCHANGED <<answer, wire, left>>, response_complete' = complete,
         NEW p, Consumed(p), NEW q, NEW m, NEW n, Streaming(p, q, m, n),
         complete => buffer' = <<>> /\ ~answer.close /\ q > BodySize(answer.framing)
  PROVE  SocketInv'
<1>1. at' = "gone" /\ op' = "none" /\ (~complete => socket' # "pooled") /\ (complete => socket' # "held")
  BY DEF Finish, Settle, SocketInv
<1>2. PICK S : S = Script(answer)
  OBVIOUS
<1>3. AnswerShape(S, answer.framing, answer.close) /\ S \in Seq(Parts) /\ Len(S) \in Nat
  BY <1>2, TheAnswer
<1>4. /\ p \in 0..q /\ q \in 0..m /\ m \in 0..n /\ n \in 0..Len(S)
      /\ wire = SubSeq(S, q + 1, m) \/ (wire = <<>> /\ peer # "up")
      /\ left = SubSeq(S, n + 1, Len(S))
  BY <1>2 DEF Streaming
<1>5. q \in Nat /\ m \in Nat /\ n \in Nat /\ q <= m /\ m <= n /\ n <= Len(S)
  BY <1>3, <1>4
<1>6. ASSUME complete PROVE \A x \in ToSet(wire \o left) : x = "surplus"
  <2>0. BodySize(answer.framing) \in Nat
    BY SpansAssumption DEF BodySize
  <2>1. \A i \in (q + 1)..Len(S) : S[i] = "surplus"
    <3>1. \A i \in (2 + BodySize(answer.framing))..Len(S) : S[i] = "surplus"
      BY <1>3, <1>6 DEF AnswerShape
    <3>2. \A i \in (q + 1)..Len(S) : i \in (2 + BodySize(answer.framing))..Len(S)
      BY <1>3, <1>5, <1>6, <2>0
    <3> QED
      BY <3>1, <3>2
  <2>2. wire \in Seq(Parts) /\ Len(wire) \in Nat /\ \A k \in 1..Len(wire) : wire[k] = "surplus"
    <3>1. CASE wire = <<>>
      BY <3>1
    <3>2. CASE wire = SubSeq(S, q + 1, m)
      <4>1. q \in 0..Len(S) /\ m \in q..Len(S)
        BY <1>5
      <4>2. /\ wire \in Seq(Parts) /\ Len(wire) = m - q
            /\ \A k \in 1..(m - q) : wire[k] = S[q + k]
        BY <1>3, <3>2, <4>1, SegmentElements
      <4>3. \A k \in 1..(m - q) : q + k \in (q + 1)..Len(S)
        BY <1>5
      <4>4. m - q \in Nat
        BY <1>5
      <4> QED
        BY <2>1, <4>2, <4>3, <4>4
    <3> QED
      BY <1>4, <3>1, <3>2
  <2>3. left \in Seq(Parts) /\ Len(left) \in Nat /\ \A k \in 1..Len(left) : left[k] = "surplus"
    <3>1. n \in 0..Len(S) /\ Len(S) \in n..Len(S)
      BY <1>3, <1>5
    <3>2. /\ left \in Seq(Parts) /\ Len(left) = Len(S) - n
          /\ \A k \in 1..(Len(S) - n) : left[k] = S[n + k]
      BY <1>3, <1>4, <3>1, SegmentElements
    <3>3. \A k \in 1..(Len(S) - n) : n + k \in (q + 1)..Len(S)
      BY <1>3, <1>5
    <3>4. Len(S) - n \in Nat
      BY <1>3, <1>5
    <3> QED
      BY <2>1, <3>2, <3>3, <3>4
  <2>4. ToSet(wire \o left) = ToSet(wire) \cup ToSet(left)
    BY <2>2, <2>3, ConcatElements
  <2>5. DOMAIN wire = 1..Len(wire) /\ DOMAIN left = 1..Len(left)
    BY <2>2, <2>3, LenProperties
  <2> QED
    BY <2>2, <2>3, <2>4, <2>5 DEF ToSet
<1>7. PooledInStep'
  BY <1>1, <1>6 DEF PooledInStep
<1> QED
  BY <1>1, <1>7 DEF SocketInv, Reads

\* The chain goes on, at a place that it has read up to.
LEMMA ReadsOn ==
  ASSUME NoInterim, SocketInv, at # "gone", UNCHANGED <<answer, wire, left, peer, response_complete, socket>>,
         NEW place \in Early \cup Reads, at' = place, op' # "ok", NEW q \in Nat, NEW m \in Nat, NEW n \in Nat,
         NEW p \in Nat, Streaming(p, q, m, n)', Consumed(p)',
         at' \in {"body", "size", "chunk", "trailers"} => framing' = answer.framing /\ peer_will_close' = answer.close,
         at' \in {"size", "chunk", "trailers"} => framing' = "chunked"
  PROVE  SocketInv'
<1>1. at' # "gone" /\ ~response_complete' /\ socket' # "pooled"
  BY DEF SocketInv, Early, Reads
<1>2. InStep'
  BY DEF InStep
<1>3. PooledInStep'
  BY <1>1 DEF PooledInStep
<1> QED
  BY <1>1, <1>2, <1>3 DEF SocketInv


\* The stream as it was.
LEMMA SameStream ==
  ASSUME InStep, UNCHANGED <<answer, at, framing, received, buffer, wire, left, peer>>
  PROVE  InStep'
<1>1. PICK p \in Nat, q \in Nat, m \in Nat, n \in Nat : Streaming(p, q, m, n) /\ Consumed(p)
  BY DEF InStep
<1>2. PICK S : S = Script(answer)
  OBVIOUS
<1>3. S = Script(answer')
  BY <1>2
<1>4. Streaming(p, q, m, n)'
  <2>1. /\ p \in 0..q /\ q \in 0..m /\ m \in 0..n /\ n \in 0..Len(S)
        /\ buffer = SubSeq(S, p + 1, q)
        /\ wire = SubSeq(S, q + 1, m) \/ (wire = <<>> /\ peer # "up")
        /\ left = SubSeq(S, n + 1, Len(S)) /\ (peer = "up" => n = m)
    BY <1>1, <1>2 DEF Streaming
  <2> QED
    BY <1>3, <2>1 DEF Streaming
<1>5. Consumed(p)'
  BY <1>1 DEF Consumed
<1> QED
  BY <1>1, <1>4, <1>5 DEF InStep

\* What others do while the chain and the stream stay where they are.
LEMMA StreamAside ==
  ASSUME SocketInv, UNCHANGED <<answer, at, framing, received, buffer, wire, left, peer,
                                response_complete, peer_will_close, socket>>,
         op' = op \/ (op' # "ok" /\ op # "none")
  PROVE  SocketInv'
<1>1. InStep => InStep'
  BY SameStream
<1>2. PooledInStep'
  BY DEF SocketInv, PooledInStep
<1> QED
  BY <1>1, <1>2 DEF SocketInv

\* disconnect() and the timer, up to its report, and the start of an operation.
LEMMA BesidesKeep ==
  ASSUME SocketInv, Disconnect \/ Cancel \/ Expire \/ TimerTest \/ TimerDisconnect \/ TimerReport \/ Start
  PROVE  SocketInv'
<1>1. UNCHANGED <<answer, at, framing, received, buffer, wire, left, peer,
                  response_complete, peer_will_close, socket>>
  BY DEF Disconnect, Cancel, Expire, TimerTest, TimerDisconnect, TimerReport, Start, state, server
<1>2. op' = op \/ (op' # "ok" /\ op # "none")
  BY DEF Disconnect, Cancel, Abort, Expire, TimerTest, TimerDisconnect, TimerReport, Start
<1> QED
  BY <1>1, <1>2, StreamAside

\* The timer ends the stream: the socket is closed, unless the chain has settled it.
LEMMA TimerEndSettles ==
  ASSUME SocketInv, TimerEnd
  PROVE  SocketInv'
<1>1. /\ UNCHANGED <<answer, at, framing, received, buffer, wire, left, peer, response_complete, peer_will_close>>
      /\ op' = op \/ (op' # "ok" /\ op # "none")
  BY DEF TimerEnd, server
<1>2. socket' = socket \/ (socket = "held" /\ socket' = "closed")
  BY DEF TimerEnd, Settle, SocketInv
<1>3. InStep => InStep'
  BY <1>1, SameStream
<1>4. PooledInStep'
  BY <1>1, <1>2 DEF SocketInv, PooledInStep
<1> QED
  BY <1>1, <1>2, <1>3, <1>4 DEF SocketInv

\* A read gets some of what has arrived, into an empty buffer.
LEMMA TakeKeeps ==
  ASSUME NoInterim, SocketInv, at # "gone",
         UNCHANGED <<answer, at, framing, received, left, peer, response_complete, peer_will_close, socket>>,
         Take
  PROVE  SocketInv'
<1>0. PICK S, p, q, m, n : Flow(S, p, q, m, n)
  BY StreamPick
<1>1. /\ S = Script(answer) /\ AnswerShape(S, answer.framing, answer.close)
      /\ S \in Seq(Parts) /\ Len(S) \in Nat /\ Consumed(p)
      /\ p \in Nat /\ q \in Nat /\ m \in Nat /\ n \in Nat
      /\ p <= q /\ q <= m /\ m <= n /\ n <= Len(S)
      /\ p \in 0..Len(S) /\ q \in p..Len(S) /\ q \in 0..Len(S) /\ m \in q..Len(S)
      /\ n \in 0..Len(S) /\ Len(S) \in n..Len(S)
      /\ buffer = SubSeq(S, p + 1, q)
      /\ wire = SubSeq(S, q + 1, m) \/ (wire = <<>> /\ peer # "up")
      /\ left = SubSeq(S, n + 1, Len(S)) /\ (peer = "up" => n = m)
  BY <1>0 DEF Flow
<1>2. Script(answer)' = S /\ Consumed(p)'
  BY <1>1 DEF Consumed
<1>3. PooledInStep'
  BY DEF SocketInv, PooledInStep
<1>4. CASE UNCHANGED <<buffer, wire>> /\ (op' = "ok" => buffer # <<>>)
  <2>1. InStep'
    BY <1>4, SameStream DEF SocketInv
  <2> QED
    BY <1>3, <1>4, <2>1 DEF SocketInv
<1>5. ASSUME buffer = <<>>, NEW k \in 1..Len(wire),
             buffer' = SubSeq(wire, 1, k), wire' = SubSeq(wire, k + 1, Len(wire))
      PROVE  SocketInv'
  <2>1. wire # <<>> /\ k \in Nat /\ k >= 1
    BY <1>5
  <2>2. wire = SubSeq(S, q + 1, m)
    BY <1>1, <2>1
  <2>3. p = q
    <3>1. Len(buffer) = q - p
      BY <1>1, SegmentElements
    <3>2. Len(buffer) = 0
      BY <1>5
    <3> QED
      BY <1>1, <3>1, <3>2
  <2>4. k \in 0..Len(wire)
    BY <1>5
  <2>5. /\ q + k \in q..m
        /\ SubSeq(wire, 1, k) = SubSeq(S, q + 1, q + k)
        /\ SubSeq(wire, k + 1, Len(wire)) = SubSeq(S, q + k + 1, m)
    BY <1>1, <2>2, <2>4, SegmentCut
  <2>6. PICK o \in Nat : o = q + k
    BY <1>1, <2>1
  <2>7. Streaming(p, o, m, n)'
    <3>1. p \in 0..o /\ o \in 0..m /\ m \in 0..n /\ n \in 0..Len(S)
      BY <1>1, <2>1, <2>3, <2>5, <2>6
    <3>2. buffer' = SubSeq(S, p + 1, o) /\ wire' = SubSeq(S, o + 1, m)
      BY <1>5, <2>3, <2>5, <2>6
    <3> QED
      BY <1>1, <1>2, <3>1, <3>2 DEF Streaming
  <2>8. InStep'
    BY <1>1, <1>2, <2>6, <2>7 DEF InStep
  <2>9. wire' \in Seq(Parts)
    BY <1>5, <2>4 DEF SocketInv
  <2>10. buffer' # <<>>
    <3>1. Len(buffer') = o - p
      <4>1. p \in 0..Len(S) /\ o \in p..Len(S) /\ buffer' = SubSeq(S, p + 1, o)
        BY <1>1, <1>5, <2>3, <2>5, <2>6
      <4> QED
        BY <1>1, <4>1, Segment
    <3>2. o - p # 0
      BY <1>1, <2>1, <2>3, <2>6
    <3> QED
      BY <3>1, <3>2
  <2> QED
    BY <1>3, <2>8, <2>9, <2>10 DEF SocketInv
<1> QED
  BY <1>4, <1>5 DEF Take

\* An operation completes.
LEMMA PerformKeeps ==
  ASSUME NoInterim, SocketInv, Perform
  PROVE  SocketInv'
<1>1. /\ UNCHANGED <<answer, at, framing, received, left, peer, response_complete, peer_will_close, socket>>
      /\ op = "pending"
  BY DEF Perform, state
<1>2. CASE at \in Reads /\ Take
  <2>1. at # "gone"
    BY <1>2 DEF Reads
  <2> QED
    BY <1>1, <1>2, <2>1, TakeKeeps
<1>3. CASE at \notin Reads /\ UNCHANGED <<buffer, wire>>
  <2>1. InStep => InStep'
    BY <1>1, <1>3, SameStream
  <2>2. PooledInStep'
    BY <1>1, <1>3 DEF SocketInv, PooledInStep
  <2> QED
    BY <1>1, <1>3, <2>1, <2>2 DEF SocketInv
<1> QED
  BY <1>2, <1>3 DEF Perform, Reads


\* The chain consumes what it had read, up to the r-th part.
LEMMA Consumes ==
  ASSUME NEW S, NEW p, NEW q, NEW m, NEW n, Flow(S, p, q, m, n),
         NEW r \in p..q, buffer' = SubSeq(S, r + 1, q), UNCHANGED <<answer, wire, left, peer>>
  PROVE  r \in Nat /\ Streaming(r, q, m, n)'
<1>1. /\ S = Script(answer) /\ Len(S) \in Nat
      /\ p \in Nat /\ q \in Nat /\ m \in Nat /\ n \in Nat
      /\ p <= q /\ q <= m /\ m <= n /\ n <= Len(S) /\ n \in 0..Len(S)
      /\ wire = SubSeq(S, q + 1, m) \/ (wire = <<>> /\ peer # "up")
      /\ left = SubSeq(S, n + 1, Len(S)) /\ (peer = "up" => n = m)
  BY DEF Flow
<1>2. S = Script(answer') /\ r \in Nat
  BY <1>1
<1>3. r \in 0..q /\ q \in 0..m /\ m \in 0..n
  BY <1>1
<1> QED
  BY <1>1, <1>2, <1>3 DEF Streaming

\* The operations before the head leave the answer alone.
LEMMA EarlyInStep ==
  ASSUME NoInterim, SocketInv, HandleEarly
  PROVE  SocketInv'
<1>1. /\ at \in Early /\ at # "gone"
      /\ UNCHANGED <<should_stop, response_complete, peer_will_close, framing, received, buffer, answer, wire, left, peer>>
  BY DEF HandleEarly, Early, server
<1>2. CASE Finish(FALSE, <<"error">>)
  BY <1>1, <1>2, GivesUp
<1>3. ASSUME NEW place \in {"connect", "send", "head"}, GoOn(place, "start")
      PROVE  SocketInv'
  <2>2. at' = place /\ op' = "start" /\ socket' = socket /\ place \in Early \cup Reads
    BY <1>3 DEF GoOn, Early, Reads
  <2>3. PICK S, p, q, m, n : Flow(S, p, q, m, n)
    BY <1>1, StreamPick
  <2>4. p \in Nat /\ q \in Nat /\ m \in Nat /\ n \in Nat /\ p <= q /\ Consumed(p) /\ buffer = SubSeq(S, p + 1, q)
    BY <2>3 DEF Flow
  <2>5. p \in p..q
    BY <2>4
  <2>6. Streaming(p, q, m, n)'
    BY <1>1, <2>3, <2>4, <2>5, Consumes
  <2>7. Consumed(p)'
    BY <1>1, <2>2, <2>4 DEF Consumed, Early
  <2>8. op' # "ok" /\ at' \notin {"body", "size", "chunk", "trailers"}
    BY <2>2
  <2> QED
    BY <1>1, <2>2, <2>4, <2>6, <2>7, <2>8, ReadsOn
<1>4. Finish(FALSE, <<"error">>) \/ \E place \in {"connect", "send", "head"} : GoOn(place, "start")
  BY DEF HandleEarly, Early
<1> QED
  BY <1>2, <1>3, <1>4

\* The head has been read: it is the first part of the answer.
LEMMA HeadInStep ==
  ASSUME NoInterim, SocketInv, HandleHead
  PROVE  SocketInv'
<1>1. at = "head" /\ at # "gone" /\ UNCHANGED <<response_complete, received, answer, wire, left, peer>>
  BY DEF HandleHead, server
<1>2. ASSUME NEW seen, Finish(FALSE, seen) PROVE SocketInv'
  BY <1>1, <1>2, GivesUp
<1>3. CASE /\ op = "ok" /\ buffer' = Tail(buffer)
           /\ framing' = (IF Head(buffer) = "head" THEN answer.framing ELSE "none")
           /\ peer_will_close' = (Head(buffer) = "head" /\ answer.close)
           /\ at' = (IF framing' = "chunked" THEN "size" ELSE "body")
           /\ op' = (IF framing' = "chunked" THEN "start" ELSE "enter")
           /\ UNCHANGED socket
  <2>1. PICK S, p, q, m, n : Flow(S, p, q, m, n)
    BY <1>1, StreamPick
  <2>2. /\ p \in Nat /\ q \in Nat /\ m \in Nat /\ n \in Nat /\ p <= q /\ Consumed(p)
        /\ buffer = SubSeq(S, p + 1, q) /\ S \in Seq(Parts) /\ S[1] = "head"
        /\ p \in 0..Len(S) /\ q \in p..Len(S)
    BY <2>1 DEF Flow, AnswerShape
  <2>3. p = 0 /\ received = 0
    BY <1>1, <2>2 DEF Consumed
  <2>4. buffer # <<>>
    BY <1>1, <1>3 DEF SocketInv, Reads
  <2>5. p < q /\ Head(buffer) = S[p + 1] /\ Tail(buffer) = SubSeq(S, p + 2, q)
    BY <2>2, <2>4, Segment
  <2>6. Head(buffer) = "head" /\ buffer' = SubSeq(S, 1 + 1, q) /\ 1 \in p..q
    <3>1. p + 1 = 1 /\ p + 2 = 1 + 1
      BY <2>3
    <3> QED
      BY <1>3, <2>2, <2>3, <2>5, <3>1
  <2>7. Streaming(1, q, m, n)'
    BY <1>1, <2>1, <2>6, Consumes
  <2>8. framing' = answer.framing /\ peer_will_close' = answer.close
    <3>1. answer.close \in BOOLEAN
      BY DEF SocketInv, Answers
    <3> QED
      BY <1>3, <2>6, <3>1
  <2>9. at' \in {"size", "body"} /\ (at' = "size" <=> framing' = "chunked") /\ op' # "ok"
    BY <1>3
  <2>10. Consumed(1)'
    BY <1>1, <2>3, <2>9, SpansAssumption DEF Consumed, Early
  <2>11. at' \in Early \cup Reads /\ 1 \in Nat
    BY <2>9 DEF Reads
  <2> QED
    BY <1>1, <1>3, <2>2, <2>7, <2>8, <2>9, <2>10, <2>11, ReadsOn
<1>4. (\E seen : Finish(FALSE, seen)) \/
      (/\ op = "ok" /\ buffer' = Tail(buffer)
       /\ framing' = (IF Head(buffer) = "head" THEN answer.framing ELSE "none")
       /\ peer_will_close' = (Head(buffer) = "head" /\ answer.close)
       /\ at' = (IF framing' = "chunked" THEN "size" ELSE "body")
       /\ op' = (IF framing' = "chunked" THEN "start" ELSE "enter")
       /\ UNCHANGED socket)
  BY DEF HandleHead
<1> QED
  BY <1>2, <1>3, <1>4

\* The pieces of the body that are in the buffer.
Pieces == IF framing = "none" THEN 0 ELSE Cardinality({i \in DOMAIN buffer : buffer[i] = "data"})

\* How many they are: no more than it holds, and than are due.
LEMMA SpanBounds ==
  ASSUME NoInterim, SocketInv, at = "body", NEW S, NEW p, NEW q, NEW m, NEW n, Flow(S, p, q, m, n),
         NEW span, span = Pieces
  PROVE  /\ span \in Nat /\ received \in Nat /\ p = 1 + received
         /\ span \in 0..Len(buffer) /\ p + span \in p..q /\ p + span <= 1 + Spans
<1>1. /\ S \in Seq(Parts) /\ AnswerShape(S, answer.framing, answer.close) /\ Consumed(p) /\ Len(S) \in Nat
      /\ p \in Nat /\ q \in Nat /\ p <= q /\ q <= Len(S) /\ p \in 0..Len(S) /\ q \in p..Len(S)
      /\ buffer = SubSeq(S, p + 1, q)
  BY DEF Flow
<1>2. p = 1 + received /\ p <= 1 + Spans /\ framing = answer.framing /\ framing # "chunked"
  BY <1>1 DEF Consumed, SocketInv
<1>3. framing \in {"none", "length", "eof"} /\ Spans \in Nat
  BY <1>2, FramingsAssumption, SpansAssumption DEF SocketInv, Answers
<1>4. Len(buffer) = q - p /\ DOMAIN buffer = 1..(q - p) /\ \A k \in 1..(q - p) : buffer[k] = S[p + k]
  BY <1>1, SegmentElements
<1>5. received \in Nat
  BY <1>1 DEF Consumed
<1>6. CASE framing = "none"
  BY <1>1, <1>2, <1>4, <1>5, <1>6 DEF Pieces
<1>7. CASE framing # "none"
  <2>1. PICK D : D = {i \in DOMAIN buffer : buffer[i] = "data"}
    OBVIOUS
  <2>2. span = Cardinality(D)
    BY <1>7, <2>1 DEF Pieces
  <2>3. D \subseteq 1..(q - p)
    BY <1>4, <2>1
  <2>4. D \subseteq 1..(1 + Spans - p)
    <3> SUFFICES ASSUME NEW i \in D PROVE i \in 1..(1 + Spans - p)
      OBVIOUS
    <3>1. i \in 1..(q - p) /\ S[p + i] = "data"
      BY <1>4, <2>1, <2>3
    <3>2. BodySize(answer.framing) = Spans
      BY <1>2, <1>3, <1>7 DEF BodySize
    <3>3. p + i \notin (2 + Spans)..Len(S)
      BY <1>1, <3>1, <3>2 DEF AnswerShape
    <3> QED
      BY <1>1, <1>3, <3>1, <3>3
  <2>5. q - p \in Nat /\ 1 + Spans - p \in Nat
    BY <1>1, <1>2, <1>3
  <2>6. IsFiniteSet(1..(q - p)) /\ Cardinality(1..(q - p)) = q - p
    BY <2>5, FS_Interval
  <2>7. IsFiniteSet(1..(1 + Spans - p)) /\ Cardinality(1..(1 + Spans - p)) = 1 + Spans - p
    BY <2>5, FS_Interval
  <2>8. IsFiniteSet(D) /\ Cardinality(D) <= q - p
    BY <2>3, <2>6, FS_Subset
  <2>9. Cardinality(D) <= 1 + Spans - p
    BY <2>4, <2>7, FS_Subset
  <2>10. Cardinality(D) \in Nat
    BY <2>8, FS_CardinalityType
  <2>11. span \in Nat /\ span <= q - p /\ span <= 1 + Spans - p
    BY <2>2, <2>8, <2>9, <2>10
  <2>12. p + span \in p..q /\ p + span <= 1 + Spans /\ span \in 0..(q - p)
    <3>1. p \in Nat /\ q \in Nat /\ p <= q /\ Spans \in Nat
      BY <1>1, <1>3
    <3> QED
      BY <3>1, <2>11
  <2> QED
    BY <1>2, <1>4, <1>5, <2>11, <2>12
<1> QED
  BY <1>6, <1>7

\* The three ends of a look into the buffer.
LEMMA EnterFacts ==
  ASSUME Enter
  PROVE  \E span, rest, seen :
            /\ span = Pieces
            /\ rest = SubSeq(buffer, span + 1, Len(buffer))
            /\ received' = received + span /\ buffer' = rest
            /\ \/ Finish(FALSE, seen) /\ UNCHANGED response_complete
               \/ /\ StreamBodyComplete(received') /\ response_complete' = Reusable(rest)
                  /\ Finish(response_complete', seen)
               \/ GoOn("body", "start") /\ UNCHANGED response_complete
BY DEF Enter, Pieces

\* The stream up to the end of the body, of a body that has a length or nothing at all.
LEMMA BodyInStep ==
  ASSUME NoInterim, SocketInv, HandleBody
  PROVE  SocketInv'
<1>1. at = "body" /\ at # "gone" /\ UNCHANGED <<peer_will_close, framing, answer, wire, left, peer>>
  BY DEF HandleBody, server
<1>2. ASSUME NEW seen, Finish(FALSE, seen), UNCHANGED response_complete
      PROVE  SocketInv'
  BY <1>1, <1>2, GivesUp
<1>3. CASE Enter
  <2>1. PICK span, rest, seen :
          /\ span = Pieces
          /\ rest = SubSeq(buffer, span + 1, Len(buffer))
          /\ received' = received + span /\ buffer' = rest
          /\ \/ Finish(FALSE, seen) /\ UNCHANGED response_complete
             \/ /\ StreamBodyComplete(received') /\ response_complete' = Reusable(rest)
                /\ Finish(response_complete', seen)
             \/ GoOn("body", "start") /\ UNCHANGED response_complete
    BY <1>3, EnterFacts
  <2>2. PICK S, p, q, m, n : Flow(S, p, q, m, n)
    BY <1>1, StreamPick
  <2>3. /\ span \in Nat /\ received \in Nat /\ p = 1 + received
        /\ span \in 0..Len(buffer) /\ p + span \in p..q /\ p + span <= 1 + Spans
    BY <1>1, <2>1, <2>2, SpanBounds
  <2>4. /\ S \in Seq(Parts) /\ p \in 0..Len(S) /\ q \in p..Len(S) /\ buffer = SubSeq(S, p + 1, q)
        /\ p \in Nat /\ q \in Nat /\ m \in Nat /\ n \in Nat /\ p <= q
        /\ Consumed(p)
    BY <2>2 DEF Flow
  <2>5. PICK r \in Nat : r = p + span
    BY <2>3, <2>4
  <2>6. buffer' = SubSeq(S, r + 1, q)
    <3>1. SubSeq(buffer, span + 1, Len(buffer)) = SubSeq(S, p + span + 1, q)
      BY <2>3, <2>4, SegmentCut
    <3> QED
      BY <2>1, <2>5, <3>1
  <2>7. CASE GoOn("body", "start") /\ UNCHANGED response_complete
    <3>1. Streaming(r, q, m, n)'
      BY <1>1, <2>2, <2>3, <2>5, <2>6, Consumes
    <3>2. at' = "body" /\ op' = "start" /\ UNCHANGED socket
      BY <2>7 DEF GoOn
    <3>3. Consumed(r)'
      <4>1. received' \in Nat /\ r = 1 + received' /\ r <= 1 + Spans
        BY <2>1, <2>3, <2>5
      <4>2. framing' # "chunked"
        BY <1>1, <2>4 DEF Consumed
      <4> QED
        BY <3>2, <4>1, <4>2 DEF Consumed, Early
    <3>4. at' \in Early \cup Reads /\ op' # "ok" /\ at' \notin {"size", "chunk", "trailers"}
      BY <3>2 DEF Reads
    <3>5. framing' = answer.framing /\ peer_will_close' = answer.close
      BY <1>1 DEF SocketInv
    <3> QED
      BY <1>1, <2>4, <2>7, <3>1, <3>2, <3>3, <3>4, <3>5, ReadsOn
  <2>8. CASE /\ StreamBodyComplete(received') /\ response_complete' = Reusable(rest)
             /\ Finish(response_complete', seen)
    <3>1. PICK complete \in BOOLEAN : complete = response_complete'
      BY <2>8 DEF Reusable
    <3>2. Streaming(p, q, m, n)
      BY <2>2 DEF Flow, Streaming
    <3>3. ASSUME complete PROVE buffer' = <<>> /\ ~answer.close /\ q > BodySize(answer.framing)
      <4>1. buffer' = <<>> /\ ~answer.close
        BY <1>1, <2>1, <2>8, <3>1, <3>3 DEF Reusable, SocketInv
      <4>2. framing = "none" \/ (framing = "length" /\ r = 1 + Spans)
        <5>1. framing = "none" \/ (framing = "length" /\ received' = Spans)
          BY <2>8 DEF StreamBodyComplete
        <5> QED
          BY <2>1, <2>3, <2>5, <5>1
      <4>3. framing = answer.framing /\ q >= 1 /\ q >= r
        <5>1. framing = answer.framing
          BY <1>1 DEF SocketInv
        <5>2. q >= r /\ r >= 1
          BY <2>3, <2>4, <2>5
        <5> QED
          BY <2>4, <5>1, <5>2
      <4>4. CASE framing = "none"
        BY <4>1, <4>3, <4>4, <2>4 DEF BodySize
      <4>5. CASE framing = "length" /\ r = 1 + Spans
        <5>1. BodySize(answer.framing) = Spans /\ Spans \in Nat
          BY <4>3, <4>5, SpansAssumption DEF BodySize
        <5>2. q > Spans
          BY <2>4, <4>3, <4>5, <5>1
        <5> QED
          BY <4>1, <5>1, <5>2
      <4> QED
        BY <4>2, <4>4, <4>5
    <3>4. Finish(complete, seen) /\ response_complete' = complete
      BY <2>8, <3>1
    <3> QED
      BY <1>1, <2>4, <3>2, <3>3, <3>4, EndsWhole
  <2> QED
    BY <1>2, <2>1, <2>7, <2>8
<1>4. Enter \/ \E seen : Finish(FALSE, seen) /\ UNCHANGED response_complete
  BY DEF HandleBody
<1> QED
  BY <1>2, <1>3, <1>4

\* A part of a chunked body is consumed, and the chain goes on or gives up.
LEMMA ChunkedGoesOn ==
  ASSUME NoInterim, SocketInv, at \in {"size", "chunk"}, NEW k \in 0..Len(buffer),
         buffer' = SubSeq(buffer, k + 1, Len(buffer)),
         UNCHANGED <<peer_will_close, framing, answer, wire, left, peer, response_complete, socket>>,
         at' \in {"size", "chunk", "trailers"}, op' = "start",
         at' = "trailers" => k = 1 /\ buffer # <<>> /\ Head(buffer) = "last"
  PROVE  SocketInv'
<1>1. at # "gone" /\ framing = "chunked" /\ framing = answer.framing /\ peer_will_close = answer.close
  BY DEF SocketInv
<1>2. PICK S, p, q, m, n : Flow(S, p, q, m, n)
  BY <1>1, StreamPick
<1>3. /\ S \in Seq(Parts) /\ p \in 0..Len(S) /\ q \in p..Len(S) /\ buffer = SubSeq(S, p + 1, q)
      /\ p \in Nat /\ q \in Nat /\ m \in Nat /\ n \in Nat /\ p <= q /\ Len(S) \in Nat /\ q <= Len(S)
      /\ Consumed(p) /\ AnswerShape(S, answer.framing, answer.close)
  BY <1>2 DEF Flow
<1>4. p >= 1
  BY <1>3 DEF Consumed
<1>5. PICK r \in Nat : r = p + k
  BY <1>3
<1>6. r \in p..q /\ buffer' = SubSeq(S, r + 1, q)
  <2>1. p + k \in p..q /\ SubSeq(buffer, k + 1, Len(buffer)) = SubSeq(S, p + k + 1, q)
    BY <1>3, SegmentCut
  <2> QED
    BY <1>5, <2>1
<1>7. Streaming(r, q, m, n)'
  BY <1>2, <1>6, Consumes
<1>8. r >= 1
  BY <1>3, <1>4, <1>6
<1>9. ASSUME at' = "trailers" PROVE r = 2 * Spans + 2
  <2>1. k = 1 /\ buffer # <<>> /\ Head(buffer) = "last"
    BY <1>9
  <2>2. p < q /\ Head(buffer) = S[p + 1]
    BY <1>3, <2>1, Segment
  <2>3. S[p + 1] = "last" /\ p + 1 \in 2..Len(S)
    BY <1>3, <1>4, <2>1, <2>2
  <2>4. p + 1 = 2 * Spans + 2
    BY <1>1, <1>3, <2>3 DEF AnswerShape
  <2> QED
    BY <1>5, <2>1, <2>4
<1>10. Consumed(r)'
  BY <1>8, <1>9 DEF Consumed, Early
<1>11. at' \in Early \cup Reads /\ op' # "ok"
  BY DEF Reads
<1> QED
  BY <1>1, <1>3, <1>5, <1>7, <1>10, <1>11, ReadsOn

\* The rest after the first part.
LEMMA AfterOne ==
  ASSUME NoInterim, SocketInv, at # "gone", op = "ok", at \in Reads
  PROVE  /\ buffer # <<>> /\ Len(buffer) \in Nat /\ 1 \in 0..Len(buffer)
         /\ Tail(buffer) = SubSeq(buffer, 1 + 1, Len(buffer))
<1>1. PICK S, p, q, m, n : Flow(S, p, q, m, n)
  BY StreamPick
<1>2. S \in Seq(Parts) /\ p \in 0..Len(S) /\ q \in p..Len(S) /\ buffer = SubSeq(S, p + 1, q)
  BY <1>1 DEF Flow
<1>3. buffer \in Seq(Parts)
  BY <1>2, SegmentElements
<1>4. buffer # <<>>
  BY DEF SocketInv
<1>5. Len(buffer) \in Nat /\ Len(buffer) # 0
  BY <1>3, <1>4, EmptySeq, LenProperties
<1>6. 1 \in 0..Len(buffer) /\ 0 \in 0..Len(buffer)
  BY <1>5
<1>7. Tail(buffer) = SubSeq(buffer, 2, Len(buffer))
  BY <1>3, <1>4, TailIsSubSeq
<1> QED
  BY <1>4, <1>5, <1>6, <1>7

\* A chunk goes to the caller, and the next size is read, or the caller refuses.
LEMMA ChunkInStep ==
  ASSUME NoInterim, SocketInv, at \in {"size", "chunk"}, NEW k \in 0..Len(buffer),
         DeliverChunk(SubSeq(buffer, k + 1, Len(buffer))),
         UNCHANGED <<peer_will_close, framing, answer, wire, left, peer, response_complete>>
  PROVE  SocketInv'
<1>1. /\ buffer' = SubSeq(buffer, k + 1, Len(buffer))
      /\ Finish(FALSE, <<"data">>) \/ GoOn("size", "start")
  BY DEF DeliverChunk
<1>2. CASE Finish(FALSE, <<"data">>)
  BY <1>2, GivesUp
<1>3. CASE GoOn("size", "start")
  <2>1. at' = "size" /\ op' = "start" /\ UNCHANGED socket
    BY <1>3 DEF GoOn
  <2> QED
    BY <1>1, <2>1, ChunkedGoesOn
<1> QED
  BY <1>1, <1>2, <1>3

\* The size of a chunk has been read, with its data or without, or the last one.
LEMMA SizeInStep ==
  ASSUME NoInterim, SocketInv, HandleSize
  PROVE  SocketInv'
<1>1. /\ at = "size" /\ at # "gone" /\ at \in Reads /\ at \in {"size", "chunk"}
      /\ UNCHANGED <<peer_will_close, framing, answer, wire, left, peer, response_complete>>
  BY DEF HandleSize, server, Reads
<1>2. ASSUME NEW seen, Finish(FALSE, seen)
      PROVE  SocketInv'
  BY <1>1, <1>2, GivesUp
<1>3. CASE op = "ok" /\ Len(buffer) > 1 /\ DeliverChunk(SubSeq(buffer, 3, Len(buffer)))
  <2>1. Len(buffer) \in Nat
    BY <1>1, <1>3, AfterOne
  <2>2. 2 \in 0..Len(buffer) /\ 2 + 1 = 3
    BY <1>3, <2>1
  <2> QED
    BY <1>1, <1>3, <2>2, ChunkInStep
<1>4. CASE /\ op = "ok" /\ buffer' = Tail(buffer)
           /\ GoOn("chunk", "start") \/ (Head(buffer) = "last" /\ GoOn("trailers", "start"))
  <2>1. buffer # <<>> /\ 1 \in 0..Len(buffer) /\ buffer' = SubSeq(buffer, 1 + 1, Len(buffer))
    BY <1>1, <1>4, AfterOne
  <2>2. /\ at' \in {"size", "chunk", "trailers"} /\ op' = "start" /\ UNCHANGED socket
        /\ at' = "trailers" => Head(buffer) = "last"
    BY <1>4 DEF GoOn
  <2> QED
    BY <1>1, <2>1, <2>2, ChunkedGoesOn
<1>5. \/ \E seen : Finish(FALSE, seen)
      \/ op = "ok" /\ Len(buffer) > 1 /\ DeliverChunk(SubSeq(buffer, 3, Len(buffer)))
      \/ /\ op = "ok" /\ buffer' = Tail(buffer)
         /\ GoOn("chunk", "start") \/ (Head(buffer) = "last" /\ GoOn("trailers", "start"))
  BY DEF HandleSize, EndChunked
<1> QED
  BY <1>2, <1>3, <1>4, <1>5

\* The data of a chunk has been read.
LEMMA DataInStep ==
  ASSUME NoInterim, SocketInv, HandleChunk
  PROVE  SocketInv'
<1>1. /\ at = "chunk" /\ at # "gone" /\ at \in Reads /\ at \in {"size", "chunk"}
      /\ UNCHANGED <<peer_will_close, framing, answer, wire, left, peer, response_complete>>
  BY DEF HandleChunk, server, Reads
<1>2. ASSUME NEW seen, Finish(FALSE, seen)
      PROVE  SocketInv'
  BY <1>1, <1>2, GivesUp
<1>3. CASE op = "ok" /\ DeliverChunk(Tail(buffer))
  <2>1. 1 \in 0..Len(buffer) /\ Tail(buffer) = SubSeq(buffer, 1 + 1, Len(buffer))
    BY <1>1, <1>3, AfterOne
  <2> QED
    BY <1>1, <1>3, <2>1, ChunkInStep
<1>4. (\E seen : Finish(FALSE, seen)) \/ (op = "ok" /\ DeliverChunk(Tail(buffer)))
  BY DEF HandleChunk, EndChunked
<1> QED
  BY <1>2, <1>3, <1>4

\* The line after the last chunk has been read, or could not be.
LEMMA TrailersInStep ==
  ASSUME NoInterim, SocketInv, HandleTrailers
  PROVE  SocketInv'
<1>1. /\ at = "trailers" /\ at # "gone" /\ at \in Reads
      /\ UNCHANGED <<peer_will_close, framing, answer, wire, left, peer>>
      /\ Finish(response_complete', <<>>)
      /\ response_complete' = (op = "ok" /\ ~Stopped /\ Reusable(buffer'))
  BY DEF HandleTrailers, server, Reads
<1>2. PICK S, p, q, m, n : Flow(S, p, q, m, n)
  BY <1>1, StreamPick
<1>3. /\ S \in Seq(Parts) /\ p \in 0..Len(S) /\ q \in p..Len(S) /\ buffer = SubSeq(S, p + 1, q)
      /\ p \in Nat /\ q \in Nat /\ m \in Nat /\ n \in Nat /\ Consumed(p)
  BY <1>2 DEF Flow
<1>4. Streaming(p, q, m, n)
  BY <1>2 DEF Flow, Streaming
<1>5. PICK complete \in BOOLEAN : complete = response_complete'
  BY <1>1
<1>6. ASSUME complete PROVE buffer' = <<>> /\ ~answer.close /\ q > BodySize(answer.framing)
  <2>1. op = "ok" /\ buffer' = <<>> /\ ~peer_will_close
    BY <1>1, <1>5, <1>6 DEF Reusable
  <2>2. answer.framing = "chunked" /\ ~answer.close
    BY <1>1, <2>1 DEF SocketInv
  <2>3. buffer # <<>>
    BY <1>1, <2>1 DEF SocketInv
  <2>4. p < q
    BY <1>3, <2>3, Segment
  <2>5. p = 2 * Spans + 2
    BY <1>1, <1>3 DEF Consumed
  <2>6. BodySize(answer.framing) = 2 * Spans + 2
    BY <2>2 DEF BodySize
  <2>7. q > p
    BY <1>3, <2>4
  <2> QED
    BY <2>1, <2>2, <2>5, <2>6, <2>7
<1>7. Finish(complete, <<>>) /\ response_complete' = complete
  BY <1>1, <1>5
<1> QED
  BY <1>1, <1>3, <1>4, <1>6, <1>7, EndsWhole

\* What is on its way after the server sent a part was on its way before.
LEMMA NothingNew ==
  ASSUME SocketInv, Emit
  PROVE  /\ wire' \in Seq(Parts) /\ left' \in Seq(Parts)
         /\ ToSet((wire \o left)') \subseteq ToSet(wire \o left)
<1>1. wire \in Seq(Parts) /\ left \in Seq(Parts) /\ left # <<>> /\ left' = Tail(left)
  BY DEF SocketInv, Emit
<1>2. /\ Head(left) \in Parts /\ Tail(left) \in Seq(Parts) /\ Len(Tail(left)) = Len(left) - 1
      /\ \A i \in 1..Len(Tail(left)) : Tail(left)[i] = left[i + 1]
  BY <1>1, HeadTailProperties
<1>3. Len(left) \in Nat /\ Len(left) >= 1 /\ Head(left) = left[1] /\ DOMAIN left = 1..Len(left)
  <2>1. Len(left) \in Nat /\ Len(left) # 0 /\ DOMAIN left = 1..Len(left)
    BY <1>1, EmptySeq, LenProperties
  <2>2. Head(left) = left[1]
    BY <1>1
  <2> QED
    BY <2>1, <2>2
<1>4. Head(left) \in ToSet(left) /\ ToSet(Tail(left)) \subseteq ToSet(left)
  <2>1. 1 \in DOMAIN left
    BY <1>3
  <2>2. DOMAIN Tail(left) = 1..(Len(left) - 1)
    BY <1>2, LenProperties
  <2>3. \A i \in 1..(Len(left) - 1) : i + 1 \in DOMAIN left /\ Tail(left)[i] = left[i + 1]
    BY <1>2, <1>3
  <2>4. Head(left) \in ToSet(left)
    BY <1>3, <2>1 DEF ToSet
  <2>5. ToSet(Tail(left)) \subseteq ToSet(left)
    BY <2>2, <2>3 DEF ToSet
  <2> QED
    BY <2>4, <2>5
<1>5. ToSet(wire \o left) = ToSet(wire) \cup ToSet(left)
  BY <1>1, ConcatElements
<1>6. CASE wire' = wire
  <2>1. ToSet(wire \o Tail(left)) = ToSet(wire) \cup ToSet(Tail(left))
    BY <1>1, <1>2, ConcatElements
  <2>2. (wire \o left)' = wire \o Tail(left)
    BY <1>1, <1>6
  <2> QED
    BY <1>1, <1>2, <1>4, <1>5, <1>6, <2>1, <2>2
<1>7. CASE wire' = Append(wire, Head(left))
  <2>1. PICK h : h = <<Head(left)>>
    OBVIOUS
  <2>2. h \in Seq(Parts) /\ DOMAIN h = {1} /\ h[1] = Head(left)
    BY <1>2, <2>1
  <2>3. ToSet(h) = {Head(left)}
    BY <2>2 DEF ToSet
  <2>4. Append(wire, Head(left)) = wire \o h
    BY <1>1, <1>2, <2>1, AppendIsConcat
  <2>5. wire \o h \in Seq(Parts)
    BY <1>1, <2>2, ConcatProperties
  <2>6. ToSet((wire \o h) \o Tail(left)) = ToSet(wire \o h) \cup ToSet(Tail(left))
    BY <1>2, <2>5, ConcatElements
  <2>7. ToSet(wire \o h) = ToSet(wire) \cup ToSet(h)
    BY <1>1, <2>2, ConcatElements
  <2>8. (wire \o left)' = (wire \o h) \o Tail(left)
    BY <1>1, <1>7, <2>4
  <2> QED
    BY <1>1, <1>2, <1>4, <1>5, <1>7, <2>3, <2>4, <2>5, <2>6, <2>7, <2>8
<1> QED
  BY <1>6, <1>7 DEF Emit

\* The server sends the next part of its answer, or hangs up as the answer says.
LEMMA EmitKeeps ==
  ASSUME NoInterim, SocketInv, Emit
  PROVE  SocketInv'
<1>1. /\ UNCHANGED <<answer, at, op, framing, received, buffer, response_complete, peer_will_close, socket>>
      /\ peer = "up" /\ left # <<>> /\ left' = Tail(left)
      /\ \/ peer' = "fin" /\ wire' = wire
         \/ wire' = Append(wire, Head(left)) /\ peer' = peer
  BY DEF Emit, state
<1>2. wire' \in Seq(Parts) /\ left' \in Seq(Parts) /\ ToSet((wire \o left)') \subseteq ToSet(wire \o left)
  BY NothingNew
<1>3. PooledInStep'
  BY <1>1, <1>2 DEF SocketInv, PooledInStep
<1>4. ASSUME at # "gone" PROVE InStep'
  <2>1. PICK S, p, q, m, n : Flow(S, p, q, m, n)
    BY <1>4, StreamPick
  <2>2. /\ S = Script(answer) /\ S \in Seq(Parts) /\ Len(S) \in Nat
        /\ p \in Nat /\ q \in Nat /\ m \in Nat /\ n \in Nat
        /\ p <= q /\ q <= m /\ m <= n /\ n <= Len(S) /\ q \in 0..Len(S) /\ m \in q..Len(S)
        /\ n \in 0..Len(S) /\ Len(S) \in n..Len(S)
        /\ buffer = SubSeq(S, p + 1, q) /\ Consumed(p)
        /\ wire = SubSeq(S, q + 1, m) \/ (wire = <<>> /\ peer # "up")
        /\ left = SubSeq(S, n + 1, Len(S)) /\ (peer = "up" => n = m)
    BY <2>1 DEF Flow
  <2>3. n = m /\ wire = SubSeq(S, q + 1, m) /\ S = Script(answer')
    BY <1>1, <2>2
  <2>4. n < Len(S) /\ Head(left) = S[n + 1] /\ Tail(left) = SubSeq(S, n + 2, Len(S))
    BY <1>1, <2>2, Segment
  <2>5. PICK o \in Nat : o = n + 1
    BY <2>2
  <2>6. o \in 0..Len(S) /\ left' = SubSeq(S, o + 1, Len(S)) /\ o + 1 = n + 2
    <3>1. o \in 0..Len(S) /\ o + 1 = n + 2
      BY <2>2, <2>4, <2>5
    <3> QED
      BY <1>1, <2>4, <3>1
  <2>7. p \in 0..q /\ q \in 0..m /\ q \in 0..o /\ m \in 0..o /\ o \in 0..o
    BY <2>2, <2>5
  <2>8. Consumed(p)'
    BY <1>1, <2>2 DEF Consumed
  <2>9. CASE peer' = "fin" /\ wire' = wire
    <3>1. Streaming(p, q, m, o)'
      BY <1>1, <2>2, <2>3, <2>6, <2>7, <2>9 DEF Streaming
    <3> QED
      BY <2>2, <2>5, <2>8, <3>1 DEF InStep
  <2>10. CASE wire' = Append(wire, Head(left)) /\ peer' = peer
    <3>0. m < Len(S) /\ S \in Seq(Parts) /\ q \in 0..Len(S) /\ m \in q..Len(S)
      BY <2>2, <2>3, <2>4
    <3>1. Append(wire, S[m + 1]) = SubSeq(S, q + 1, m + 1)
      BY <2>3, <3>0, Segment
    <3>2. wire' = SubSeq(S, q + 1, o)
      BY <2>3, <2>4, <2>5, <2>10, <3>1
    <3>3. Streaming(p, q, o, o)'
      BY <1>1, <2>2, <2>3, <2>6, <2>7, <3>2 DEF Streaming
    <3> QED
      BY <2>2, <2>5, <2>8, <3>3 DEF InStep
  <2> QED
    BY <1>1, <2>9, <2>10
<1> QED
  BY <1>1, <1>2, <1>3, <1>4 DEF SocketInv

\* The server hangs up, and what it sent may be lost.
LEMMA DropKeeps ==
  ASSUME NoInterim, SocketInv, Drop
  PROVE  SocketInv'
<1>1. /\ UNCHANGED <<answer, at, op, framing, received, buffer, left, response_complete, peer_will_close, socket>>
      /\ peer' # "up" /\ (wire' = wire \/ wire' = <<>>)
  BY DEF Drop, state
<1>2. wire' \in Seq(Parts) /\ wire \in Seq(Parts) /\ left \in Seq(Parts)
  <2>1. wire \in Seq(Parts) /\ left \in Seq(Parts) /\ <<>> \in Seq(Parts)
    BY DEF SocketInv
  <2> QED
    BY <1>1, <2>1
<1>3. ToSet((wire \o left)') \subseteq ToSet(wire \o left)
  <2>1. CASE wire' = wire
    BY <1>1, <2>1
  <2>2. CASE wire' = <<>>
    <3>1. (wire \o left)' = left
      BY <1>1, <1>2, <2>2
    <3>2. ToSet(wire \o left) = ToSet(wire) \cup ToSet(left)
      BY <1>2, ConcatElements
    <3> QED
      BY <3>1, <3>2
  <2> QED
    BY <1>1, <2>1, <2>2
<1>4. PooledInStep'
  BY <1>1, <1>3 DEF SocketInv, PooledInStep
<1>5. ASSUME at # "gone" PROVE InStep'
  <2>1. PICK S, p, q, m, n : Flow(S, p, q, m, n)
    BY <1>5, StreamPick
  <2>2. /\ S = Script(answer) /\ p \in Nat /\ q \in Nat /\ m \in Nat /\ n \in Nat
        /\ p <= q /\ q <= m /\ m <= n /\ n \in 0..Len(S)
        /\ buffer = SubSeq(S, p + 1, q) /\ Consumed(p)
        /\ wire = SubSeq(S, q + 1, m) \/ wire = <<>>
        /\ left = SubSeq(S, n + 1, Len(S))
    BY <2>1 DEF Flow
  <2>3. S = Script(answer') /\ p \in 0..q /\ q \in 0..m /\ m \in 0..n
    BY <1>1, <2>2
  <2>4. Streaming(p, q, m, n)'
    BY <1>1, <2>2, <2>3 DEF Streaming
  <2>5. Consumed(p)'
    BY <1>1, <2>2 DEF Consumed
  <2> QED
    BY <2>2, <2>4, <2>5 DEF InStep
<1> QED
  BY <1>1, <1>2, <1>4, <1>5 DEF SocketInv

\* Nothing has been sent, and a socket is held.
LEMMA SocketInit ==
  ASSUME NoInterim, Init
  PROVE  SocketInv
<1>1. /\ answer \in Answers /\ at \in {"resolve", "send"} /\ op = "start" /\ socket = "held"
      /\ ~response_complete /\ received = 0 /\ buffer = <<>> /\ wire = <<>> /\ peer = "up"
      /\ left = Script(answer)
  BY DEF Init
<1>2. PICK S : S = Script(answer)
  OBVIOUS
<1>3. S \in Seq(Parts) /\ Len(S) \in Nat
  <2>1. S \in Seq(Parts)
    BY <1>1, <1>2, ScriptShape DEF AnswerShape, NoInterim
  <2> QED
    BY <2>1, LenProperties
<1>4. SubSeq(S, 0 + 1, 0) = <<>> /\ SubSeq(S, 0 + 1, Len(S)) = S
  <2>1. SubSeq(S, 0 + 1, 0) = <<>>
    BY <1>3, SubSeqEmpty
  <2>2. SubSeq(S, 1, Len(S)) = S
    BY <1>3, SubSeqFull
  <2> QED
    BY <2>1, <2>2
<1>5. Streaming(0, 0, 0, 0)
  BY <1>1, <1>2, <1>3, <1>4 DEF Streaming
<1>6. Consumed(0)
  BY <1>1 DEF Consumed
<1>7. InStep
  BY <1>5, <1>6 DEF InStep
<1>8. PooledInStep
  BY <1>1 DEF PooledInStep
<1> QED
  BY <1>1, <1>2, <1>3, <1>7, <1>8 DEF SocketInv, Early, Reads

\* No step breaks the agreement of socket and parser.
LEMMA SocketStep ==
  ASSUME NoInterim, SocketInv, [Next]_vars
  PROVE  SocketInv'
<1>1. CASE UNCHANGED vars
  <2>1. UNCHANGED <<answer, at, framing, received, buffer, wire, left, peer,
                    response_complete, peer_will_close, socket, op>>
    BY <1>1 DEF vars, state, server
  <2> QED
    BY <2>1, StreamAside
<1>2. CASE Disconnect \/ Cancel \/ Timer
  BY <1>2, BesidesKeep, TimerEndSettles DEF Timer
<1>3. CASE Chain
  BY <1>3, BesidesKeep, PerformKeeps, EarlyInStep, HeadInStep, BodyInStep, SizeInStep, DataInStep,
     TrailersInStep DEF Chain
<1> QED
  BY <1>1, <1>2, <1>3, EmitKeeps, DropKeeps DEF Next

(* PooledInStep: a socket that goes back to the pool has nothing pending   *)
(* and nothing of the response left on it, whatever the framing and the    *)
(* number of pieces, wherever the timer and disconnect() come in between.  *)
(* The hypothesis is that of the run: the server sends no 1xx head, which  *)
(* HandleHead takes for a response without a body.                         *)
THEOREM PooledSocketsAreInStep ==
  ASSUME NoInterim
  PROVE  Spec => []PooledInStep
<1>1. Init => SocketInv
  BY SocketInit
<1>2. SocketInv /\ [Next]_vars => SocketInv'
  BY SocketStep
<1>3. SocketInv => PooledInStep
  BY DEF SocketInv
<1> QED
  BY <1>1, <1>2, <1>3, PTL DEF Spec
=============================================================================
