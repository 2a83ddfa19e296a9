--------------------- MODULE WebSocketConnectionProofs ---------------------
(***************************************************************************)
(* What is proved of one WebSocket connection, for any number of threads,  *)
(* of calls and of frames, with and without faults, in both modes: who may *)
(* write, who may read, what is left in the queue, how often on_close runs *)
(* and under which mutex, and how many Close frames leave.  The last part  *)
(* is what one end of a stream owes the other, and is used where two meet. *)
(***************************************************************************)
EXTENDS WebSocketConnection, SequenceTheorems, TLAPS

-----------------------------------------------------------------------------
(* The control flow of the threads.                                        *)

\* A thread at p, with the return points s, is in one of the places of R.
Holds(R, p, s) == p \in R \/ \E i \in 1..Len(s) : s[i] \in R

\* It is in one of them only once: it does not enter R from inside R.
Sole(R, p, s) ==
    /\ p \in R => \A i \in 1..Len(s) : s[i] \notin R
    /\ \A i, j \in 1..Len(s) : s[i] \in R /\ s[j] \in R => i = j

\* One more return point.
LEMMA Pushed ==
  ASSUME NEW s \in Seq(ReturnPoints), NEW r \in ReturnPoints, NEW z, z = <<r>> \o s
  PROVE  /\ z \in Seq(ReturnPoints) /\ Len(s) \in Nat /\ Len(z) = Len(s) + 1 /\ z[1] = r
         /\ \A i \in 1..Len(s) : z[i + 1] = s[i]
         /\ \A i \in 1..Len(z) : i = 1 \/ (i - 1 \in 1..Len(s) /\ z[i] = s[i - 1])
<1>0. PICK h : h = <<r>>
  OBVIOUS
<1>1. h \in Seq(ReturnPoints) /\ Len(h) = 1 /\ h[1] = r
  BY <1>0
<1>2. Len(s) \in Nat
  BY LenProperties
<1>3. /\ z \in Seq(ReturnPoints) /\ Len(z) = Len(h) + Len(s)
      /\ \A i \in 1..(Len(h) + Len(s)) : z[i] = IF i <= Len(h) THEN h[i] ELSE s[i - Len(h)]
  BY <1>0, <1>1, ConcatProperties
<1>4. /\ Len(z) = Len(s) + 1
      /\ \A i \in 1..(Len(s) + 1) : z[i] = IF i <= 1 THEN h[i] ELSE s[i - 1]
  BY <1>1, <1>2, <1>3
<1>5. z[1] = r /\ \A i \in 1..Len(s) : z[i + 1] = s[i]
  BY <1>1, <1>2, <1>4
<1>6. \A i \in 1..Len(z) : i = 1 \/ (i - 1 \in 1..Len(s) /\ z[i] = s[i - 1])
  BY <1>2, <1>4
<1> QED
  BY <1>2, <1>3, <1>4, <1>5, <1>6

\* A return point less.
LEMMA Popped ==
  ASSUME NEW s \in Seq(ReturnPoints), s # <<>>
  PROVE  /\ Tail(s) \in Seq(ReturnPoints) /\ Len(s) \in Nat /\ Len(Tail(s)) = Len(s) - 1 /\ 1 \in 1..Len(s)
         /\ Head(s) = s[1] /\ Head(s) \in ReturnPoints
         /\ \A i \in 1..Len(Tail(s)) : i + 1 \in 1..Len(s) /\ Tail(s)[i] = s[i + 1]
<1>1. /\ Head(s) \in ReturnPoints /\ Tail(s) \in Seq(ReturnPoints) /\ Len(Tail(s)) = Len(s) - 1
      /\ \A i \in 1..Len(Tail(s)) : Tail(s)[i] = s[i + 1]
  BY HeadTailProperties
<1>2. Len(s) \in Nat /\ Len(s) # 0
  BY EmptySeq, LenProperties
<1>3. Head(s) = s[1]
  OBVIOUS
<1> QED
  BY <1>1, <1>2, <1>3

\* What the three moves of a thread do to its hold on the places of R.
LEMMA SoleAfterGoto ==
  ASSUME NEW R, NEW p, NEW l, NEW s, Sole(R, p, s), l \in R => p \in R
  PROVE  Sole(R, l, s) /\ (Holds(R, l, s) => Holds(R, p, s))
BY DEF Sole, Holds

\* A call keeps a thread in R once.
LEMMA SoleAfterCall ==
  ASSUME NEW R, NEW p, NEW l, NEW s \in Seq(ReturnPoints), NEW r \in ReturnPoints, NEW z, z = <<r>> \o s,
         Sole(R, p, s), l \notin R, r \in R => p \in R
  PROVE  Sole(R, l, z) /\ (Holds(R, l, z) => Holds(R, p, s))
<1>1. /\ Len(s) \in Nat /\ Len(z) = Len(s) + 1 /\ z[1] = r
      /\ \A i \in 1..Len(s) : z[i + 1] = s[i]
      /\ \A i \in 1..Len(z) : i = 1 \/ (i - 1 \in 1..Len(s) /\ z[i] = s[i - 1])
  BY Pushed
<1>2. ASSUME NEW i \in 1..Len(z), NEW j \in 1..Len(z), z[i] \in R, z[j] \in R
      PROVE  i = j
  <2>1. CASE i = 1 /\ j = 1
    BY <2>1
  <2>2. CASE i # 1 /\ j # 1
    <3>1. i - 1 \in 1..Len(s) /\ s[i - 1] \in R /\ j - 1 \in 1..Len(s) /\ s[j - 1] \in R
      BY <1>1, <1>2, <2>2
    <3>2. i - 1 = j - 1
      BY <3>1 DEF Sole
    <3> QED
      BY <3>2
  <2>3. CASE i = 1 /\ j # 1
    BY <1>1, <1>2, <2>3 DEF Sole
  <2>4. CASE i # 1 /\ j = 1
    BY <1>1, <1>2, <2>4 DEF Sole
  <2> QED
    BY <2>1, <2>2, <2>3, <2>4
<1>3. ASSUME NEW i \in 1..Len(z), z[i] \in R PROVE Holds(R, p, s)
  BY <1>1, <1>3 DEF Holds
<1> QED
  BY <1>2, <1>3 DEF Sole, Holds

\* So does a return, and from R itself it leaves R.
LEMMA SoleAfterReturn ==
  ASSUME NEW R, "idle" \notin R, NEW p, NEW s \in Seq(ReturnPoints), Sole(R, p, s),
         NEW l, l = (IF s = <<>> THEN "idle" ELSE Head(s)), NEW z, z = (IF s = <<>> THEN s ELSE Tail(s))
  PROVE  /\ Sole(R, l, z) /\ (Holds(R, l, z) => Holds(R, p, s))
         /\ p \in R => ~Holds(R, l, z)
<1>1. CASE s = <<>>
  BY <1>1 DEF Sole, Holds
<1>2. CASE s # <<>>
  <2>1. /\ Len(s) \in Nat /\ Len(z) = Len(s) - 1 /\ 1 \in 1..Len(s) /\ l = s[1]
        /\ \A i \in 1..Len(z) : i + 1 \in 1..Len(s) /\ z[i] = s[i + 1]
    BY <1>2, Popped
  <2>2. l \in R => \A i \in 1..Len(z) : z[i] \notin R
    <3> SUFFICES ASSUME l \in R, NEW i \in 1..Len(z), z[i] \in R PROVE FALSE
      OBVIOUS
    <3>1. s[1] \in R /\ i + 1 \in 1..Len(s) /\ s[i + 1] \in R
      BY <2>1
    <3>2. 1 = i + 1
      BY <2>1, <3>1 DEF Sole
    <3> QED
      BY <3>2
  <2>3. ASSUME NEW i \in 1..Len(z), NEW j \in 1..Len(z), z[i] \in R, z[j] \in R PROVE i = j
    <3>1. i + 1 \in 1..Len(s) /\ s[i + 1] \in R /\ j + 1 \in 1..Len(s) /\ s[j + 1] \in R
      BY <2>1, <2>3
    <3>2. i + 1 = j + 1
      BY <3>1 DEF Sole
    <3> QED
      BY <3>2
  <2>4. Holds(R, l, z) => \E i \in 1..Len(s) : s[i] \in R
    BY <2>1 DEF Holds
  <2>5. p \in R => \A i \in 1..Len(s) : s[i] \notin R
    BY DEF Sole
  <2> QED
    BY <2>2, <2>3, <2>4, <2>5 DEF Sole, Holds
<1> QED
  BY <1>1, <1>2

\* The threads have a place and return points; one that is idle, or that answers the
\* upgrade request, has nothing to return to.
Control ==
    /\ pc \in [Thread -> Labels] /\ stack \in [Thread -> Seq(ReturnPoints)]
    /\ \A t \in Thread : pc[t] \in {"idle", "handshake"} => stack[t] = <<>>

\* Every thread is in R once.
SoleAll(R) == \A t \in Thread : Sole(R, pc[t], stack[t])
In(R, t) == Holds(R, pc[t], stack[t])

\* A thread moves on, without entering the places of R.
Turn(R, t) ==
    \/ pc[t] # "idle" /\ Return(t)
    \/ \E l \in Labels \ {"idle", "handshake"} : Goto(t, l) /\ (l \in R => pc[t] \in R)
    \/ \E l \in Labels \ {"idle", "handshake"}, r \in ReturnPoints :
          CallThen(t, l, r) /\ l \notin R /\ (r \in R => pc[t] \in R)

\* What a turn leaves as it was.
Turned(R, t) ==
    /\ Control' /\ pc'[t] # "handshake" /\ \A u \in Thread \ {t} : pc'[u] = pc[u] /\ stack'[u] = stack[u]
    /\ SoleAll(R) => SoleAll(R)'
    /\ \A u \in Thread : SoleAll(R) => (In(R, u)' => In(R, u))

\* A return leaves a place of R for good.
LEMMA Returned ==
  ASSUME Control, NEW R, "idle" \notin R, NEW t \in Thread, pc[t] # "idle", Return(t)
  PROVE  /\ Turned(R, t) /\ pc'[t] \in ReturnPoints \cup {"idle"}
         /\ SoleAll(R) /\ pc[t] \in R => ~In(R, t)'
<1>1. PICK p, s, l, z :
        /\ p = pc[t] /\ s = stack[t]
        /\ l = (IF s = <<>> THEN "idle" ELSE Head(s)) /\ z = (IF s = <<>> THEN s ELSE Tail(s))
  OBVIOUS
<1>2. s \in Seq(ReturnPoints)
  BY <1>1 DEF Control
<1>3. l \in ReturnPoints \cup {"idle"} /\ z \in Seq(ReturnPoints) /\ (l = "idle" => z = <<>>)
  <2>1. CASE s = <<>>
    BY <1>1, <1>2, <2>1
  <2>2. CASE s # <<>>
    <3>1. l \in ReturnPoints /\ z \in Seq(ReturnPoints)
      BY <1>1, <1>2, <2>2, Popped
    <3> QED
      BY <3>1 DEF ReturnPoints, InHandler
  <2> QED
    BY <2>1, <2>2
<1>4. pc' = [pc EXCEPT ![t] = l] /\ stack' = [stack EXCEPT ![t] = z]
  BY <1>1 DEF Return, Control
<1>5. /\ pc'[t] = l /\ stack'[t] = z /\ \A u \in Thread \ {t} : pc'[u] = pc[u] /\ stack'[u] = stack[u]
      /\ pc' \in [Thread -> Labels] /\ stack' \in [Thread -> Seq(ReturnPoints)]
  BY <1>3, <1>4 DEF Control, Labels
<1>6. l # "handshake"
  BY <1>3 DEF ReturnPoints, InHandler
<1>7. Control'
  <2>1. \A u \in Thread : pc'[u] \in {"idle", "handshake"} => stack'[u] = <<>>
    BY <1>3, <1>5, <1>6 DEF Control
  <2> QED
    BY <1>5, <2>1 DEF Control
<1>8. SoleAll(R) => Sole(R, p, s)
  BY <1>1 DEF SoleAll
<1>9. SoleAll(R) => Sole(R, l, z) /\ (Holds(R, l, z) => Holds(R, p, s)) /\ (p \in R => ~Holds(R, l, z))
  BY <1>1, <1>2, <1>8, SoleAfterReturn
<1>10. SoleAll(R) => SoleAll(R)'
  BY <1>5, <1>9 DEF SoleAll
<1>11. \A u \in Thread : SoleAll(R) => (In(R, u)' => In(R, u))
  BY <1>1, <1>5, <1>9 DEF In
<1>12. SoleAll(R) /\ pc[t] \in R => ~In(R, t)'
  BY <1>1, <1>5, <1>9 DEF In
<1> QED
  BY <1>3, <1>5, <1>6, <1>7, <1>10, <1>11, <1>12 DEF Turned

\* Any turn.
LEMMA TurnTurns ==
  ASSUME Control, NEW R, "idle" \notin R, NEW t \in Thread, Turn(R, t)
  PROVE  Turned(R, t)
<1>1. CASE pc[t] # "idle" /\ Return(t)
  BY <1>1, Returned
<1>2. ASSUME NEW l \in Labels \ {"idle", "handshake"}, Goto(t, l), l \in R => pc[t] \in R
      PROVE  Turned(R, t)
  <2>1. /\ pc'[t] = l /\ stack' = stack /\ \A u \in Thread \ {t} : pc'[u] = pc[u]
        /\ pc' \in [Thread -> Labels]
    BY <1>2 DEF Goto, Control
  <2>2. Control'
    BY <2>1, <1>2 DEF Control
  <2>3. SoleAll(R) => Sole(R, pc[t], stack[t])
    BY DEF SoleAll
  <2>4. SoleAll(R) => Sole(R, l, stack[t]) /\ (Holds(R, l, stack[t]) => Holds(R, pc[t], stack[t]))
    BY <1>2, <2>3, SoleAfterGoto
  <2>5. SoleAll(R) => SoleAll(R)'
    BY <2>1, <2>4 DEF SoleAll
  <2>6. \A u \in Thread : SoleAll(R) => (In(R, u)' => In(R, u))
    BY <2>1, <2>4 DEF In
  <2> QED
    BY <1>2, <2>1, <2>2, <2>5, <2>6 DEF Turned
<1>3. ASSUME NEW l \in Labels \ {"idle", "handshake"}, NEW r \in ReturnPoints, CallThen(t, l, r),
             l \notin R, r \in R => pc[t] \in R
      PROVE  Turned(R, t)
  <2>0. PICK s, z : s = stack[t] /\ z = <<r>> \o s
    OBVIOUS
  <2>1. s \in Seq(ReturnPoints)
    BY <2>0 DEF Control
  <2>2. z \in Seq(ReturnPoints)
    BY <2>0, <2>1, Pushed
  <2>3. pc' = [pc EXCEPT ![t] = l] /\ stack' = [stack EXCEPT ![t] = z]
    BY <1>3, <2>0 DEF CallThen, Control
  <2>4. /\ pc'[t] = l /\ stack'[t] = z /\ \A u \in Thread \ {t} : pc'[u] = pc[u] /\ stack'[u] = stack[u]
        /\ pc' \in [Thread -> Labels] /\ stack' \in [Thread -> Seq(ReturnPoints)]
    BY <2>2, <2>3 DEF Control
  <2>5. Control'
    BY <1>3, <2>4 DEF Control
  <2>6. SoleAll(R) => Sole(R, pc[t], s)
    BY <2>0 DEF SoleAll
  <2>7. SoleAll(R) => Sole(R, l, z) /\ (Holds(R, l, z) => Holds(R, pc[t], s))
    BY <1>3, <2>0, <2>1, <2>6, SoleAfterCall
  <2>8. SoleAll(R) => SoleAll(R)'
    BY <2>4, <2>7 DEF SoleAll
  <2>9. \A u \in Thread : SoleAll(R) => (In(R, u)' => In(R, u))
    BY <2>0, <2>4, <2>7 DEF In
  <2> QED
    BY <1>3, <2>4, <2>5, <2>8, <2>9 DEF Turned
<1> QED
  BY <1>1, <1>2, <1>3 DEF Turn

\* A move that enters neither the reading of frames nor the close handler.
Plain(t) == Turn(ReadRole, t) /\ Turn({"in_close"}, t)

\* The three plain moves: to go on, to call, to return.
LEMMA GotoIsPlain ==
  ASSUME NEW t \in Thread, NEW l \in Labels \ {"idle", "handshake", "in_close"}, Goto(t, l),
         l \in ReadRole => pc[t] \in ReadRole
  PROVE  Plain(t)
BY DEF Plain, Turn

\* A call from outside the places that are watched.
LEMMA CallIsPlain ==
  ASSUME NEW t \in Thread, NEW l \in Labels \ ({"idle", "handshake", "in_close"} \cup ReadRole),
         NEW r \in ReturnPoints, CallThen(t, l, r),
         r \in ReadRole => pc[t] \in ReadRole, r = "in_close" => pc[t] = "in_close"
  PROVE  Plain(t)
BY DEF Plain, Turn

\* Every return is plain.
LEMMA ReturnIsPlain ==
  ASSUME NEW t \in Thread, pc[t] # "idle", Return(t)
  PROVE  Plain(t)
BY DEF Plain, Turn

\* The steps of send_frame() and do_write().
LEMMA WritingIsPlain == ASSUME NEW t \in Thread, Writing(t) PROVE Plain(t)
<1>1. CASE SendFrame(t)
  BY <1>1, GotoIsPlain, ReturnIsPlain DEF SendFrame, At, Labels, ReadRole
<1>2. CASE SendSocket(t)
  BY <1>2, GotoIsPlain, ReturnIsPlain DEF SendSocket, At, Labels, ReadRole, ReturnPoints
<1>3. CASE Enqueue(t)
  BY <1>3, GotoIsPlain, ReturnIsPlain DEF Enqueue, At, Labels, ReadRole
<1>4. CASE Dequeue(t)
  BY <1>4, GotoIsPlain, ReturnIsPlain DEF Dequeue, At, Labels, ReadRole
<1>5. CASE StartWrite(t)
  BY <1>5, GotoIsPlain, ReturnIsPlain DEF StartWrite, At, Labels, ReadRole, ReturnPoints
<1> QED
  BY <1>1, <1>2, <1>3, <1>4, <1>5 DEF Writing

\* The steps of close() and do_close(), but for the one that runs the handler.
LEMMA ClosingIsPlain ==
  ASSUME NEW t \in Thread, Closing(t), ~DispatchClose(t) PROVE Plain(t)
<1>1. CASE Close(t)
  BY <1>1, GotoIsPlain, ReturnIsPlain DEF Close, At, Labels, ReadRole
<1>2. CASE CloseCode(t)
  BY <1>2, GotoIsPlain DEF CloseCode, At, Labels, ReadRole
<1>3. CASE AnswerClose(t)
  BY <1>3, GotoIsPlain DEF AnswerClose, At, Labels, ReadRole, ReturnPoints
<1>4. CASE ScheduleClose(t)
  BY <1>4, GotoIsPlain DEF ScheduleClose, At, Labels, ReadRole, ReturnPoints
<1>5. CASE DoClose(t)
  BY <1>5, GotoIsPlain, ReturnIsPlain DEF DoClose, At, Labels, ReadRole
<1>6. CASE CloseHandlerReturns(t)
  BY <1>6, GotoIsPlain DEF CloseHandlerReturns, At, Labels, ReadRole
<1>7. CASE CloseSocket(t)
  BY <1>7, ReturnIsPlain DEF CloseSocket, At
<1> QED
  BY <1>1, <1>2, <1>3, <1>4, <1>5, <1>6, <1>7 DEF Closing

\* The steps of force_close().
LEMMA ForceClosingIsPlain == ASSUME NEW t \in Thread, ForceClosing(t) PROVE Plain(t)
<1>1. CASE ForceClose(t)
  BY <1>1, GotoIsPlain DEF ForceClose, At, Labels, ReadRole
<1>2. CASE ForceCloseHandlers(t)
  BY <1>2, GotoIsPlain DEF ForceCloseHandlers, At, Labels, ReadRole
<1>3. CASE ForceCloseClosed(t)
  BY <1>3, GotoIsPlain DEF ForceCloseClosed, At, Labels, ReadRole
<1>4. CASE ForceCloseSocket(t)
  BY <1>4, ReturnIsPlain DEF ForceCloseSocket, At
<1> QED
  BY <1>1, <1>2, <1>3, <1>4 DEF ForceClosing

\* The steps of the opening handshake, but for the one that starts to read.
LEMMA OpeningIsPlain ==
  ASSUME NEW t \in Thread, Opening(t), ~HandshakeWritten(t) PROVE Plain(t)
<1>1. CASE HandshakeRejected(t)
  BY <1>1, GotoIsPlain DEF HandshakeRejected, At, Labels, ReadRole, ReturnPoints
<1>2. CASE HandshakeAccepted(t)
  BY <1>2, ReturnIsPlain DEF HandshakeAccepted, At
<1>3. CASE HandshakeFailed(t)
  BY <1>3, CallIsPlain DEF HandshakeFailed, Labels, ReadRole, ReturnPoints, InHandler
<1> QED
  BY <1>1, <1>2, <1>3 DEF Opening

\* The completion handlers, but for the one that brings frames.
LEMMA CompletingIsPlain ==
  ASSUME NEW t \in Thread, Completing(t), ~OnRead(t) PROVE Plain(t)
<1>1. CASE OnWrite(t)
  BY <1>1, GotoIsPlain DEF OnWrite, Labels, ReadRole
<1>2. CASE OnWriteError(t)
  BY <1>2, GotoIsPlain DEF OnWriteError, Labels, ReadRole
<1>3. CASE WriteFailed(t)
  BY <1>3, CallIsPlain DEF WriteFailed, Labels, ReadRole, ReturnPoints, InHandler
<1>4. CASE OnReadError(t)
  BY <1>4, CallIsPlain DEF OnReadError, Labels, ReadRole, ReturnPoints, InHandler
<1> QED
  BY <1>1, <1>2, <1>3, <1>4 DEF Completing

\* The steps of process_frames(), handle_frame() and start_read().
LEMMA ReadingIsPlain == ASSUME NEW t \in Thread, Reading(t) PROVE Plain(t)
<1>1. CASE StartRead(t)
  BY <1>1, GotoIsPlain, ReturnIsPlain DEF StartRead, At, Labels, ReadRole
<1>2. CASE LockRead(t)
  BY <1>2, ReturnIsPlain DEF LockRead, At
<1>3. CASE NoMoreFrames(t) \/ DiscardFrames(t)
  BY <1>3, GotoIsPlain DEF NoMoreFrames, DiscardFrames, At, Labels, ReadRole, ReturnPoints
<1>4. CASE HandleMessage(t)
  BY <1>4, CallIsPlain DEF HandleMessage, NextFrame, At, Labels, ReadRole, ReturnPoints, InHandler
<1>5. CASE HandlePing(t)
  BY <1>5, CallIsPlain DEF HandlePing, NextFrame, At, Labels, ReadRole, ReturnPoints, InHandler
<1>6. CASE HandlePong(t)
  BY <1>6, GotoIsPlain DEF HandlePong, NextFrame, At, Labels, ReadRole, ReturnPoints
<1>7. CASE HandleBad(t)
  BY <1>7, CallIsPlain DEF HandleBad, NextFrame, At, Labels, ReadRole, ReturnPoints, InHandler
<1>8. CASE HandleClose(t)
  BY <1>8, CallIsPlain DEF HandleClose, NextFrame, At, Labels, ReadRole, ReturnPoints, InHandler
<1>9. CASE AfterFrame(t)
  BY <1>9, GotoIsPlain DEF AfterFrame, At, Labels, ReadRole, ReturnPoints
<1>10. CASE CheckClosed(t)
  BY <1>10, GotoIsPlain, ReturnIsPlain DEF CheckClosed, At, Labels, ReadRole
<1>11. CASE Dispatch(t)
  BY <1>11, GotoIsPlain, ReturnIsPlain DEF Dispatch, At, Labels, ReadRole, ReturnPoints, InHandler
<1> QED
  BY <1>1, <1>2, <1>3, <1>4, <1>5, <1>6, <1>7, <1>8, <1>9, <1>10, <1>11 DEF Reading

\* The calls of the user, and what his callbacks return to.
LEMMA UserIsPlain ==
  ASSUME NEW t \in Thread, UserStep(t) \/ HandlerReturns(t) PROVE Plain(t)
<1>1. \A op \in Ops \cup HandlerOps : Entry(op) \in {"send_frame", "close", "force_close"}
  BY CallsAssumption DEF Entry, Call
<1>2. CASE AppCall(t)
  BY <1>1, <1>2, GotoIsPlain DEF AppCall, At, Labels, ReadRole
<1>3. CASE HandlerCall(t)
  <2>1. PICK op \in HandlerOps : CallThen(t, Entry(op), pc[t])
    BY <1>3 DEF HandlerCall
  <2>2. pc[t] \in InHandler
    BY <1>3 DEF HandlerCall
  <2> QED
    BY <1>1, <2>1, <2>2, CallIsPlain DEF Labels, ReadRole, ReturnPoints, InHandler
<1>4. CASE HandlerReturns(t)
  BY <1>4, ReturnIsPlain DEF HandlerReturns, InHandler
<1> QED
  BY <1>2, <1>3, <1>4 DEF UserStep

\* But for three, all moves of a thread are plain.
LEMMA MovesArePlain ==
  ASSUME NEW t \in Thread, Step(t) \/ UserStep(t), ~DispatchClose(t), ~HandshakeWritten(t), ~OnRead(t)
  PROVE  Plain(t)
BY WritingIsPlain, ClosingIsPlain, ForceClosingIsPlain, OpeningIsPlain, CompletingIsPlain, ReadingIsPlain,
   UserIsPlain DEF Step

\* A thread that enters the places of R from outside, directly or as a return point.
Entered(R, t) ==
    /\ Control' /\ pc'[t] # "handshake" /\ \A u \in Thread \ {t} : pc'[u] = pc[u] /\ stack'[u] = stack[u]
    /\ SoleAll(R) => SoleAll(R)'
    /\ \A u \in Thread \ {t} : In(R, u)' => In(R, u)

\* A thread that is outside of R and goes on, perhaps into it.
LEMMA GotoEnters ==
  ASSUME Control, NEW R, NEW t \in Thread, ~In(R, t),
         NEW l \in Labels \ {"idle", "handshake"}, Goto(t, l)
  PROVE  Entered(R, t)
<1>1. /\ pc'[t] = l /\ stack' = stack /\ \A u \in Thread \ {t} : pc'[u] = pc[u]
      /\ pc' \in [Thread -> Labels]
  BY DEF Goto, Control
<1>2. Control'
  BY <1>1 DEF Control
<1>3. Sole(R, l, stack[t])
  BY DEF In, Holds, Sole
<1>4. SoleAll(R) => SoleAll(R)'
  BY <1>1, <1>3 DEF SoleAll
<1>5. \A u \in Thread \ {t} : In(R, u)' => In(R, u)
  BY <1>1 DEF In
<1> QED
  BY <1>1, <1>2, <1>4, <1>5 DEF Entered

\* A thread that is outside of R and makes a call, perhaps from inside it.
LEMMA CallEnters ==
  ASSUME Control, NEW R, NEW t \in Thread, ~In(R, t),
         NEW l \in Labels \ {"idle", "handshake"}, NEW r \in ReturnPoints, CallThen(t, l, r), l \notin R
  PROVE  Entered(R, t)
<1>0. PICK s, z : s = stack[t] /\ z = <<r>> \o s
  OBVIOUS
<1>1. s \in Seq(ReturnPoints)
  BY <1>0 DEF Control
<1>2. /\ z \in Seq(ReturnPoints) /\ Len(s) \in Nat /\ Len(z) = Len(s) + 1
      /\ \A i \in 1..Len(z) : i = 1 \/ (i - 1 \in 1..Len(s) /\ z[i] = s[i - 1])
  BY <1>0, <1>1, Pushed
<1>3. pc' = [pc EXCEPT ![t] = l] /\ stack' = [stack EXCEPT ![t] = z]
  BY <1>0 DEF CallThen, Control
<1>4. /\ pc'[t] = l /\ stack'[t] = z /\ \A u \in Thread \ {t} : pc'[u] = pc[u] /\ stack'[u] = stack[u]
      /\ pc' \in [Thread -> Labels] /\ stack' \in [Thread -> Seq(ReturnPoints)]
  BY <1>2, <1>3 DEF Control
<1>5. Control'
  BY <1>4 DEF Control
<1>6. Sole(R, l, z)
  <2>1. \A i \in 1..Len(s) : s[i] \notin R
    BY <1>0 DEF In, Holds
  <2>2. \A i \in 1..Len(z) : z[i] \in R => i = 1
    BY <1>2, <2>1
  <2> QED
    BY <2>2 DEF Sole
<1>7. SoleAll(R) => SoleAll(R)'
  BY <1>4, <1>6 DEF SoleAll
<1>8. \A u \in Thread \ {t} : In(R, u)' => In(R, u)
  BY <1>4 DEF In
<1> QED
  BY <1>4, <1>5, <1>7, <1>8 DEF Entered

\* An idle thread is nowhere.
LEMMA IdleIsNowhere ==
  ASSUME Control, NEW R, NEW t \in Thread, pc[t] \in {"idle", "handshake"}, pc[t] \notin R
  PROVE  ~In(R, t)
<1>1. stack[t] = <<>>
  BY DEF Control
<1> QED
  BY <1>1 DEF In, Holds

\* The moves that are not plain.
LEMMA OnReadEnters ==
  ASSUME Control, NEW t \in Thread, OnRead(t)
  PROVE  Entered(ReadRole, t) /\ Turned({"in_close"}, t) /\ pc[t] = "idle" /\ ~In(ReadRole, t)
<1>1. pc[t] = "idle" /\ \E l \in {"close", "process_frames"} : Goto(t, l)
  BY DEF OnRead, At
<1>2. ~In(ReadRole, t)
  BY <1>1, IdleIsNowhere DEF ReadRole
<1>3. Entered(ReadRole, t)
  BY <1>1, <1>2, GotoEnters DEF Labels, ReturnPoints
<1>4. Turn({"in_close"}, t)
  BY <1>1 DEF Turn, Labels, ReturnPoints
<1> QED
  BY <1>1, <1>2, <1>3, <1>4, TurnTurns

\* The answer to the upgrade request is written: its thread will read.
LEMMA HandshakeWrittenEnters ==
  ASSUME Control, NEW t \in Thread, HandshakeWritten(t)
  PROVE  Entered(ReadRole, t) /\ Turned({"in_close"}, t) /\ pc[t] = "idle" /\ ~In(ReadRole, t)
<1>1. pc[t] = "idle" /\ CallThen(t, "in_open", "start_read")
  BY DEF HandshakeWritten, WriteCompletes, At
<1>2. ~In(ReadRole, t)
  BY <1>1, IdleIsNowhere DEF ReadRole
<1>3. Entered(ReadRole, t)
  BY <1>1, <1>2, CallEnters DEF Labels, ReturnPoints, InHandler, ReadRole
<1>4. Turn({"in_close"}, t)
  BY <1>1 DEF Turn, Labels, ReturnPoints, InHandler
<1> QED
  BY <1>1, <1>2, <1>3, <1>4, TurnTurns

\* The thread that won closed_ runs the close handler.
LEMMA DispatchCloseEnters ==
  ASSUME Control, NEW t \in Thread, DispatchClose(t)
  PROVE  Turned(ReadRole, t) /\ (~In({"in_close"}, t) => Entered({"in_close"}, t))
<1>1. pc[t] = "lock_close_handler" /\ \E l \in {"in_close", "close_socket"} : Goto(t, l)
  BY DEF DispatchClose, At
<1>2. Turn(ReadRole, t)
  BY <1>1 DEF Turn, Labels, ReturnPoints, InHandler, ReadRole
<1>3. ~In({"in_close"}, t) => Entered({"in_close"}, t)
  BY <1>1, GotoEnters DEF Labels, ReturnPoints, InHandler
<1> QED
  BY <1>2, <1>3, TurnTurns DEF ReadRole

\* A plain move is a turn for both kinds of places.
LEMMA PlainTurns ==
  ASSUME Control, NEW t \in Thread, Plain(t)
  PROVE  Turned(ReadRole, t) /\ Turned({"in_close"}, t)
BY TurnTurns DEF Plain, ReadRole

\* Whatever a thread does, the others stay where they are.
LEMMA OthersStay ==
  ASSUME Control, NEW t \in Thread, Step(t) \/ UserStep(t)
  PROVE  Control' /\ pc'[t] # "handshake" /\ \A u \in Thread \ {t} : pc'[u] = pc[u] /\ stack'[u] = stack[u]
<1>1. CASE OnRead(t)
  BY <1>1, OnReadEnters DEF Entered
<1>2. CASE HandshakeWritten(t)
  BY <1>2, HandshakeWrittenEnters DEF Entered
<1>3. CASE DispatchClose(t)
  BY <1>3, DispatchCloseEnters DEF Turned
<1>4. CASE ~OnRead(t) /\ ~HandshakeWritten(t) /\ ~DispatchClose(t)
  BY <1>4, MovesArePlain, PlainTurns DEF Turned
<1> QED
  BY <1>1, <1>2, <1>3, <1>4

\* What asio, the peer and the user of the socket do moves no thread.
LEMMA OutsideMovesNone ==
  ASSUME Asio \/ Peer \/ SocketClosedExternally \/ Quiescent \/ UNCHANGED vars
  PROVE  UNCHANGED <<pc, stack, frame, is_closing, closed, handshake_complete, handlers, close_code,
                     write_queue, write_in_progress, close_after_write, on_close, locks>>
<1>1. CASE Asio
  BY <1>1 DEF Asio, Transmit, Receive, conn, out
<1>2. CASE Peer
  BY <1>2 DEF Peer, PeerSends, PeerAnswersClose, PeerHangsUp, conn, out
<1>3. CASE SocketClosedExternally
  BY <1>3 DEF SocketClosedExternally, conn, out
<1>4. CASE Quiescent \/ UNCHANGED vars
  BY <1>4 DEF Quiescent, vars, conn, out
<1> QED
  BY <1>1, <1>2, <1>3, <1>4

-----------------------------------------------------------------------------
(* The right to write.                                                     *)

Sendable == {"text", "pong", "close"}
Frames == [kind : Sendable, close_after : BOOLEAN]

\* The answer to the upgrade request is to be sent, or on its way.
Upgrade == write_op # <<>> /\ Head(write_op).kind = "101"
Greeting == Upgrade \/ \E t \in Thread : pc[t] = "handshake"

\* Somebody holds the right to write: a thread, or the write that is outstanding.
Token == (write_op # <<>> /\ ~Upgrade) \/ \E t \in Thread : pc[t] \in WriteSection

\* At most one write is outstanding.
WriteOpType == write_op = <<>> \/ \E k \in Outbound, s \in Status : write_op = <<[kind |-> k, status |-> s]>>

WriteTypes ==
    /\ frame \in [Thread -> Frames] /\ write_queue \in Seq(Sendable) /\ write_in_progress \in BOOLEAN
    /\ WriteOpType

WriterInv ==
    /\ WriteTypes /\ OneWriter
    /\ write_in_progress <=> Token
    /\ write_queue # <<>> => write_in_progress
    /\ Greeting => ~handshake_complete /\ read_op = "none" /\ ~write_in_progress
    /\ \A t \in Thread : pc[t] = "handshake" => write_op = <<>> /\ \A u \in Thread \ {t} : pc[u] = "idle"
    /\ Upgrade => \A t \in Thread : pc[t] = "idle"

\* A step that has nothing to do with writing.
Quiet(t) ==
    /\ UNCHANGED <<write_queue, write_in_progress, write_op, handshake_complete>>
    /\ frame' \in [Thread -> Frames]
    /\ pc[t] \notin WriteSection \cup {"handshake"} /\ pc'[t] \notin WriteSection
    /\ pc[t] = "idle" => handshake_complete \/ read_op # "none"

\* A quiet step leaves the right to write where it is.
LEMMA QuietKeeps ==
  ASSUME Control, WriterInv, NEW t \in Thread, Quiet(t), Step(t) \/ UserStep(t)
  PROVE  WriterInv'
<1>1. pc'[t] # "handshake" /\ \A u \in Thread \ {t} : pc'[u] = pc[u]
  BY OthersStay
<1>2. ~Greeting
  BY DEF Greeting, WriterInv, Quiet
<1>3. ~Greeting' /\ ~Upgrade'
  BY <1>1, <1>2 DEF Greeting, Quiet, Upgrade
<1>4. \A u \in Thread : pc'[u] \in WriteSection <=> pc[u] \in WriteSection
  BY <1>1 DEF Quiet
<1>5. Token' <=> Token
  BY <1>2, <1>3, <1>4 DEF Token, Quiet, Greeting
<1>6. OneWriter'
  BY <1>4 DEF OneWriter, Quiet, WriterInv
<1>7. WriteTypes'
  BY DEF WriteTypes, WriteOpType, Quiet, WriterInv
<1>8. \A u \in Thread : pc'[u] # "handshake"
  BY <1>3 DEF Greeting
<1> QED
  BY <1>3, <1>5, <1>6, <1>7, <1>8 DEF WriterInv, Quiet

\* The places of the kinds of step.
LEMMA ReturnGoesOn ==
  ASSUME Control, NEW t \in Thread, pc[t] # "idle", Return(t)
  PROVE  pc'[t] \in ReturnPoints \cup {"idle"} /\ pc'[t] \notin WriteSection
<1>0. PICK R : R = {}
  OBVIOUS
<1>1. pc'[t] \in ReturnPoints \cup {"idle"}
  BY <1>0, Returned
<1> QED
  BY <1>1 DEF ReturnPoints, InHandler, WriteSection

\* Where the next step of a thread is after it went on.
LEMMA GotoGoes ==
  ASSUME Control, NEW t \in Thread, NEW l, Goto(t, l)
  PROVE  pc'[t] = l
BY DEF Goto, Control

\* Where it is after a call.
LEMMA CallGoes ==
  ASSUME Control, NEW t \in Thread, NEW l, NEW r, CallThen(t, l, r)
  PROVE  pc'[t] = l
BY DEF CallThen, Control

\* The frames in the hands of the threads keep their type.
LEMMA FrameStays ==
  ASSUME WriterInv, NEW t \in Thread, UNCHANGED frame \/ \E f \in Frames : frame' = [frame EXCEPT ![t] = f]
  PROVE  frame' \in [Thread -> Frames]
BY DEF WriterInv, WriteTypes, WriteOpType

\* Closing, ending by force and reading do not write.
LEMMA ClosingIsQuiet ==
  ASSUME Control, WriterInv, NEW t \in Thread, Closing(t) \/ ForceClosing(t)
  PROVE  Quiet(t)
<1>1. /\ UNCHANGED <<write_queue, write_in_progress, write_op, handshake_complete>>
      /\ pc[t] \notin WriteSection \cup {"handshake", "idle"}
  BY DEF Closing, ForceClosing, Close, CloseCode, AnswerClose, ScheduleClose, DoClose, DispatchClose,
     CloseHandlerReturns, CloseSocket, ForceClose, ForceCloseHandlers, ForceCloseClosed, ForceCloseSocket,
     conn, out, net, At, WriteSection
<1>2. frame' \in [Thread -> Frames]
  <2>1. [kind |-> "close", close_after |-> FALSE] \in Frames /\ [kind |-> "close", close_after |-> TRUE] \in Frames
    BY DEF Frames, Sendable
  <2>2. CASE CloseCode(t) \/ AnswerClose(t)
    BY <2>1, <2>2, FrameStays DEF CloseCode, AnswerClose
  <2>3. CASE ~CloseCode(t) /\ ~AnswerClose(t)
    <3>1. UNCHANGED frame
      BY <2>3 DEF Closing, ForceClosing, Close, ScheduleClose, DoClose, DispatchClose, CloseHandlerReturns,
         CloseSocket, ForceClose, ForceCloseHandlers, ForceCloseClosed, ForceCloseSocket
    <3> QED
      BY <3>1, FrameStays
  <2> QED
    BY <2>2, <2>3
<1>3. Return(t) \/ \E l \in Labels \ WriteSection : Goto(t, l)
  BY DEF Closing, ForceClosing, Close, CloseCode, AnswerClose, ScheduleClose, DoClose, DispatchClose,
     CloseHandlerReturns, CloseSocket, ForceClose, ForceCloseHandlers, ForceCloseClosed, ForceCloseSocket,
     Labels, WriteSection, ReturnPoints, InHandler
<1>4. pc'[t] \notin WriteSection
  BY <1>1, <1>3, ReturnGoesOn, GotoGoes
<1> QED
  BY <1>1, <1>2, <1>4 DEF Quiet

\* Reading does not write.
LEMMA ReadingIsQuiet ==
  ASSUME Control, WriterInv, NEW t \in Thread, Reading(t) \/ OnRead(t) \/ OnReadError(t)
  PROVE  Quiet(t)
<1>1. /\ UNCHANGED <<write_queue, write_in_progress, write_op, handshake_complete>>
      /\ pc[t] \notin WriteSection \cup {"handshake"} /\ (pc[t] = "idle" => read_op # "none")
  BY DEF Reading, StartRead, LockRead, NoMoreFrames, DiscardFrames, HandleMessage, HandlePing, HandlePong,
     HandleBad, HandleClose, AfterFrame, CheckClosed, Dispatch, NextFrame, OnRead, OnReadError,
     conn, out, net, At, WriteSection
<1>2. frame' \in [Thread -> Frames]
  <2>1. CASE HandlePing(t)
    <3>1. [kind |-> "pong", close_after |-> FALSE] \in Frames
      BY DEF Frames, Sendable
    <3> QED
      BY <2>1, <3>1, FrameStays DEF HandlePing
  <2>2. CASE ~HandlePing(t)
    <3>1. UNCHANGED frame
      BY <2>2 DEF Reading, StartRead, LockRead, NoMoreFrames, DiscardFrames, HandleMessage, HandlePong,
         HandleBad, HandleClose, AfterFrame, CheckClosed, Dispatch, OnRead, OnReadError
    <3> QED
      BY <3>1, FrameStays
  <2> QED
    BY <2>1, <2>2
<1>3. \/ pc[t] # "idle" /\ Return(t)
      \/ \E l \in Labels \ WriteSection : Goto(t, l)
      \/ \E l \in Labels \ WriteSection, r \in ReturnPoints : CallThen(t, l, r)
  BY DEF Reading, StartRead, LockRead, NoMoreFrames, DiscardFrames, HandleMessage, HandlePing, HandlePong,
     HandleBad, HandleClose, AfterFrame, CheckClosed, Dispatch, NextFrame, OnRead, OnReadError,
     Labels, WriteSection, ReturnPoints, InHandler, At
<1>4. pc'[t] \notin WriteSection
  BY <1>3, ReturnGoesOn, GotoGoes, CallGoes
<1> QED
  BY <1>1, <1>2, <1>4 DEF Quiet

\* Neither do the calls of the user by themselves.
LEMMA UserIsQuiet ==
  ASSUME Control, WriterInv, NEW t \in Thread, UserStep(t) \/ HandlerReturns(t)
  PROVE  Quiet(t)
<1>0. \A op \in Ops \cup HandlerOps :
        /\ Entry(op) \in {"send_frame", "close", "force_close"} /\ Argument(op) \in Frames
  BY CallsAssumption DEF Entry, Argument, Call, Frames, Sendable
<1>1. /\ UNCHANGED <<write_queue, write_in_progress, write_op, handshake_complete>>
      /\ pc[t] \notin WriteSection \cup {"handshake"} /\ (pc[t] = "idle" => handshake_complete)
  BY DEF UserStep, AppCall, HandlerCall, HandlerReturns, InHandler, conn, out, net, At, WriteSection
<1>2. frame' \in [Thread -> Frames]
  BY <1>0 DEF UserStep, AppCall, HandlerCall, HandlerReturns, WriterInv, WriteTypes, WriteOpType
<1>3. \/ pc[t] # "idle" /\ Return(t)
      \/ \E op \in Ops \cup HandlerOps : Goto(t, Entry(op)) \/ CallThen(t, Entry(op), pc[t])
  BY DEF UserStep, AppCall, HandlerCall, HandlerReturns, InHandler
<1>4. pc'[t] \notin WriteSection
  BY <1>0, <1>3, ReturnGoesOn, GotoGoes, CallGoes DEF WriteSection
<1> QED
  BY <1>1, <1>2, <1>4 DEF Quiet

\* Nor send_frame() before it reaches the queue.
LEMMA SendingIsQuiet ==
  ASSUME Control, WriterInv, NEW t \in Thread, SendFrame(t) \/ SendSocket(t)
  PROVE  Quiet(t)
<1>1. /\ UNCHANGED <<write_queue, write_in_progress, write_op, handshake_complete, frame>>
      /\ pc[t] \notin WriteSection \cup {"handshake", "idle"}
  BY DEF SendFrame, SendSocket, conn, out, net, At, WriteSection
<1>2. Return(t) \/ \E l \in {"send_socket", "enqueue", "do_close"} : Goto(t, l)
  BY DEF SendFrame, SendSocket
<1>3. pc'[t] \notin WriteSection
  BY <1>1, <1>2, ReturnGoesOn, GotoGoes DEF WriteSection
<1> QED
  BY <1>1, <1>3 DEF Quiet, WriterInv, WriteTypes, WriteOpType

\* A frame is queued, and the right to write taken if nobody had it.
LEMMA EnqueueWrites ==
  ASSUME Control, WriterInv, NEW t \in Thread, Enqueue(t)
  PROVE  WriterInv'
<1>0. /\ pc[t] = "enqueue" /\ write_queue' = Append(write_queue, frame[t].kind) /\ write_in_progress' = TRUE
      /\ UNCHANGED <<write_op, handshake_complete, read_op, frame>>
      /\ IF write_in_progress THEN Return(t) ELSE Goto(t, "dequeue")
  BY DEF Enqueue, conn, net, At
<1>1. pc'[t] # "handshake" /\ \A u \in Thread \ {t} : pc'[u] = pc[u]
  BY OthersStay DEF Step, Writing
<1>2. ~Greeting
  BY <1>0 DEF Greeting, WriterInv
<1>3. ~Greeting' /\ ~Upgrade' /\ \A u \in Thread : pc'[u] # "handshake"
  BY <1>0, <1>1, <1>2 DEF Greeting, Upgrade
<1>4. write_in_progress \in BOOLEAN /\ frame[t].kind \in Sendable
  BY DEF WriterInv, WriteTypes, WriteOpType, Frames
<1>5. WriteTypes'
  BY <1>0, <1>4 DEF WriterInv, WriteTypes, WriteOpType
<1>6. pc[t] \notin WriteSection
  BY <1>0 DEF WriteSection
<1>7. CASE write_in_progress
  <2>1. pc'[t] \notin WriteSection
    BY <1>0, <1>7, ReturnGoesOn
  <2>2. \A u \in Thread : pc'[u] \in WriteSection <=> pc[u] \in WriteSection
    BY <1>1, <1>6, <2>1
  <2>3. OneWriter' /\ Token'
    BY <1>0, <1>2, <1>3, <1>7, <2>2 DEF WriterInv, OneWriter, Token, Greeting
  <2> QED
    BY <1>0, <1>3, <1>5, <2>3 DEF WriterInv
<1>8. CASE ~write_in_progress
  <2>1. pc'[t] = "dequeue"
    BY <1>0, <1>8, GotoGoes
  <2>2. write_op = <<>> /\ \A u \in Thread : pc[u] \notin WriteSection
    BY <1>2, <1>8 DEF WriterInv, Token, Greeting
  <2>3. \A u \in Thread : pc'[u] \in WriteSection => u = t
    BY <1>1, <2>2
  <2>4. Len(write_op') <= 1 /\ write_op' = <<>>
    BY <1>0, <2>2
  <2>5. OneWriter' /\ Token'
    BY <2>1, <2>3, <2>4 DEF OneWriter, Token, WriteSection
  <2> QED
    BY <1>0, <1>3, <1>5, <2>5 DEF WriterInv
<1> QED
  BY <1>4, <1>7, <1>8

\* A thread in the write section, which goes on in it or gives the right to write back.
LEMMA SectionKeeps ==
  ASSUME Control, WriterInv, NEW t \in Thread, pc[t] \in WriteSection,
         WriteTypes', UNCHANGED <<handshake_complete, read_op>>,
         \A u \in Thread \ {t} : pc'[u] = pc[u], pc'[t] # "handshake",
         \/ /\ UNCHANGED <<write_in_progress, write_op>> /\ pc'[t] \in WriteSection
         \/ /\ UNCHANGED write_in_progress /\ pc'[t] \notin WriteSection
            /\ \E k \in Outbound \ {"101"} : write_op' = <<[kind |-> k, status |-> "pending"]>>
         \/ /\ write_in_progress' = FALSE /\ UNCHANGED write_op /\ pc'[t] \notin WriteSection
            /\ write_queue' = <<>>
  PROVE  WriterInv'
<1>0. pc[t] \notin {"idle", "handshake"}
  BY DEF WriteSection
<1>1. ~Greeting /\ write_op = <<>> /\ write_in_progress = TRUE /\ \A u \in Thread : pc[u] \in WriteSection => u = t
  BY <1>0 DEF WriterInv, WriteTypes, WriteOpType, OneWriter, Greeting, Token
<1>2. \A u \in Thread : pc'[u] # "handshake"
  BY <1>1 DEF Greeting
<1>3. \A u \in Thread : pc'[u] \in WriteSection => u = t
  BY <1>1
<1>4. CASE UNCHANGED <<write_in_progress, write_op>> /\ pc'[t] \in WriteSection
  <2>1. Len(write_op') <= 1 /\ write_op' = <<>> /\ write_in_progress' = TRUE
    BY <1>1, <1>4
  <2>2. OneWriter' /\ Token' /\ ~Upgrade'
    BY <1>3, <1>4, <2>1 DEF OneWriter, Token, Upgrade
  <2> QED
    BY <1>2, <2>1, <2>2 DEF WriterInv, Greeting
<1>5. CASE /\ UNCHANGED write_in_progress /\ pc'[t] \notin WriteSection
           /\ \E k \in Outbound \ {"101"} : write_op' = <<[kind |-> k, status |-> "pending"]>>
  <2>1. Len(write_op') <= 1 /\ write_op' # <<>> /\ Head(write_op').kind # "101" /\ write_in_progress' = TRUE
    BY <1>1, <1>5
  <2>2. OneWriter' /\ Token' /\ ~Upgrade'
    BY <1>3, <1>5, <2>1 DEF OneWriter, Token, Upgrade
  <2> QED
    BY <1>2, <2>1, <2>2 DEF WriterInv, Greeting
<1>6. CASE /\ write_in_progress' = FALSE /\ UNCHANGED write_op /\ pc'[t] \notin WriteSection
           /\ write_queue' = <<>>
  <2>1. Len(write_op') <= 1 /\ write_op' = <<>>
    BY <1>1, <1>6
  <2>2. OneWriter' /\ ~Token' /\ ~Upgrade'
    BY <1>3, <1>6, <2>1 DEF OneWriter, Token, Upgrade
  <2> QED
    BY <1>2, <1>6, <2>1, <2>2 DEF WriterInv, Greeting
<1> QED
  BY <1>4, <1>5, <1>6

\* do_write() and what follows a failed write.
LEMMA DequeueWrites ==
  ASSUME Control, WriterInv, NEW t \in Thread, Dequeue(t)
  PROVE  WriterInv'
<1>0. /\ pc[t] = "dequeue" /\ pc[t] \in WriteSection /\ UNCHANGED <<write_op, handshake_complete, read_op>>
  BY DEF Dequeue, conn, net, At, WriteSection
<1>1. pc'[t] # "handshake" /\ \A u \in Thread \ {t} : pc'[u] = pc[u]
  BY OthersStay DEF Step, Writing
<1>2. write_queue \in Seq(Sendable) /\ frame \in [Thread -> Frames]
  BY DEF WriterInv, WriteTypes, WriteOpType
<1>3. CASE /\ write_queue # <<>> /\ frame' = [frame EXCEPT ![t].kind = Head(write_queue)]
           /\ write_queue' = Tail(write_queue) /\ Goto(t, "start_write") /\ UNCHANGED write_in_progress
  <2>1. Head(write_queue) \in Sendable /\ Tail(write_queue) \in Seq(Sendable)
    BY <1>2, <1>3, HeadTailProperties
  <2>2. frame' \in [Thread -> Frames]
    BY <1>2, <1>3, <2>1 DEF Frames
  <2>3. WriteTypes'
    BY <1>0, <1>3, <2>1, <2>2 DEF WriterInv, WriteTypes, WriteOpType
  <2>4. pc'[t] \in WriteSection
    BY <1>3, GotoGoes DEF WriteSection
  <2> QED
    BY <1>0, <1>1, <1>3, <2>3, <2>4, SectionKeeps
<1>4. CASE /\ write_queue = <<>> /\ write_in_progress' = FALSE /\ UNCHANGED <<write_queue, frame>>
           /\ Goto(t, "schedule_close") \/ Return(t)
  <2>1. pc'[t] \notin WriteSection
    BY <1>0, <1>4, GotoGoes, ReturnGoesOn DEF WriteSection
  <2>2. WriteTypes'
    BY <1>0, <1>4 DEF WriterInv, WriteTypes, WriteOpType
  <2> QED
    BY <1>0, <1>1, <1>4, <2>1, <2>2, SectionKeeps
<1> QED
  BY <1>3, <1>4 DEF Dequeue

\* A write is started, or the queue is dropped with the socket.
LEMMA StartWriteWrites ==
  ASSUME Control, WriterInv, NEW t \in Thread, StartWrite(t)
  PROVE  WriterInv'
<1>0. /\ pc[t] = "start_write" /\ pc[t] \in WriteSection /\ UNCHANGED <<frame, handshake_complete, read_op>>
  BY DEF StartWrite, conn, net, At, WriteSection
<1>1. pc'[t] # "handshake" /\ \A u \in Thread \ {t} : pc'[u] = pc[u]
  BY OthersStay DEF Step, Writing
<1>2. write_op = <<>> /\ frame[t].kind \in Sendable
  BY <1>0 DEF WriterInv, WriteTypes, WriteOpType, OneWriter, Frames
<1>3. CASE /\ write_op' = Append(write_op, [kind |-> frame[t].kind, status |-> "pending"])
           /\ Return(t) /\ UNCHANGED out
  <2>1. pc'[t] \notin WriteSection
    BY <1>0, <1>3, ReturnGoesOn
  <2>2. write_op' = <<[kind |-> frame[t].kind, status |-> "pending"]>>
    BY <1>2, <1>3
  <2>3. frame[t].kind \in Outbound \ {"101"} /\ "pending" \in Status
    BY <1>2 DEF Sendable, Outbound, Status
  <2>4. WriteTypes'
    BY <1>0, <1>3, <2>2, <2>3 DEF WriterInv, WriteTypes, WriteOpType, out
  <2>5. UNCHANGED write_in_progress
    BY <1>3 DEF out
  <2> QED
    BY <1>0, <1>1, <2>1, <2>2, <2>3, <2>4, <2>5, SectionKeeps
<1>4. CASE /\ write_in_progress' = FALSE /\ write_queue' = <<>> /\ UNCHANGED write_op
           /\ Goto(t, "do_close") \/ Return(t)
  <2>1. pc'[t] \notin WriteSection
    BY <1>0, <1>4, GotoGoes, ReturnGoesOn DEF WriteSection
  <2>2. WriteTypes'
    <3>0. <<>> \in Seq(Sendable)
      OBVIOUS
    <3>1. write_queue' \in Seq(Sendable) /\ write_in_progress' \in BOOLEAN
      BY <1>4, <3>0
    <3> QED
      BY <1>0, <1>4, <3>1 DEF WriterInv, WriteTypes, WriteOpType
  <2> QED
    BY <1>0, <1>1, <1>4, <2>1, <2>2, SectionKeeps
<1> QED
  BY <1>3, <1>4 DEF StartWrite

\* A write has failed: the queue is dropped.
LEMMA WriteFailedWrites ==
  ASSUME Control, WriterInv, NEW t \in Thread, WriteFailed(t)
  PROVE  WriterInv'
<1>0. /\ pc[t] = "write_failed" /\ pc[t] \in WriteSection
      /\ UNCHANGED <<frame, handshake_complete, read_op, write_op>>
      /\ write_in_progress' = FALSE /\ write_queue' = <<>> /\ CallThen(t, "error", "do_close")
  BY DEF WriteFailed, conn, net, At, WriteSection
<1>1. pc'[t] # "handshake" /\ \A u \in Thread \ {t} : pc'[u] = pc[u]
  BY OthersStay DEF Step, Completing
<1>2. pc'[t] \notin WriteSection
  BY <1>0, CallGoes DEF WriteSection
<1>3. WriteTypes'
  <2>0. <<>> \in Seq(Sendable)
    OBVIOUS
  <2>1. write_queue' \in Seq(Sendable) /\ write_in_progress' \in BOOLEAN
    BY <1>0, <2>0
  <2> QED
    BY <1>0, <2>1 DEF WriterInv, WriteTypes, WriteOpType
<1> QED
  BY <1>0, <1>1, <1>2, <1>3, SectionKeeps

\* The outstanding write, taken by its completion handler.
LEMMA Completed ==
  ASSUME WriterInv, NEW t \in Thread, NEW kinds, NEW status, WriteCompletes(t, kinds, status)
  PROVE  /\ pc[t] = "idle" /\ write_op # <<>> /\ write_op' = <<>> /\ Head(write_op).kind \in kinds
         /\ \A u \in Thread : pc[u] \notin WriteSection
<1>1. pc[t] = "idle" /\ write_op # <<>> /\ Head(write_op).kind \in kinds /\ write_op' = Tail(write_op)
  BY DEF WriteCompletes, At
<1>2. write_op' = <<>>
  BY <1>1 DEF WriterInv, WriteTypes, WriteOpType
<1> QED
  BY <1>1, <1>2 DEF WriterInv, OneWriter

\* The right to write goes from the write to the thread that runs its handler.
LEMMA OnWriteWrites ==
  ASSUME Control, WriterInv, NEW t \in Thread, OnWrite(t) \/ OnWriteError(t)
  PROVE  WriterInv'
<1>0. /\ UNCHANGED <<write_queue, write_in_progress, handshake_complete, read_op, frame>>
      /\ \E status : WriteCompletes(t, Outbound \ {"101"}, status)
      /\ \E l \in {"dequeue", "write_failed"} : Goto(t, l)
  BY DEF OnWrite, OnWriteError, conn, out
<1>1. pc'[t] # "handshake" /\ \A u \in Thread \ {t} : pc'[u] = pc[u]
  BY OthersStay DEF Step, Completing
<1>2. /\ pc[t] = "idle" /\ write_op # <<>> /\ write_op' = <<>> /\ Head(write_op).kind # "101"
      /\ \A u \in Thread : pc[u] \notin WriteSection
  BY <1>0, Completed
<1>3. ~Greeting
  BY <1>2 DEF Greeting, Upgrade, WriterInv
<1>4. pc'[t] \in WriteSection
  BY <1>0, GotoGoes DEF WriteSection
<1>5. \A u \in Thread : pc'[u] # "handshake" /\ (pc'[u] \in WriteSection => u = t)
  BY <1>1, <1>2, <1>3 DEF Greeting
<1>6. write_in_progress = TRUE
  BY <1>2 DEF WriterInv, WriteTypes, WriteOpType, Token, Upgrade
<1>7. Len(write_op') <= 1
  BY <1>2
<1>8. OneWriter' /\ Token' /\ ~Upgrade'
  BY <1>2, <1>4, <1>5, <1>7 DEF OneWriter, Token, Upgrade
<1>9. WriteTypes'
  BY <1>0, <1>2 DEF WriterInv, WriteTypes, WriteOpType
<1> QED
  BY <1>0, <1>5, <1>6, <1>8, <1>9 DEF WriterInv, Greeting

\* The opening handshake: the thread, or the write, that answers is alone.
LEMMA OpeningWrites ==
  ASSUME Control, WriterInv, NEW t \in Thread, Opening(t)
  PROVE  WriterInv'
<1>0. UNCHANGED <<write_queue, write_in_progress, read_op, frame>>
  BY DEF Opening, HandshakeRejected, HandshakeAccepted, HandshakeWritten, HandshakeFailed, conn, out, net
<1>1. pc'[t] # "handshake" /\ \A u \in Thread \ {t} : pc'[u] = pc[u]
  BY OthersStay DEF Step
<1>2. CASE HandshakeRejected(t) \/ HandshakeAccepted(t)
  <2>1. /\ pc[t] = "handshake" /\ UNCHANGED handshake_complete
        /\ write_op' = write_op \/ write_op' = Append(write_op, [kind |-> "101", status |-> "pending"])
        /\ (Goto(t, "do_close") /\ write_op' = write_op) \/ Return(t)
    BY <1>2 DEF HandshakeRejected, HandshakeAccepted, At, conn, net
  <2>2. write_op = <<>> /\ Greeting /\ \A u \in Thread \ {t} : pc[u] = "idle"
    BY <2>1 DEF WriterInv, Greeting
  <2>3. stack[t] = <<>>
    BY <2>1 DEF Control
  <2>4. (pc'[t] = "do_close" /\ write_op' = write_op) \/ pc'[t] = "idle"
    <3>1. Return(t) => pc'[t] = "idle"
      BY <2>3 DEF Return, Control
    <3> QED
      BY <2>1, <3>1, GotoGoes
  <2>5. write_op' = <<>> \/ write_op' = <<[kind |-> "101", status |-> "pending"]>>
    BY <2>1, <2>2
  <2>6. \A u \in Thread : pc'[u] # "handshake" /\ pc'[u] \notin WriteSection
    BY <1>1, <2>2, <2>4 DEF WriteSection
  <2>7. Len(write_op') <= 1 /\ (write_op' # <<>> => Upgrade' /\ pc'[t] = "idle")
    <3>1. CASE write_op' = <<>>
      BY <3>1
    <3>2. CASE write_op' = <<[kind |-> "101", status |-> "pending"]>>
      BY <2>2, <2>4, <3>2 DEF Upgrade
    <3> QED
      BY <2>5, <3>1, <3>2
  <2>8. Upgrade' => \A u \in Thread : pc'[u] = "idle"
    BY <1>1, <2>2, <2>7 DEF Upgrade
  <2>9. OneWriter' /\ ~Token'
    BY <2>6, <2>7 DEF OneWriter, Token
  <2>10. WriteTypes'
    <3>1. "101" \in Outbound /\ "pending" \in Status
      BY DEF Outbound, Status
    <3> QED
      BY <1>0, <2>5, <3>1 DEF WriterInv, WriteTypes, WriteOpType
  <2>11. ~handshake_complete' /\ read_op' = "none" /\ ~write_in_progress' /\ write_queue' = <<>>
    BY <1>0, <2>1, <2>2 DEF WriterInv
  <2> QED
    BY <2>6, <2>8, <2>9, <2>10, <2>11 DEF WriterInv
<1>3. CASE HandshakeWritten(t) \/ HandshakeFailed(t)
  <2>1. /\ \E status : WriteCompletes(t, {"101"}, status)
        /\ CallThen(t, "in_open", "start_read") \/ CallThen(t, "in_error", "do_close")
    BY <1>3 DEF HandshakeWritten, HandshakeFailed
  <2>2. /\ pc[t] = "idle" /\ write_op # <<>> /\ write_op' = <<>> /\ Head(write_op).kind = "101"
        /\ \A u \in Thread : pc[u] \notin WriteSection
    BY <2>1, Completed
  <2>3. Upgrade /\ Greeting /\ \A u \in Thread : pc[u] = "idle"
    BY <2>2 DEF Upgrade, Greeting, WriterInv
  <2>4. pc'[t] \in {"in_open", "in_error"}
    BY <2>1, CallGoes
  <2>5. \A u \in Thread : pc'[u] # "handshake" /\ pc'[u] \notin WriteSection
    BY <1>1, <2>2, <2>3, <2>4 DEF WriteSection
  <2>6. Len(write_op') <= 1
    BY <2>2
  <2>7. OneWriter' /\ ~Token' /\ ~Upgrade'
    BY <2>2, <2>5, <2>6 DEF OneWriter, Token, Upgrade
  <2>8. WriteTypes'
    BY <1>0, <2>2 DEF WriterInv, WriteTypes, WriteOpType
  <2>9. ~write_in_progress' /\ write_queue' = <<>>
    BY <1>0, <2>3 DEF WriterInv
  <2> QED
    BY <2>5, <2>7, <2>8, <2>9 DEF WriterInv, Greeting
<1> QED
  BY <1>2, <1>3 DEF Opening

\* Asio completes a write, the rest of the world leaves it alone.
LEMMA OutsideWrites ==
  ASSUME Control, WriterInv, Asio \/ Peer \/ SocketClosedExternally \/ Quiescent \/ UNCHANGED vars
  PROVE  WriterInv' /\ Control'
<1>1. UNCHANGED <<pc, stack, frame, handshake_complete, write_queue, write_in_progress>>
  BY OutsideMovesNone
<1>2. Control'
  BY <1>1 DEF Control
<1>3. ASSUME write_op' = <<>> <=> write_op = <<>>, Upgrade' <=> Upgrade, Len(write_op') <= 1,
             WriteOpType',
             read_op' = read_op \/ read_op # "none"
      PROVE  WriterInv'
  <2>1. WriteTypes'
    BY <1>1, <1>3 DEF WriterInv, WriteTypes
  <2>2. OneWriter' /\ (Token' <=> Token) /\ (Greeting' <=> Greeting)
    BY <1>1, <1>3 DEF WriterInv, OneWriter, Token, Greeting
  <2> QED
    BY <1>1, <1>3, <2>1, <2>2 DEF WriterInv
<1>4. CASE Transmit
  <2>1. PICK k \in Outbound, s \in Status : write_op = <<[kind |-> k, status |-> s]>>
    BY <1>4 DEF Transmit, WriterInv, WriteTypes, WriteOpType
  <2>2. PICK r \in {"ok", "failed"} : write_op' = [write_op EXCEPT ![1].status = r]
    BY <1>4 DEF Transmit
  <2>3. write_op' = <<[kind |-> k, status |-> r]>>
    BY <2>1, <2>2
  <2>4. r \in Status /\ read_op' = read_op
    BY <1>4 DEF Transmit, Status
  <2>5. write_op' # <<>> /\ write_op # <<>> /\ Len(write_op') <= 1
    BY <2>1, <2>3
  <2>6. Head(write_op).kind = k /\ Head(write_op').kind = k
    BY <2>1, <2>3
  <2>7. Upgrade' <=> Upgrade
    BY <2>5, <2>6 DEF Upgrade
  <2>8. WriteOpType'
    BY <2>3, <2>4 DEF WriteOpType
  <2> QED
    BY <1>2, <1>3, <2>4, <2>5, <2>7, <2>8
<1>5. CASE UNCHANGED write_op /\ (read_op' = read_op \/ read_op # "none")
  <2>1. (Upgrade' <=> Upgrade) /\ Len(write_op') <= 1 /\ (write_op' = <<>> <=> write_op = <<>>)
    BY <1>5 DEF WriterInv, OneWriter, Upgrade
  <2>2. WriteOpType'
    BY <1>5 DEF WriterInv, WriteTypes, WriteOpType
  <2> QED
    BY <1>2, <1>3, <1>5, <2>1, <2>2
<1>6. Transmit \/ (UNCHANGED write_op /\ (read_op' = read_op \/ read_op # "none"))
  BY DEF Asio, Receive, Peer, PeerSends, PeerAnswersClose, PeerHangsUp, SocketClosedExternally, Quiescent,
     vars, net
<1> QED
  BY <1>2, <1>4, <1>5, <1>6

\* At the start nobody writes.
LEMMA WriterInit == Init => Control /\ WriterInv
<1> SUFFICES ASSUME Init PROVE Control /\ WriterInv
  OBVIOUS
<1>1. PICK t \in Io :
        /\ pc = [u \in Thread |-> IF u # t THEN "idle" ELSE IF Client THEN "in_open" ELSE "handshake"]
        /\ stack = [u \in Thread |-> IF u = t /\ Client THEN <<"process_frames">> ELSE <<>>]
  BY DEF Init
<1>2. Control
  <2>1. {"idle", "in_open", "handshake"} \subseteq Labels /\ "process_frames" \in ReturnPoints
    BY DEF Labels, ReturnPoints, InHandler
  <2>2. <<"process_frames">> \in Seq(ReturnPoints) /\ <<>> \in Seq(ReturnPoints)
    BY <2>1
  <2>3. pc \in [Thread -> Labels]
    BY <1>1, <2>1
  <2>4. \A u \in Thread : stack[u] \in Seq(ReturnPoints) /\ (pc[u] \in {"idle", "handshake"} => stack[u] = <<>>)
    BY <1>1, <2>2
  <2>5. stack \in [Thread -> Seq(ReturnPoints)]
    BY <1>1, <2>4
  <2> QED
    BY <2>3, <2>4, <2>5 DEF Control
<1>3. /\ frame = [u \in Thread |-> [kind |-> "text", close_after |-> FALSE]] /\ handshake_complete = Client
      /\ write_queue = <<>> /\ write_in_progress = FALSE /\ write_op = <<>> /\ read_op = "none"
  BY DEF Init
<1>4. WriteTypes
  <2>1. [kind |-> "text", close_after |-> FALSE] \in Frames /\ <<>> \in Seq(Sendable)
    BY DEF Frames, Sendable
  <2> QED
    BY <1>3, <2>1 DEF WriteTypes, WriteOpType
<1>5. \A u \in Thread : pc[u] \notin WriteSection /\ (pc[u] = "handshake" => u = t /\ ~Client)
  BY <1>1 DEF WriteSection
<1>6. ~Token /\ ~Upgrade /\ OneWriter
  BY <1>3, <1>5 DEF Token, Upgrade, OneWriter
<1>7. Greeting => ~Client
  BY <1>5, <1>6 DEF Greeting
<1>8. \A u \in Thread : pc[u] = "handshake" => \A v \in Thread \ {u} : pc[v] = "idle"
  BY <1>1, <1>5
<1> QED
  BY <1>2, <1>3, <1>4, <1>6, <1>7, <1>8 DEF WriterInv

\* No step breaks WriterInv.
LEMMA WriterStep == Control /\ WriterInv /\ [Next]_vars => Control' /\ WriterInv'
<1> SUFFICES ASSUME Control, WriterInv, [Next]_vars PROVE Control' /\ WriterInv'
  OBVIOUS
<1>1. ASSUME NEW t \in Thread, Step(t) \/ UserStep(t) PROVE Control' /\ WriterInv'
  <2>1. Control'
    BY <1>1, OthersStay
  <2>2. CASE Quiet(t)
    BY <1>1, <2>1, <2>2, QuietKeeps
  <2>3. CASE ~Quiet(t)
    <3>1. Opening(t) \/ Enqueue(t) \/ Dequeue(t) \/ StartWrite(t) \/ OnWrite(t) \/ OnWriteError(t) \/ WriteFailed(t)
      BY <1>1, <2>3, ClosingIsQuiet, ReadingIsQuiet, UserIsQuiet, SendingIsQuiet DEF Step, Writing, Completing
    <3> QED
      BY <2>1, <3>1, OpeningWrites, EnqueueWrites, DequeueWrites, StartWriteWrites, OnWriteWrites, WriteFailedWrites
  <2> QED
    BY <2>2, <2>3
<1>2. CASE Asio \/ Peer \/ SocketClosedExternally \/ Quiescent \/ UNCHANGED vars
  BY <1>2, OutsideWrites
<1> QED
  BY <1>1, <1>2 DEF Next

(* OneWriter: frames do not mix on the wire, for any number of threads.    *)
THEOREM OneWriterHolds == Spec => []OneWriter
<1>1. WriterInv => OneWriter
  BY DEF WriterInv
<1> QED
  BY <1>1, WriterInit, WriterStep, PTL DEF Spec

(* QueueIsDrained: a frame that was queued is going to be written, or      *)
(* dropped with the connection.                                            *)
THEOREM QueueIsAlwaysDrained == Spec => []QueueIsDrained
<1>1. WriterInv => QueueIsDrained
  BY DEF WriterInv, QueueIsDrained, Token
<1> QED
  BY <1>1, WriterInit, WriterStep, PTL DEF Spec

-----------------------------------------------------------------------------
(* The right to read.                                                      *)

\* One thread reads at most, and none while a read is outstanding.
Readers ==
    /\ \A t, u \in Thread : In(ReadRole, t) /\ In(ReadRole, u) => t = u
    /\ read_op # "none" => \A t \in Thread : ~In(ReadRole, t)

ReaderInv == SoleAll(ReadRole) /\ Readers

\* ReaderInv is stronger than OneReader.
LEMMA ReadersAreOne == ReaderInv => OneReader
<1> SUFFICES ASSUME ReaderInv PROVE OneReader
  OBVIOUS
<1>1. \A t \in Thread : IsReading(t) => In(ReadRole, t)
  BY DEF IsReading, Busy, At, Contains, In, Holds
<1> QED
  BY <1>1 DEF ReaderInv, Readers, OneReader

\* Nobody reads before the upgrade request is answered.
LEMMA NobodyReadsYet ==
  ASSUME Control, WriterInv, Greeting
  PROVE  read_op = "none" /\ \A t \in Thread : ~In(ReadRole, t)
<1>1. \A t \in Thread : pc[t] \in {"idle", "handshake"}
  BY DEF WriterInv, Greeting
<1>2. \A t \in Thread : ~In(ReadRole, t)
  BY <1>1, IdleIsNowhere DEF ReadRole
<1> QED
  BY <1>2 DEF WriterInv

\* Only four steps touch the outstanding read.
LEMMA ReadOpStays ==
  ASSUME NEW t \in Thread, Step(t) \/ UserStep(t), ~OnRead(t), ~OnReadError(t), ~LockRead(t)
  PROVE  UNCHANGED read_op
<1>1. CASE Writing(t) \/ UserStep(t) \/ HandlerReturns(t)
  BY <1>1 DEF Writing, SendFrame, SendSocket, Enqueue, Dequeue, StartWrite, UserStep, AppCall, HandlerCall,
     HandlerReturns, net
<1>2. CASE Closing(t) \/ ForceClosing(t)
  BY <1>2 DEF Closing, ForceClosing, Close, CloseCode, AnswerClose, ScheduleClose, DoClose, DispatchClose,
     CloseHandlerReturns, CloseSocket, ForceClose, ForceCloseHandlers, ForceCloseClosed, ForceCloseSocket, net
<1>3. CASE Opening(t) \/ OnWrite(t) \/ OnWriteError(t) \/ WriteFailed(t)
  BY <1>3 DEF Opening, HandshakeRejected, HandshakeAccepted, HandshakeWritten, HandshakeFailed, OnWrite,
     OnWriteError, WriteFailed, net
<1>4. CASE Reading(t)
  BY <1>4 DEF Reading, StartRead, NoMoreFrames, DiscardFrames, HandleMessage, HandlePing, HandlePong,
     HandleBad, HandleClose, AfterFrame, CheckClosed, Dispatch, net
<1> QED
  BY <1>1, <1>2, <1>3, <1>4 DEF Step, Completing

\* The steps of the threads keep ReaderInv.
LEMMA ReaderThreads ==
  ASSUME Control, WriterInv, ReaderInv, NEW t \in Thread, Step(t) \/ UserStep(t)
  PROVE  ReaderInv'
<1>1. CASE OnRead(t) \/ HandshakeWritten(t)
  <2>1. Entered(ReadRole, t)
    BY <1>1, OnReadEnters, HandshakeWrittenEnters
  <2>2. \A u \in Thread : ~In(ReadRole, u)
    <3>1. CASE OnRead(t)
      BY <3>1 DEF OnRead, ReaderInv, Readers
    <3>2. CASE HandshakeWritten(t)
      <4>1. Greeting
        BY <3>2 DEF HandshakeWritten, WriteCompletes, Greeting, Upgrade
      <4> QED
        BY <4>1, NobodyReadsYet
    <3> QED
      BY <1>1, <3>1, <3>2
  <2>3. read_op' = "none"
    <3>1. CASE OnRead(t)
      BY <3>1 DEF OnRead
    <3>2. CASE HandshakeWritten(t)
      <4>1. Greeting
        BY <3>2 DEF HandshakeWritten, WriteCompletes, Greeting, Upgrade
      <4> QED
        BY <3>2, <4>1, NobodyReadsYet DEF HandshakeWritten
    <3> QED
      BY <1>1, <3>1, <3>2
  <2> QED
    BY <2>1, <2>2, <2>3 DEF Entered, ReaderInv, Readers
<1>2. CASE ~OnRead(t) /\ ~HandshakeWritten(t)
  <2>1. Turned(ReadRole, t)
    BY <1>2, DispatchCloseEnters, MovesArePlain, PlainTurns
  <2>2. SoleAll(ReadRole)' /\ \A u \in Thread : In(ReadRole, u)' => In(ReadRole, u)
    BY <2>1 DEF Turned, ReaderInv
  <2>3. CASE LockRead(t)
    <3>1. pc[t] = "lock_read" /\ Return(t)
      BY <2>3 DEF LockRead, At
    <3>2. pc[t] \in ReadRole /\ "idle" \notin ReadRole /\ pc[t] # "idle"
      BY <3>1 DEF ReadRole
    <3>3. ~In(ReadRole, t)'
      BY <3>1, <3>2, Returned DEF ReaderInv
    <3>4. In(ReadRole, t)
      BY <3>2 DEF In, Holds
    <3>5. \A u \in Thread : ~In(ReadRole, u)'
      BY <2>2, <3>3, <3>4 DEF ReaderInv, Readers
    <3> QED
      BY <2>2, <3>5 DEF ReaderInv, Readers
  <2>4. CASE OnReadError(t)
    <3>1. read_op' = "none"
      BY <2>4 DEF OnReadError
    <3> QED
      BY <2>2, <3>1 DEF ReaderInv, Readers
  <2>5. CASE ~LockRead(t) /\ ~OnReadError(t)
    <3>1. UNCHANGED read_op
      BY <1>2, <2>5, ReadOpStays
    <3> QED
      BY <2>2, <3>1 DEF ReaderInv, Readers
  <2> QED
    BY <2>3, <2>4, <2>5
<1> QED
  BY <1>1, <1>2

\* It holds at first.
LEMMA ReaderInit == Init => ReaderInv
<1> SUFFICES ASSUME Init PROVE ReaderInv
  OBVIOUS
<1>1. PICK t \in Io :
        /\ pc = [u \in Thread |-> IF u # t THEN "idle" ELSE IF Client THEN "in_open" ELSE "handshake"]
        /\ stack = [u \in Thread |-> IF u = t /\ Client THEN <<"process_frames">> ELSE <<>>]
  BY DEF Init
<1>2. read_op = "none"
  BY DEF Init
<1>3. \A u \in Thread : pc[u] \notin ReadRole /\ (u # t => pc[u] = "idle") /\ (stack[u] = <<>> \/ stack[u] = <<"process_frames">>)
  BY <1>1 DEF ReadRole
<1>4. \A u \in Thread : \A i, j \in 1..Len(stack[u]) : i = j
  <2> SUFFICES ASSUME NEW u \in Thread PROVE \A i, j \in 1..Len(stack[u]) : i = j
    OBVIOUS
  <2>1. PICK s : s = stack[u]
    OBVIOUS
  <2>2. CASE s = <<>>
    BY <2>1, <2>2
  <2>3. CASE s = <<"process_frames">>
    <3>1. Len(s) = 1
      BY <2>3
    <3> QED
      BY <2>1, <3>1
  <2> QED
    BY <1>3, <2>1, <2>2, <2>3
<1>5. SoleAll(ReadRole)
  BY <1>3, <1>4 DEF SoleAll, Sole
<1>6. Control
  BY WriterInit
<1>7. \A u \in Thread : In(ReadRole, u) => u = t
  BY <1>3, <1>6, IdleIsNowhere DEF ReadRole
<1> QED
  BY <1>2, <1>5, <1>7 DEF ReaderInv, Readers

\* And every step keeps it.
LEMMA ReaderStep == Control /\ WriterInv /\ ReaderInv /\ [Next]_vars => ReaderInv'
<1> SUFFICES ASSUME Control, WriterInv, ReaderInv, [Next]_vars PROVE ReaderInv'
  OBVIOUS
<1>1. CASE Asio \/ Peer \/ SocketClosedExternally \/ Quiescent \/ UNCHANGED vars
  <2>1. UNCHANGED <<pc, stack>>
    BY <1>1, OutsideMovesNone
  <2>2. read_op' = read_op \/ read_op # "none"
    BY <1>1 DEF Asio, Transmit, Receive, Peer, PeerSends, PeerAnswersClose, PeerHangsUp, SocketClosedExternally,
       Quiescent, vars, net
  <2> QED
    BY <2>1, <2>2 DEF ReaderInv, Readers, SoleAll, In
<1> QED
  BY <1>1, ReaderThreads DEF Next

(* OneReader: frame_buffer_ needs no lock, for any number of threads.      *)
THEOREM OneReaderHolds == Spec => []OneReader
BY WriterInit, WriterStep, ReaderInit, ReaderStep, ReadersAreOne, PTL DEF Spec

-----------------------------------------------------------------------------
(* The close handler.                                                      *)

\* Who won closed_ is on its way to the handler, which has not run; once a thread runs it,
\* it has the mutex of the handlers until it is through.
CloserInv ==
    /\ on_close \in Seq(Codes) /\ Len(on_close) <= 1 /\ close_code \in Codes
    /\ closed \in BOOLEAN /\ (~closed => on_close = <<>>)
    /\ \A t, u \in Thread : pc[t] = "lock_close_handler" /\ pc[u] = "lock_close_handler" => t = u
    /\ \A t \in Thread : pc[t] = "lock_close_handler" => closed /\ on_close = <<>>
    /\ SoleAll({"in_close"})
    /\ \A t \in Thread : In({"in_close"}, t) => on_close # <<>> /\ close_handler_mutex = t /\ handlers

\* CloserInv is stronger than both properties of the close handler.
LEMMA CloserIsExclusive == CloserInv => OnCloseOnce /\ CloseHandlerExcluded
<1> SUFFICES ASSUME CloserInv PROVE OnCloseOnce /\ CloseHandlerExcluded
  OBVIOUS
<1>1. \A t \in Thread : Busy(t, "in_close") => In({"in_close"}, t)
  BY DEF Busy, At, Contains, In, Holds
<1> QED
  BY <1>1 DEF CloserInv, OnCloseOnce, CloseHandlerExcluded

\* A step that leaves the handler and the right to run it alone.
LEMMA AsideFromClosing ==
  ASSUME Control, CloserInv, NEW t \in Thread, Turned({"in_close"}, t),
         UNCHANGED <<on_close, close_handler_mutex, handlers>>, closed' \in {closed, TRUE}, close_code' \in Codes,
         pc'[t] # "lock_close_handler"
  PROVE  CloserInv'
<1>1. \A u \in Thread : pc'[u] = "lock_close_handler" => pc[u] = "lock_close_handler"
  BY DEF Turned
<1>2. SoleAll({"in_close"})' /\ \A u \in Thread : In({"in_close"}, u)' => In({"in_close"}, u)
  BY DEF Turned, CloserInv
<1> QED
  BY <1>1, <1>2 DEF CloserInv


\* The close handler, its mutex and the handlers change in these steps only.
LEMMA HandlerStays ==
  ASSUME Control, CloserInv, NEW t \in Thread, Step(t) \/ UserStep(t),
         ~DispatchClose(t), ~CloseHandlerReturns(t), ~ForceCloseHandlers(t), ~DoClose(t)
  PROVE  /\ UNCHANGED <<on_close, close_handler_mutex, handlers>>
         /\ closed' \in {closed, TRUE} /\ close_code' \in Codes /\ pc'[t] # "lock_close_handler"
<1>0. close_code \in Codes /\ closed \in BOOLEAN
  BY DEF CloserInv
<1>1. UNCHANGED <<on_close, close_handler_mutex, handlers>> /\ closed' \in {closed, TRUE} /\ close_code' \in Codes
  <2>1. CASE Writing(t) \/ UserStep(t) \/ HandlerReturns(t)
    BY <1>0, <2>1 DEF Writing, SendFrame, SendSocket, Enqueue, Dequeue, StartWrite, UserStep, AppCall, HandlerCall,
       HandlerReturns, conn, locks
  <2>2. CASE Closing(t)
    BY <1>0, <2>2 DEF Closing, Close, CloseCode, AnswerClose, ScheduleClose, CloseSocket, conn, locks, Codes
  <2>3. CASE ForceClosing(t)
    BY <1>0, <2>3 DEF ForceClosing, ForceClose, ForceCloseClosed, ForceCloseSocket, conn, locks
  <2>4. CASE Opening(t) \/ Completing(t)
    BY <1>0, <2>4 DEF Opening, HandshakeRejected, HandshakeAccepted, HandshakeWritten, HandshakeFailed, Completing,
       OnWrite, OnWriteError, WriteFailed, OnRead, OnReadError, conn, locks
  <2>5. CASE Reading(t)
    BY <1>0, <2>5 DEF Reading, StartRead, LockRead, NoMoreFrames, DiscardFrames, HandleMessage, HandlePing,
       HandlePong, HandleBad, HandleClose, AfterFrame, CheckClosed, Dispatch, conn, locks, Codes
  <2> QED
    BY <2>1, <2>2, <2>3, <2>4, <2>5 DEF Step
<1>2. pc'[t] # "lock_close_handler"
  <2>0. "lock_close_handler" \notin ReturnPoints \cup {"idle"}
    BY DEF ReturnPoints, InHandler
  <2>1. CASE Writing(t)
    <3>1. (pc[t] # "idle" /\ Return(t)) \/ \E l \in {"send_socket", "enqueue", "do_close", "dequeue", "start_write", "schedule_close"} : Goto(t, l)
      BY <2>1 DEF Writing, SendFrame, SendSocket, Enqueue, Dequeue, StartWrite, At
    <3> QED
      BY <2>0, <3>1, ReturnGoesOn, GotoGoes
  <2>2. CASE UserStep(t) \/ HandlerReturns(t)
    <3>1. \A op \in Ops \cup HandlerOps : Entry(op) \in {"send_frame", "close", "force_close"}
      BY CallsAssumption DEF Entry, Call
    <3>2. \/ pc[t] # "idle" /\ Return(t)
          \/ \E op \in Ops \cup HandlerOps : Goto(t, Entry(op)) \/ CallThen(t, Entry(op), pc[t])
      BY <2>2 DEF UserStep, AppCall, HandlerCall, HandlerReturns, InHandler
    <3> QED
      BY <2>0, <3>1, <3>2, ReturnGoesOn, GotoGoes, CallGoes
  <2>3. CASE Closing(t) \/ ForceClosing(t)
    <3>1. \/ pc[t] # "idle" /\ Return(t)
          \/ \E l \in {"close_code", "send_frame", "do_close", "fc_handlers", "fc_socket"} : Goto(t, l)
      BY <2>3 DEF Closing, Close, CloseCode, AnswerClose, ScheduleClose, CloseSocket, ForceClosing, ForceClose,
         ForceCloseClosed, ForceCloseSocket, At
    <3> QED
      BY <2>0, <3>1, ReturnGoesOn, GotoGoes
  <2>4. CASE Opening(t) \/ Completing(t)
    <3>1. \/ pc[t] # "idle" /\ Return(t)
          \/ \E l \in {"do_close", "dequeue", "write_failed", "close", "process_frames"} : Goto(t, l)
          \/ \E l \in {"in_open", "in_error", "error"}, r \in ReturnPoints : CallThen(t, l, r)
      BY <2>4 DEF Opening, HandshakeRejected, HandshakeAccepted, HandshakeWritten, HandshakeFailed, Completing,
         OnWrite, OnWriteError, WriteFailed, OnRead, OnReadError, At, ReturnPoints
    <3> QED
      BY <2>0, <3>1, ReturnGoesOn, GotoGoes, CallGoes
  <2>5. CASE Reading(t)
    <3>1. \/ pc[t] # "idle" /\ Return(t)
          \/ \E l \in Labels \ {"lock_close_handler"} : Goto(t, l)
          \/ \E l \in Labels \ {"lock_close_handler"}, r \in ReturnPoints : CallThen(t, l, r)
      BY <2>5 DEF Reading, StartRead, LockRead, NoMoreFrames, DiscardFrames, HandleMessage, HandlePing, HandlePong,
         HandleBad, HandleClose, AfterFrame, CheckClosed, Dispatch, NextFrame, Labels, ReturnPoints, InHandler, At
    <3> QED
      BY <2>0, <3>1, ReturnGoesOn, GotoGoes, CallGoes
  <2> QED
    BY <2>1, <2>2, <2>3, <2>4, <2>5 DEF Step
<1> QED
  BY <1>1, <1>2

\* The steps of the threads keep CloserInv.
LEMMA CloserThreads ==
  ASSUME Control, CloserInv, NEW t \in Thread, Step(t) \/ UserStep(t)
  PROVE  CloserInv'
<1>0. ~DispatchClose(t) => Turned({"in_close"}, t)
  BY MovesArePlain, PlainTurns, OnReadEnters, HandshakeWrittenEnters
<1>1. CASE DispatchClose(t)
  <2>1. /\ pc[t] = "lock_close_handler" /\ UNCHANGED <<closed, close_code, handlers>>
        /\ IF handlers
           THEN on_close' = Append(on_close, close_code) /\ close_handler_mutex' = t /\ Goto(t, "in_close")
           ELSE UNCHANGED <<on_close, close_handler_mutex>> /\ Goto(t, "close_socket")
    BY <1>1 DEF DispatchClose, At, conn
  <2>2. closed /\ on_close = <<>> /\ \A u \in Thread : ~In({"in_close"}, u)
    BY <2>1 DEF CloserInv
  <2>3. Entered({"in_close"}, t)
    BY <1>1, <2>2, DispatchCloseEnters
  <2>4. pc'[t] \in {"in_close", "close_socket"} /\ (~handlers => pc'[t] = "close_socket" /\ stack' = stack)
    BY <2>1, GotoGoes DEF Goto
  <2>5. \A u \in Thread : pc'[u] # "lock_close_handler"
    BY <2>1, <2>3, <2>4 DEF Entered, CloserInv
  <2>6. SoleAll({"in_close"})' /\ \A u \in Thread \ {t} : ~In({"in_close"}, u)'
    BY <2>2, <2>3 DEF Entered, CloserInv
  <2>7. CASE handlers
    <3>1. on_close' = <<close_code>> /\ close_code \in Codes
      BY <2>1, <2>2, <2>7 DEF CloserInv
    <3>2. on_close' \in Seq(Codes) /\ Len(on_close') = 1 /\ on_close' # <<>>
      BY <3>1
    <3> QED
      BY <2>1, <2>2, <2>5, <2>6, <2>7, <3>2 DEF CloserInv
  <2>8. CASE ~handlers
    <3>1. ~In({"in_close"}, t)'
      BY <2>2, <2>4, <2>8 DEF In, Holds
    <3> QED
      BY <2>1, <2>2, <2>5, <2>6, <2>8, <3>1 DEF CloserInv
  <2> QED
    BY <2>7, <2>8
<1>2. CASE CloseHandlerReturns(t)
  <2>1. /\ pc[t] = "in_close" /\ Goto(t, "close_socket") /\ UNCHANGED <<closed, close_code, handlers, on_close>>
        /\ ~DispatchClose(t)
    BY <1>2 DEF CloseHandlerReturns, DispatchClose, At, conn
  <2>2. Turned({"in_close"}, t) /\ pc'[t] = "close_socket" /\ stack' = stack
    BY <1>0, <2>1, GotoGoes DEF Goto
  <2>3. \A i \in 1..Len(stack[t]) : stack[t][i] # "in_close"
    BY <2>1 DEF CloserInv, SoleAll, Sole
  <2>4. ~In({"in_close"}, t)'
    BY <2>2, <2>3 DEF In, Holds
  <2>5. In({"in_close"}, t)
    BY <2>1 DEF In, Holds
  <2>6. \A u \in Thread : ~In({"in_close"}, u)'
    BY <2>2, <2>4, <2>5 DEF Turned, CloserInv
  <2>7. \A u \in Thread : pc'[u] = "lock_close_handler" => pc[u] = "lock_close_handler"
    BY <2>2 DEF Turned
  <2> QED
    BY <2>1, <2>2, <2>6, <2>7 DEF CloserInv, Turned
<1>3. CASE ForceCloseHandlers(t)
  <2>1. /\ pc[t] = "fc_handlers" /\ Goto(t, "fc_closed") /\ close_handler_mutex = NoThread
        /\ UNCHANGED <<closed, close_code, on_close, close_handler_mutex>> /\ ~DispatchClose(t)
    BY <1>3 DEF ForceCloseHandlers, DispatchClose, At, Free, locks
  <2>2. \A u \in Thread : ~In({"in_close"}, u)
    BY <2>1, ThreadsAssumption DEF CloserInv
  <2>3. Turned({"in_close"}, t) /\ pc'[t] = "fc_closed"
    BY <1>0, <2>1, GotoGoes
  <2>4. \A u \in Thread : ~In({"in_close"}, u)' /\ (pc'[u] = "lock_close_handler" => pc[u] = "lock_close_handler")
    BY <2>2, <2>3 DEF Turned, CloserInv
  <2> QED
    BY <2>1, <2>3, <2>4 DEF CloserInv, Turned
<1>4. CASE DoClose(t)
  <2>1. /\ pc[t] = "do_close" /\ closed' = TRUE /\ ~DispatchClose(t)
        /\ UNCHANGED <<close_code, on_close, close_handler_mutex, handlers>>
        /\ IF closed THEN Return(t) ELSE Goto(t, "lock_close_handler")
    BY <1>4 DEF DoClose, DispatchClose, At
  <2>2. Turned({"in_close"}, t)
    BY <1>0, <2>1
  <2>3. CASE closed
    <3>1. pc'[t] \in ReturnPoints \cup {"idle"}
      BY <2>1, <2>3, ReturnGoesOn
    <3>2. pc'[t] # "lock_close_handler"
      BY <3>1 DEF ReturnPoints, InHandler
    <3> QED
      BY <2>1, <2>2, <3>2, AsideFromClosing DEF CloserInv
  <2>4. CASE ~closed
    <3>1. on_close = <<>> /\ \A u \in Thread : pc[u] # "lock_close_handler"
      BY <2>4 DEF CloserInv
    <3>2. \A u \in Thread : pc'[u] = "lock_close_handler" => u = t
      BY <2>2, <3>1 DEF Turned
    <3>3. SoleAll({"in_close"})' /\ \A u \in Thread : In({"in_close"}, u)' => In({"in_close"}, u)
      BY <2>2 DEF Turned, CloserInv
    <3> QED
      BY <2>1, <3>1, <3>2, <3>3 DEF CloserInv
  <2> QED
    BY <2>3, <2>4
<1>5. CASE ~DispatchClose(t) /\ ~CloseHandlerReturns(t) /\ ~ForceCloseHandlers(t) /\ ~DoClose(t)
  BY <1>0, <1>5, HandlerStays, AsideFromClosing
<1> QED
  BY <1>1, <1>2, <1>3, <1>4, <1>5

\* It holds at first.
LEMMA CloserInit == Init => CloserInv
<1> SUFFICES ASSUME Init PROVE CloserInv
  OBVIOUS
<1>1. PICK t \in Io :
        /\ pc = [u \in Thread |-> IF u # t THEN "idle" ELSE IF Client THEN "in_open" ELSE "handshake"]
        /\ stack = [u \in Thread |-> IF u = t /\ Client THEN <<"process_frames">> ELSE <<>>]
  BY DEF Init
<1>2. on_close = <<>> /\ close_code = "normal" /\ closed = FALSE
  BY DEF Init
<1>3. \A u \in Thread : /\ pc[u] \notin {"in_close", "lock_close_handler"}
                        /\ stack[u] = <<>> \/ stack[u] = <<"process_frames">>
  BY <1>1
<1>4. \A u \in Thread : \A i \in 1..Len(stack[u]) : stack[u][i] # "in_close"
  BY <1>3
<1>5. \A u \in Thread : ~In({"in_close"}, u) /\ Sole({"in_close"}, pc[u], stack[u])
  BY <1>3, <1>4 DEF In, Holds, Sole
<1>6. on_close \in Seq(Codes) /\ Len(on_close) <= 1 /\ close_code \in Codes
  BY <1>2 DEF Codes
<1> QED
  BY <1>2, <1>3, <1>5, <1>6 DEF CloserInv, SoleAll

\* And every step keeps it.
LEMMA CloserStep == Control /\ CloserInv /\ [Next]_vars => CloserInv'
<1> SUFFICES ASSUME Control, CloserInv, [Next]_vars PROVE CloserInv'
  OBVIOUS
<1>1. CASE Asio \/ Peer \/ SocketClosedExternally \/ Quiescent \/ UNCHANGED vars
  <2>1. UNCHANGED <<pc, stack, on_close, closed, close_code, close_handler_mutex, handlers>>
    BY <1>1, OutsideMovesNone DEF locks
  <2> QED
    BY <2>1 DEF CloserInv, SoleAll, In
<1> QED
  BY <1>1, CloserThreads DEF Next

(* OnCloseOnce: on_close is reported once at most.                         *)
THEOREM OnCloseAtMostOnce == Spec => []OnCloseOnce
<1>1. CloserInv => OnCloseOnce
  BY CloserIsExclusive
<1> QED
  BY <1>1, WriterInit, WriterStep, CloserInit, CloserStep, PTL DEF Spec

(* CloseHandlerExcluded: force_close() and the close handler exclude each  *)
(* other.                                                                  *)
THEOREM CloseHandlerIsExcluded == Spec => []CloseHandlerExcluded
<1>1. CloserInv => CloseHandlerExcluded
  BY CloserIsExclusive
<1> QED
  BY <1>1, WriterInit, WriterStep, CloserInit, CloserStep, PTL DEF Spec

-----------------------------------------------------------------------------
(* The Close frame.                                                        *)

\* A thread has the Close frame in its hands: it won is_closing and has not queued the
\* frame yet, or it has taken the frame out of the queue and has not started the write.
Carrying(t) ==
    \/ pc[t] = "close_code"
    \/ pc[t] \in {"send_frame", "send_socket", "enqueue", "start_write"} /\ frame[t].kind = "close"

\* The Close frame is being written.
OnWire == write_op # <<>> /\ Head(write_op).kind = "close" /\ Head(write_op).status = "pending"

\* The Close frame is in one of four places, and only after is_closing was set.
CloseInv ==
    /\ is_closing \in BOOLEAN /\ tx \in Seq(Outbound \cup {"fin"}) /\ write_queue \in Seq(Sendable)
    /\ CloseOnce(write_queue) /\ CloseOnce(tx)
    /\ \A t, u \in Thread : Carrying(t) /\ Carrying(u) => t = u
    /\ \A t \in Thread : Carrying(t) =>
           is_closing /\ ~Contains(write_queue, "close") /\ ~OnWire /\ ~Contains(tx, "close")
    /\ Contains(write_queue, "close") => is_closing /\ ~OnWire /\ ~Contains(tx, "close")
    /\ OnWire => is_closing /\ ~Contains(tx, "close")
    /\ Contains(tx, "close") => is_closing

\* Is there a Close among the frames of a sequence?
HasClose(s) == \E i \in 1..Len(s) : s[i] = "close"

\* The frames of a sequence, one more at its end.
LEMMA CloseAppended ==
  ASSUME NEW S, NEW s \in Seq(S), NEW x \in S, NEW z, z = Append(s, x), HasClose(z), x # "close"
  PROVE  HasClose(s)
<1>1. /\ z \in Seq(S) /\ Len(s) \in Nat /\ Len(z) = Len(s) + 1 /\ z[Len(s) + 1] = x
      /\ \A i \in 1..Len(s) : z[i] = s[i]
  BY AppendProperties, LenProperties
<1>2. \A i \in 1..Len(z) : i \in 1..Len(s) \/ i = Len(s) + 1
  BY <1>1
<1> QED
  BY <1>1, <1>2 DEF HasClose

\* There is one Close in it at most, when there was none before the new one.
LEMMA OnceAppended ==
  ASSUME NEW S, NEW s \in Seq(S), NEW x \in S, NEW z, z = Append(s, x), CloseOnce(s),
         x = "close" => ~Contains(s, "close")
  PROVE  CloseOnce(z)
<1>1. /\ Len(s) \in Nat /\ Len(z) = Len(s) + 1 /\ z[Len(s) + 1] = x
      /\ \A i \in 1..Len(s) : z[i] = s[i]
  BY AppendProperties, LenProperties
<1>2. \A i \in 1..Len(z) : i \in 1..Len(s) \/ i = Len(s) + 1
  BY <1>1
<1>3. ASSUME NEW i \in 1..Len(z), NEW j \in 1..Len(z), z[i] = "close", z[j] = "close"
      PROVE  i = j
  <2>1. CASE x # "close"
    <3>1. i \in 1..Len(s) /\ j \in 1..Len(s)
      BY <1>1, <1>2, <1>3, <2>1
    <3> QED
      BY <1>1, <1>3, <3>1 DEF CloseOnce
  <2>2. CASE ~Contains(s, "close")
    <3>1. i \notin 1..Len(s) /\ j \notin 1..Len(s)
      BY <1>1, <1>3, <2>2 DEF Contains
    <3> QED
      BY <1>2, <3>1
  <2> QED
    BY <2>1, <2>2
<1> QED
  BY <1>3 DEF CloseOnce

\* One frame less at its head.
LEMMA CloseTaken ==
  ASSUME NEW S, NEW s \in Seq(S), s # <<>>, NEW z, z = Tail(s)
  PROVE  /\ z \in Seq(S) /\ Head(s) \in S /\ (Contains(z, "close") => Contains(s, "close"))
         /\ (Head(s) = "close" => Contains(s, "close"))
         /\ (CloseOnce(s) => CloseOnce(z) /\ (Head(s) = "close" => ~Contains(z, "close")))
<1>1. /\ Head(s) \in S /\ z \in Seq(S) /\ Len(z) = Len(s) - 1 /\ Head(s) = s[1]
      /\ \A i \in 1..Len(z) : z[i] = s[i + 1]
  BY HeadTailProperties
<1>2. Len(s) \in Nat /\ Len(s) # 0
  BY EmptySeq, LenProperties
<1>3. 1 \in 1..Len(s) /\ \A i \in 1..Len(z) : i + 1 \in 1..Len(s) /\ i + 1 # 1
  BY <1>1, <1>2
<1>4. Contains(z, "close") => Contains(s, "close")
  BY <1>1, <1>3 DEF Contains
<1>5. Head(s) = "close" => Contains(s, "close")
  BY <1>1, <1>3 DEF Contains
<1>6. CloseOnce(s) => CloseOnce(z)
  <2> SUFFICES ASSUME CloseOnce(s), NEW i \in 1..Len(z), NEW j \in 1..Len(z), z[i] = "close", z[j] = "close"
               PROVE  i = j
    BY DEF CloseOnce
  <2>1. s[i + 1] = "close" /\ s[j + 1] = "close" /\ i + 1 \in 1..Len(s) /\ j + 1 \in 1..Len(s)
    BY <1>1, <1>3
  <2>2. i + 1 = j + 1
    BY <2>1 DEF CloseOnce
  <2> QED
    BY <2>2
<1>7. CloseOnce(s) /\ Head(s) = "close" => ~Contains(z, "close")
  <2> SUFFICES ASSUME CloseOnce(s), Head(s) = "close", NEW i \in 1..Len(z), z[i] = "close" PROVE FALSE
    BY DEF Contains
  <2>1. s[i + 1] = "close" /\ s[1] = "close" /\ i + 1 \in 1..Len(s)
    BY <1>1, <1>3
  <2> QED
    BY <1>3, <2>1 DEF CloseOnce
<1> QED
  BY <1>1, <1>4, <1>5, <1>6, <1>7

\* The sequence without frames, and the stream cut off.
LEMMA NoCloseLeft ==
  ASSUME NEW s, s = <<>> \/ s = <<"fin">>
  PROVE  /\ ~Contains(s, "close") /\ CloseOnce(s) /\ s \in Seq(Outbound \cup {"fin"})
         /\ (s = <<>> => s \in Seq(Sendable))
<1>1. CASE s = <<>>
  BY <1>1 DEF Contains, CloseOnce
<1>2. CASE s = <<"fin">>
  <2>1. Len(s) = 1 /\ s[1] = "fin" /\ s \in Seq(Outbound \cup {"fin"}) /\ s # <<>>
    BY <1>2
  <2> QED
    BY <2>1 DEF Contains, CloseOnce
<1> QED
  BY <1>1, <1>2

\* The sending side ends, or is cut off: no Close appears in the stream.
Ended == tx' \in {tx, Append(tx, "fin"), <<"fin">>}

\* The end of the stream adds no Close to it.
LEMMA EndedKeeps ==
  ASSUME CloseInv, Ended
  PROVE  tx' \in Seq(Outbound \cup {"fin"}) /\ CloseOnce(tx)' /\ (Contains(tx, "close")' => Contains(tx, "close"))
<1>0. tx \in Seq(Outbound \cup {"fin"}) /\ CloseOnce(tx)
  BY DEF CloseInv
<1>1. PICK z : z = tx'
  OBVIOUS
<1>2. z \in Seq(Outbound \cup {"fin"}) /\ CloseOnce(z) /\ (Contains(z, "close") => Contains(tx, "close"))
  <2>1. CASE z = tx
    BY <1>0, <2>1
  <2>2. CASE z = Append(tx, "fin")
    <3>1. PICK S, x : S = Outbound \cup {"fin"} /\ x = "fin"
      OBVIOUS
    <3>2. x \in S /\ x # "close" /\ tx \in Seq(S) /\ z = Append(tx, x)
      BY <1>0, <2>2, <3>1
    <3>3. PICK s : s = tx
      OBVIOUS
    <3>4. s \in Seq(S) /\ z = Append(s, x)
      BY <3>2, <3>3
    <3>5. z \in Seq(S)
      BY <3>2, <3>4, AppendProperties
    <3>6. Contains(z, "close") => Contains(s, "close")
      <4> SUFFICES ASSUME Contains(z, "close") PROVE Contains(s, "close")
        OBVIOUS
      <4>1. HasClose(z)
        BY DEF HasClose, Contains
      <4>2. HasClose(s)
        BY <3>2, <3>4, <4>1, CloseAppended
      <4> QED
        BY <4>2 DEF HasClose, Contains
    <3>7. CloseOnce(s)
      BY <1>0, <3>3
    <3>8. CloseOnce(z)
      BY <3>2, <3>4, <3>7, OnceAppended
    <3> QED
      BY <3>1, <3>3, <3>5, <3>6, <3>8
  <2>3. CASE z = <<"fin">>
    BY <2>3, NoCloseLeft
  <2> QED
    BY <1>1, <2>1, <2>2, <2>3 DEF Ended
<1> QED
  BY <1>1, <1>2 DEF CloseOnce, Contains

\* A step that brings no Close frame to another place.
LEMMA AsideFromClose ==
  ASSUME CloseInv, \A u \in Thread : Carrying(u)' => Carrying(u), is_closing' \in {is_closing, TRUE},
         write_queue' \in {write_queue, <<>>}, OnWire' => OnWire, Ended
  PROVE  CloseInv'
<1>1. tx' \in Seq(Outbound \cup {"fin"}) /\ CloseOnce(tx)' /\ (Contains(tx, "close")' => Contains(tx, "close"))
  BY EndedKeeps
<1>2. /\ write_queue' \in Seq(Sendable) /\ CloseOnce(write_queue)'
      /\ Contains(write_queue, "close")' => Contains(write_queue, "close")
  <2>1. CASE write_queue' = write_queue
    BY <2>1 DEF CloseInv, CloseOnce, Contains
  <2>2. CASE write_queue' = <<>>
    <3>1. PICK z : z = write_queue'
      OBVIOUS
    <3>2. z \in Seq(Sendable) /\ CloseOnce(z) /\ ~Contains(z, "close")
      BY <2>2, <3>1, NoCloseLeft
    <3> QED
      BY <3>1, <3>2 DEF CloseOnce, Contains
  <2> QED
    BY <2>1, <2>2
<1> QED
  BY <1>1, <1>2 DEF CloseInv

\* Where a thread may have the Close frame in its hands.
Carry == {"close_code", "send_frame", "send_socket", "enqueue", "start_write"}

\* A thread leaves the frames of the others alone.
LEMMA FramesOfOthers ==
  ASSUME WriterInv, NEW t \in Thread, Step(t) \/ UserStep(t)
  PROVE  \A u \in Thread \ {t} : frame'[u] = frame[u]
<1>0. frame \in [Thread -> Frames]
  BY DEF WriterInv, WriteTypes
<1>1. CASE Writing(t)
  BY <1>0, <1>1 DEF Writing, SendFrame, SendSocket, Enqueue, Dequeue, StartWrite
<1>2. CASE Closing(t) \/ ForceClosing(t)
  BY <1>0, <1>2 DEF Closing, ForceClosing, Close, CloseCode, AnswerClose, ScheduleClose, DoClose, DispatchClose,
     CloseHandlerReturns, CloseSocket, ForceClose, ForceCloseHandlers, ForceCloseClosed, ForceCloseSocket
<1>3. CASE Opening(t) \/ Completing(t)
  BY <1>0, <1>3 DEF Opening, HandshakeRejected, HandshakeAccepted, HandshakeWritten, HandshakeFailed, Completing,
     OnWrite, OnWriteError, WriteFailed, OnRead, OnReadError
<1>4. CASE Reading(t)
  BY <1>0, <1>4 DEF Reading, StartRead, LockRead, NoMoreFrames, DiscardFrames, HandleMessage, HandlePing,
     HandlePong, HandleBad, HandleClose, AfterFrame, CheckClosed, Dispatch
<1>5. CASE UserStep(t) \/ HandlerReturns(t)
  BY <1>0, <1>5 DEF UserStep, AppCall, HandlerCall, HandlerReturns
<1> QED
  BY <1>1, <1>2, <1>3, <1>4, <1>5 DEF Step

\* The steps that create a Close frame, queue it, take it or start to write it.
Passing(t) == Close(t) \/ AnswerClose(t) \/ Enqueue(t) \/ Dequeue(t) \/ StartWrite(t)

\* No other step of a thread puts a Close frame in its hands.
LEMMA NoneCreated ==
  ASSUME Control, WriterInv, NEW t \in Thread, Step(t) \/ UserStep(t), ~Passing(t)
  PROVE  Carrying(t)' => Carrying(t)
<1>0. frame \in [Thread -> Frames] /\ (pc'[t] \notin Carry => ~Carrying(t)') /\ (ReturnPoints \cup {"idle"}) \cap Carry = {}
  BY DEF WriterInv, WriteTypes, Carry, Carrying, ReturnPoints, InHandler
<1>1. CASE SendFrame(t) \/ SendSocket(t)
  <2>1. /\ pc[t] \in {"send_frame", "send_socket"} /\ frame' = frame
        /\ Return(t) \/ \E l \in {"send_socket", "enqueue", "do_close"} : Goto(t, l)
    BY <1>1 DEF SendFrame, SendSocket, At
  <2>2. pc'[t] \in ReturnPoints \cup {"idle", "send_socket", "enqueue", "do_close"}
    BY <2>1, ReturnGoesOn, GotoGoes
  <2> QED
    BY <2>1, <2>2 DEF Carrying, ReturnPoints, InHandler
<1>2. CASE CloseCode(t)
  BY <1>2 DEF CloseCode, At, Carrying
<1>3. CASE HandlePing(t)
  <2>1. frame'[t].kind = "pong" /\ pc'[t] = "send_frame"
    BY <1>0, <1>3, CallGoes DEF HandlePing
  <2> QED
    BY <2>1 DEF Carrying
<1>4. CASE UserStep(t)
  <2>1. PICK op \in Ops \cup HandlerOps :
          /\ Goto(t, Entry(op)) \/ CallThen(t, Entry(op), pc[t])
          /\ frame' = [frame EXCEPT ![t] = Argument(op)]
    BY <1>4 DEF UserStep, AppCall, HandlerCall
  <2>2. frame'[t].kind = (IF op = "text" THEN "text" ELSE "close") /\ pc'[t] = Entry(op)
    BY <1>0, <2>1, GotoGoes, CallGoes DEF Argument
  <2>3. op \in {"text", "close", "force_close"}
    BY CallsAssumption DEF Call
  <2> QED
    BY <2>2, <2>3 DEF Carrying, Entry
<1>5. CASE ~SendFrame(t) /\ ~SendSocket(t) /\ ~CloseCode(t) /\ ~HandlePing(t) /\ ~UserStep(t)
  <2>1. \/ pc[t] # "idle" /\ Return(t)
        \/ \E l \in Labels \ Carry : Goto(t, l)
        \/ \E l \in Labels \ Carry, r \in ReturnPoints : CallThen(t, l, r)
    <3>1. CASE Closing(t) \/ ForceClosing(t)
      BY <1>5, <3>1 DEF Passing, Closing, ForceClosing, ScheduleClose, DoClose, DispatchClose,
         CloseHandlerReturns, CloseSocket, ForceClose, ForceCloseHandlers, ForceCloseClosed, ForceCloseSocket,
         At, Labels, Carry, ReturnPoints, InHandler
    <3>2. CASE Opening(t) \/ Completing(t)
      BY <3>2 DEF Opening, HandshakeRejected, HandshakeAccepted, HandshakeWritten, HandshakeFailed, Completing,
         OnWrite, OnWriteError, WriteFailed, OnRead, OnReadError, At, Labels, Carry, ReturnPoints, InHandler
    <3>3. CASE Reading(t)
      BY <1>5, <3>3 DEF Reading, StartRead, LockRead, NoMoreFrames, DiscardFrames, HandleMessage, HandlePong,
         HandleBad, HandleClose, AfterFrame, CheckClosed, Dispatch, NextFrame, At, Labels, Carry, ReturnPoints,
         InHandler
    <3>4. CASE HandlerReturns(t)
      BY <3>4 DEF HandlerReturns, InHandler
    <3> QED
      BY <1>5, <3>1, <3>2, <3>3, <3>4 DEF Step, Writing, Passing
  <2>2. pc'[t] \notin Carry
    BY <1>0, <2>1, ReturnGoesOn, GotoGoes, CallGoes
  <2> QED
    BY <1>0, <2>2
<1> QED
  BY <1>1, <1>2, <1>3, <1>4, <1>5

\* They leave the frames that are queued, written or sent as they are, or drop them.
LEMMA NonePassed ==
  ASSUME Control, WriterInv, CloseInv, NEW t \in Thread, Step(t) \/ UserStep(t), ~Passing(t)
  PROVE  /\ is_closing' \in {is_closing, TRUE} /\ write_queue' \in {write_queue, <<>>} /\ Ended
         /\ OnWire' => OnWire
<1>1. CASE SendFrame(t) \/ SendSocket(t) \/ Reading(t) \/ UserStep(t) \/ HandlerReturns(t)
  <2>1. UNCHANGED <<is_closing, write_queue, write_op, tx>>
    BY <1>1 DEF SendFrame, SendSocket, Reading, StartRead, LockRead, NoMoreFrames, DiscardFrames, HandleMessage,
       HandlePing, HandlePong, HandleBad, HandleClose, AfterFrame, CheckClosed, Dispatch, UserStep, AppCall,
       HandlerCall, HandlerReturns, conn, out, net
  <2> QED
    BY <2>1 DEF Ended, OnWire
<1>2. CASE Closing(t) \/ ForceClosing(t)
  <2>1. UNCHANGED <<write_queue, write_op>> /\ is_closing' \in {is_closing, TRUE}
    BY <1>2 DEF Closing, ForceClosing, Close, CloseCode, AnswerClose, ScheduleClose, DoClose, DispatchClose,
       CloseHandlerReturns, CloseSocket, ForceClose, ForceCloseHandlers, ForceCloseClosed, ForceCloseSocket,
       conn, out, net
  <2>2. Ended
    BY <1>2 DEF Closing, ForceClosing, Close, CloseCode, AnswerClose, ScheduleClose, DoClose, DispatchClose,
       CloseHandlerReturns, CloseSocket, ForceClose, ForceCloseHandlers, ForceCloseClosed, ForceCloseSocket,
       net, HangUp, Ended
  <2> QED
    BY <2>1, <2>2 DEF OnWire
<1>3. CASE Opening(t) \/ Completing(t)
  <2>1. is_closing' \in {is_closing, TRUE} /\ write_queue' \in {write_queue, <<>>} /\ UNCHANGED tx
    BY <1>3 DEF Opening, HandshakeRejected, HandshakeAccepted, HandshakeWritten, HandshakeFailed, Completing,
       OnWrite, OnWriteError, WriteFailed, OnRead, OnReadError, conn, out, net
  <2>2. OnWire' => OnWire
    <3>1. CASE HandshakeAccepted(t)
      <4>1. write_op = <<>> /\ (write_op' = write_op \/ write_op' = Append(write_op, [kind |-> "101", status |-> "pending"]))
        BY <3>1 DEF HandshakeAccepted, At, WriterInv
      <4>2. write_op' = <<>> \/ write_op' = <<[kind |-> "101", status |-> "pending"]>>
        BY <4>1
      <4>3. CASE write_op' = <<[kind |-> "101", status |-> "pending"]>>
        <5>1. Head(write_op').kind = "101"
          BY <4>3
        <5> QED
          BY <5>1 DEF OnWire
      <4> QED
        BY <4>2, <4>3 DEF OnWire
    <3>2. CASE HandshakeWritten(t) \/ HandshakeFailed(t) \/ OnWrite(t) \/ OnWriteError(t)
      <4>1. PICK kinds, status : WriteCompletes(t, kinds, status)
        BY <3>2 DEF HandshakeWritten, HandshakeFailed, OnWrite, OnWriteError
      <4>2. write_op' = <<>>
        BY <4>1, Completed
      <4> QED
        BY <4>2 DEF OnWire
    <3>3. CASE HandshakeRejected(t) \/ WriteFailed(t) \/ OnRead(t) \/ OnReadError(t)
      BY <3>3 DEF HandshakeRejected, WriteFailed, OnRead, OnReadError, net, OnWire
    <3> QED
      BY <1>3, <3>1, <3>2, <3>3 DEF Opening, Completing
  <2> QED
    BY <2>1, <2>2 DEF Ended
<1> QED
  BY <1>1, <1>2, <1>3 DEF Step, Writing, Passing

\* The flag is taken by a thread that is alone with the frame it creates.
LEMMA CloseIsTaken ==
  ASSUME Control, WriterInv, CloseInv, NEW t \in Thread, Close(t) \/ AnswerClose(t)
  PROVE  CloseInv'
<1>0. /\ pc[t] \in {"close", "answer_close"} /\ is_closing' = TRUE /\ UNCHANGED <<write_queue, write_op, tx>>
  BY DEF Close, AnswerClose, At, conn, out, net
<1>1. \A u \in Thread \ {t} : pc'[u] = pc[u] /\ frame'[u] = frame[u]
  BY OthersStay, FramesOfOthers DEF Step, Closing
<1>2. CASE is_closing
  <2>1. Return(t) \/ Goto(t, "do_close")
    BY <1>2 DEF Close, AnswerClose
  <2>2. pc'[t] \in ReturnPoints \cup {"idle", "do_close"}
    BY <1>0, <2>1, ReturnGoesOn, GotoGoes
  <2>3. ~Carrying(t)'
    BY <2>2 DEF Carrying, ReturnPoints, InHandler
  <2>4. \A u \in Thread : Carrying(u)' => Carrying(u)
    BY <1>1, <2>3 DEF Carrying
  <2> QED
    BY <1>0, <2>4, AsideFromClose DEF Ended, OnWire
<1>3. CASE ~is_closing
  <2>1. /\ ~OnWire /\ ~Contains(write_queue, "close") /\ ~Contains(tx, "close")
        /\ \A u \in Thread : ~Carrying(u)
    BY <1>3 DEF CloseInv
  <2>2. \A u \in Thread : Carrying(u)' => u = t
    BY <1>1, <2>1 DEF Carrying
  <2>3. ~OnWire' /\ ~Contains(write_queue, "close")' /\ ~Contains(tx, "close")'
    BY <1>0, <2>1 DEF OnWire, Contains
  <2>4. CloseOnce(write_queue)' /\ CloseOnce(tx)'
    BY <1>0 DEF CloseInv, CloseOnce
  <2> QED
    BY <1>0, <2>2, <2>3, <2>4 DEF CloseInv
<1> QED
  BY <1>2, <1>3

\* The frame goes from the hands of a thread into the queue.
LEMMA CloseIsQueued ==
  ASSUME Control, WriterInv, CloseInv, NEW t \in Thread, Enqueue(t)
  PROVE  CloseInv'
<1>0. /\ pc[t] = "enqueue" /\ UNCHANGED <<is_closing, write_op, tx>>
      /\ Return(t) \/ Goto(t, "dequeue")
  BY DEF Enqueue, At, conn, out, net
<1>1. \A u \in Thread \ {t} : pc'[u] = pc[u] /\ frame'[u] = frame[u]
  BY OthersStay, FramesOfOthers DEF Step, Writing
<1>2. ~Carrying(t)'
  <2>1. pc'[t] \in ReturnPoints \cup {"idle", "dequeue"}
    BY <1>0, ReturnGoesOn, GotoGoes
  <2> QED
    BY <2>1 DEF Carrying, ReturnPoints, InHandler
<1>3. \A u \in Thread : Carrying(u)' => u # t /\ Carrying(u)
  BY <1>1, <1>2 DEF Carrying
<1>4. PICK s, x, z : s = write_queue /\ x = frame[t].kind /\ z = write_queue'
  OBVIOUS
<1>5. s \in Seq(Sendable) /\ x \in Sendable /\ z = Append(s, x)
  BY <1>4 DEF Enqueue, WriterInv, WriteTypes, Frames
<1>6. z \in Seq(Sendable) /\ (Contains(z, "close") => x = "close" \/ Contains(s, "close"))
  <2>1. z \in Seq(Sendable)
    BY <1>5, AppendProperties
  <2>2. ASSUME Contains(z, "close"), x # "close" PROVE Contains(s, "close")
    <3>1. HasClose(z)
      BY <2>2 DEF HasClose, Contains
    <3>2. HasClose(s)
      BY <1>5, <2>2, <3>1, CloseAppended
    <3> QED
      BY <3>2 DEF HasClose, Contains
  <2> QED
    BY <2>1, <2>2
<1>7. x = "close" => Carrying(t)
  BY <1>0, <1>4 DEF Carrying
<1>8. CloseOnce(s) /\ (x = "close" => ~Contains(s, "close"))
  BY <1>4, <1>7 DEF CloseInv
<1>9. CloseOnce(z)
  BY <1>5, <1>8, OnceAppended
<1>10. (OnWire' <=> OnWire) /\ (Contains(tx, "close")' <=> Contains(tx, "close")) /\ CloseOnce(tx)'
  BY <1>0 DEF OnWire, Contains, CloseOnce, CloseInv
<1>11. Contains(write_queue, "close")' <=> Contains(z, "close")
  BY <1>4 DEF Contains
<1>12. CloseOnce(write_queue)'
  BY <1>4, <1>9 DEF CloseOnce
<1>13. CASE x = "close"
  <2>1. is_closing /\ ~OnWire /\ ~Contains(tx, "close") /\ \A u \in Thread : ~Carrying(u)'
    BY <1>3, <1>7, <1>13 DEF CloseInv
  <2> QED
    BY <1>0, <1>4, <1>6, <1>10, <1>12, <2>1 DEF CloseInv
<1>14. CASE x # "close"
  <2>1. Contains(write_queue, "close")' => Contains(write_queue, "close")
    BY <1>4, <1>6, <1>11, <1>14
  <2> QED
    BY <1>0, <1>3, <1>4, <1>6, <1>10, <1>12, <2>1 DEF CloseInv
<1> QED
  BY <1>13, <1>14

\* It goes from the queue into the hands of the thread that writes.
LEMMA CloseIsDequeued ==
  ASSUME Control, WriterInv, CloseInv, NEW t \in Thread, Dequeue(t)
  PROVE  CloseInv'
<1>0. pc[t] = "dequeue" /\ UNCHANGED <<is_closing, write_op, tx>>
  BY DEF Dequeue, At, conn, net
<1>1. \A u \in Thread \ {t} : pc'[u] = pc[u] /\ frame'[u] = frame[u]
  BY OthersStay, FramesOfOthers DEF Step, Writing
<1>2. CASE /\ write_queue # <<>> /\ frame' = [frame EXCEPT ![t].kind = Head(write_queue)]
           /\ write_queue' = Tail(write_queue) /\ Goto(t, "start_write")
  <2>1. PICK s, x, z : s = write_queue /\ x = Head(s) /\ z = write_queue'
    OBVIOUS
  <2>2. s \in Seq(Sendable) /\ s # <<>> /\ z = Tail(s)
    BY <1>2, <2>1 DEF CloseInv
  <2>3. /\ z \in Seq(Sendable) /\ (Contains(z, "close") => Contains(s, "close"))
        /\ Head(s) = "close" => Contains(s, "close")
    BY <2>2, CloseTaken
  <2>4. CloseOnce(s) => CloseOnce(z) /\ (Head(s) = "close" => ~Contains(z, "close"))
    BY <2>2, CloseTaken
  <2>5. CloseOnce(s)
    BY <2>1 DEF CloseInv
  <2>6. frame'[t].kind = x /\ pc'[t] = "start_write"
    <3>1. frame \in [Thread -> Frames]
      BY DEF WriterInv, WriteTypes
    <3> QED
      BY <1>2, <2>1, <3>1, GotoGoes DEF Frames
  <2>7. \A u \in Thread : Carrying(u)' => Carrying(u) \/ (u = t /\ x = "close")
    BY <1>1, <2>6 DEF Carrying
  <2>8. (OnWire' <=> OnWire) /\ (Contains(tx, "close")' <=> Contains(tx, "close")) /\ CloseOnce(tx)'
    BY <1>0 DEF OnWire, Contains, CloseOnce, CloseInv
  <2>9. CloseOnce(write_queue)' /\ (Contains(write_queue, "close")' <=> Contains(z, "close"))
    BY <2>1, <2>4, <2>5 DEF CloseOnce, Contains
  <2>10. Contains(write_queue, "close") <=> Contains(s, "close")
    BY <2>1
  <2>11. CASE x = "close"
    <3>1. is_closing /\ ~OnWire /\ ~Contains(tx, "close") /\ ~Contains(z, "close") /\ \A u \in Thread : ~Carrying(u)
      BY <2>1, <2>3, <2>4, <2>5, <2>11 DEF CloseInv
    <3>2. \A u \in Thread : Carrying(u)' => u = t
      BY <2>7, <3>1
    <3> QED
      BY <1>0, <2>1, <2>3, <2>8, <2>9, <3>1, <3>2 DEF CloseInv
  <2>12. CASE x # "close"
    <3>1. \A u \in Thread : Carrying(u)' => Carrying(u)
      BY <2>7, <2>12
    <3>2. Contains(write_queue, "close")' => Contains(write_queue, "close")
      BY <2>3, <2>9, <2>10
    <3> QED
      BY <1>0, <2>1, <2>3, <2>8, <2>9, <3>1, <3>2 DEF CloseInv
  <2> QED
    BY <2>11, <2>12
<1>3. CASE UNCHANGED <<write_queue, frame>> /\ (Goto(t, "schedule_close") \/ Return(t))
  <2>1. pc'[t] \in ReturnPoints \cup {"idle", "schedule_close"}
    BY <1>0, <1>3, ReturnGoesOn, GotoGoes
  <2>2. ~Carrying(t)'
    BY <2>1 DEF Carrying, ReturnPoints, InHandler
  <2>3. \A u \in Thread : Carrying(u)' => Carrying(u)
    BY <1>1, <2>2 DEF Carrying
  <2>4. OnWire' <=> OnWire
    BY <1>0 DEF OnWire
  <2> QED
    BY <1>0, <1>3, <2>3, <2>4, AsideFromClose DEF Ended
<1> QED
  BY <1>2, <1>3 DEF Dequeue

\* It goes onto the wire, or is dropped with the queue.
LEMMA CloseIsWritten ==
  ASSUME Control, WriterInv, CloseInv, NEW t \in Thread, StartWrite(t)
  PROVE  CloseInv'
<1>0. /\ pc[t] = "start_write" /\ UNCHANGED <<is_closing, tx, frame>>
      /\ Return(t) \/ Goto(t, "do_close")
  BY DEF StartWrite, At, conn
<1>1. \A u \in Thread \ {t} : pc'[u] = pc[u]
  BY OthersStay DEF Step, Writing
<1>2. ~Carrying(t)'
  <2>1. pc'[t] \in ReturnPoints \cup {"idle", "do_close"}
    BY <1>0, ReturnGoesOn, GotoGoes
  <2> QED
    BY <2>1 DEF Carrying, ReturnPoints, InHandler
<1>3. \A u \in Thread : Carrying(u)' => u # t /\ Carrying(u)
  BY <1>0, <1>1, <1>2 DEF Carrying
<1>4. write_op = <<>> /\ ~OnWire
  BY <1>0 DEF WriterInv, WriteTypes, WriteOpType, OneWriter, WriteSection, OnWire
<1>5. CASE write_op' = Append(write_op, [kind |-> frame[t].kind, status |-> "pending"]) /\ UNCHANGED out
  <2>1. write_op' = <<[kind |-> frame[t].kind, status |-> "pending"]>>
    BY <1>4, <1>5
  <2>2. OnWire' => frame[t].kind = "close"
    <3>1. Head(write_op').kind = frame[t].kind
      BY <2>1
    <3> QED
      BY <3>1 DEF OnWire
  <2>3. CASE frame[t].kind = "close"
    <3>1. Carrying(t)
      BY <1>0, <2>3 DEF Carrying
    <3>2. /\ is_closing /\ ~Contains(write_queue, "close") /\ ~Contains(tx, "close")
          /\ \A u \in Thread : ~Carrying(u)'
      BY <1>3, <3>1 DEF CloseInv
    <3>3. /\ CloseOnce(write_queue)' /\ CloseOnce(tx)' /\ ~Contains(write_queue, "close")' /\ ~Contains(tx, "close")'
          /\ write_queue' = write_queue
      BY <1>0, <1>5, <3>2 DEF CloseOnce, Contains, CloseInv, out
    <3> QED
      BY <1>0, <3>2, <3>3 DEF CloseInv
  <2>4. CASE frame[t].kind # "close"
    BY <1>0, <1>3, <1>5, <2>2, <2>4, AsideFromClose DEF Ended, out
  <2> QED
    BY <2>3, <2>4
<1>6. CASE write_queue' = <<>> /\ UNCHANGED write_op
  <2>1. ~OnWire'
    BY <1>4, <1>6 DEF OnWire
  <2> QED
    BY <1>0, <1>3, <1>6, <2>1, AsideFromClose DEF Ended
<1> QED
  BY <1>5, <1>6 DEF StartWrite

\* Asio sends it, or fails to.
LEMMA CloseIsSent ==
  ASSUME WriterInv, CloseInv, Transmit
  PROVE  CloseInv'
<1>0. UNCHANGED <<pc, frame, is_closing, write_queue>> /\ write_op # <<>> /\ Head(write_op).status = "pending"
  BY DEF Transmit, conn, out
<1>1. \A u \in Thread : Carrying(u)' <=> Carrying(u)
  BY <1>0 DEF Carrying
<1>2. PICK k \in Outbound, s \in Status : write_op = <<[kind |-> k, status |-> s]>>
  BY <1>0 DEF WriterInv, WriteTypes, WriteOpType
<1>3. PICK r \in {"ok", "failed"} : write_op' = [write_op EXCEPT ![1].status = r]
  BY DEF Transmit
<1>4. write_op' = <<[kind |-> k, status |-> r]>>
  BY <1>2, <1>3
<1>5. Head(write_op').status = r /\ Head(write_op).kind = k
  BY <1>2, <1>4
<1>6. ~OnWire' /\ (k = "close" => OnWire)
  BY <1>0, <1>5 DEF OnWire
<1>7. CASE tx' = Append(tx, k)
  <2>1. PICK S, s1, z : S = Outbound \cup {"fin"} /\ s1 = tx /\ z = tx'
    OBVIOUS
  <2>2. s1 \in Seq(S) /\ k \in S /\ z = Append(s1, k) /\ CloseOnce(s1)
    BY <1>7, <2>1 DEF CloseInv
  <2>3. z \in Seq(S) /\ (Contains(z, "close") => k = "close" \/ Contains(s1, "close"))
    <3>1. z \in Seq(S)
      BY <2>2, AppendProperties
    <3>2. ASSUME Contains(z, "close"), k # "close" PROVE Contains(s1, "close")
      <4>1. HasClose(z)
        BY <3>2 DEF HasClose, Contains
      <4>2. HasClose(s1)
        BY <2>2, <3>2, <4>1, CloseAppended
      <4> QED
        BY <4>2 DEF HasClose, Contains
    <3> QED
      BY <3>1, <3>2
  <2>4. k = "close" => ~Contains(s1, "close")
    BY <1>6, <2>1 DEF CloseInv
  <2>5. CloseOnce(z)
    BY <2>2, <2>4, OnceAppended
  <2>6. CloseOnce(tx)' /\ (Contains(tx, "close")' => k = "close" \/ Contains(tx, "close"))
    BY <2>1, <2>3, <2>5 DEF CloseOnce, Contains
  <2>7. /\ CloseOnce(write_queue)' /\ write_queue' \in Seq(Sendable)
        /\ Contains(write_queue, "close")' <=> Contains(write_queue, "close")
    BY <1>0 DEF CloseOnce, Contains, CloseInv
  <2>8. tx' \in Seq(Outbound \cup {"fin"})
    BY <2>1, <2>3
  <2>9. CASE k = "close"
    <3>1. OnWire /\ is_closing /\ ~Contains(write_queue, "close") /\ \A u \in Thread : ~Carrying(u)
      BY <1>6, <2>9 DEF CloseInv
    <3> QED
      BY <1>0, <1>1, <1>6, <2>6, <2>7, <2>8, <3>1 DEF CloseInv
  <2>10. CASE k # "close"
    BY <1>0, <1>1, <1>6, <2>6, <2>7, <2>8, <2>10 DEF CloseInv
  <2> QED
    BY <2>9, <2>10
<1>8. CASE UNCHANGED tx
  BY <1>0, <1>1, <1>6, <1>8, AsideFromClose DEF Ended
<1> QED
  BY <1>5, <1>7, <1>8 DEF Transmit

\* CloseInv holds at first.
LEMMA CloseInit == Init => CloseInv
<1> SUFFICES ASSUME Init PROVE CloseInv
  OBVIOUS
<1>1. /\ is_closing = FALSE /\ tx = <<>> /\ write_queue = <<>> /\ write_op = <<>>
      /\ frame = [t \in Thread |-> [kind |-> "text", close_after |-> FALSE]]
  BY DEF Init
<1>2. \A t \in Thread : pc[t] # "close_code"
  BY DEF Init
<1>3. \A t \in Thread : ~Carrying(t)
  BY <1>1, <1>2 DEF Carrying
<1>4. /\ ~Contains(tx, "close") /\ CloseOnce(tx) /\ tx \in Seq(Outbound \cup {"fin"})
      /\ ~Contains(write_queue, "close") /\ CloseOnce(write_queue) /\ write_queue \in Seq(Sendable)
  BY <1>1, NoCloseLeft
<1> QED
  BY <1>1, <1>3, <1>4 DEF CloseInv, OnWire

\* And every step keeps it.
LEMMA CloseStep == Control /\ WriterInv /\ CloseInv /\ [Next]_vars => CloseInv'
<1> SUFFICES ASSUME Control, WriterInv, CloseInv, [Next]_vars PROVE CloseInv'
  OBVIOUS
<1>1. ASSUME NEW t \in Thread, Step(t) \/ UserStep(t) PROVE CloseInv'
  <2>1. CASE Passing(t)
    BY <2>1, CloseIsTaken, CloseIsQueued, CloseIsDequeued, CloseIsWritten DEF Passing
  <2>2. CASE ~Passing(t)
    <3>1. \A u \in Thread : Carrying(u)' => Carrying(u)
      BY <1>1, <2>2, OthersStay, FramesOfOthers, NoneCreated DEF Carrying
    <3> QED
      BY <1>1, <2>2, <3>1, NonePassed, AsideFromClose
  <2> QED
    BY <2>1, <2>2
<1>2. CASE Transmit
  BY <1>2, CloseIsSent
<1>3. CASE Receive \/ Peer \/ SocketClosedExternally \/ Quiescent \/ UNCHANGED vars
  <2>1. UNCHANGED <<pc, frame, is_closing, write_queue>>
    BY <1>3, OutsideMovesNone DEF Asio
  <2>2. UNCHANGED write_op /\ Ended
    BY <1>3 DEF Receive, Peer, PeerSends, PeerAnswersClose, PeerHangsUp, SocketClosedExternally, Quiescent,
       vars, net, Ended
  <2>3. (OnWire' <=> OnWire) /\ \A u \in Thread : Carrying(u)' <=> Carrying(u)
    BY <2>1, <2>2 DEF OnWire, Carrying
  <2> QED
    BY <2>1, <2>2, <2>3, AsideFromClose
<1> QED
  BY <1>1, <1>2, <1>3 DEF Next, Asio

(* OneCloseFrame: whatever makes the connection close, one Close frame at  *)
(* most leaves it.                                                         *)
THEOREM OneCloseFrameLeaves == Spec => []OneCloseFrame
<1>1. CloseInv => OneCloseFrame
  BY DEF CloseInv, OneCloseFrame
<1> QED
  BY <1>1, WriterInit, WriterStep, CloseInit, CloseStep, PTL DEF Spec

-----------------------------------------------------------------------------
(* The end of a connection between two that speak the protocol: no network *)
(* fault, and nobody calls force_close().                                  *)

Orderly == "force_close" \notin Ops \cup HandlerOps /\ ~Faults

\* The codes that a connection may report: the peer's, and its own if the user closes it.
OwnCodes == {"peer"} \cup {c \in {"local"} : "close" \in Ops \cup HandlerOps}

\* This end has begun to close, and the Close that it answers, or sends, gave the code.
Begun == is_closing /\ close_code # "normal"

\* The places from which a thread ends the connection.
EndPlaces ==
    {"handshake", "write_failed", "schedule_close", "do_close", "lock_close_handler", "in_close",
     "close_socket", "force_close", "fc_handlers", "fc_closed", "fc_socket"}

\* A thread has a frame after which the socket is to be closed.
Ends(t) == pc[t] \in {"send_frame", "send_socket", "enqueue"} /\ frame[t].close_after

\* The connection ends, or is about to.
Ending ==
    \/ sock # "open" \/ close_after_write \/ Contains(tx, "fin") \/ read_op = "failed"
    \/ write_op # <<>> /\ Head(write_op).status = "failed"
    \/ \E t \in Thread : In(EndPlaces, t) \/ Ends(t)

\* The Close of the other end, or its end, has reached this one.
Heard == Ending \/ Contains(frame_buffer, "close") \/ \E t \in Thread : pc[t] = "answer_close"

\* An end that ends has begun to close, with a code; while it has none, its only Close is
\* in the hands of the thread that is about to set the code.
EndInv ==
    /\ close_code \in OwnCodes \cup {"normal"} /\ on_close \in Seq(OwnCodes)
    /\ frame_buffer \in Seq(Outbound)
    /\ \A t \in Thread : pc[t] \in {"close", "close_code"} => "close" \in Ops \cup HandlerOps
    /\ \A t \in Thread : pc[t] = "answer_close" => close_code # "normal"
    /\ is_closing /\ close_code = "normal" => \E t \in Thread : pc[t] = "close_code"
    /\ Ending => Begun

\* A step of a thread that does not make the connection end.
GoesOn(t) ==
    /\ Turn(EndPlaces, t) /\ UNCHANGED <<sock, tx>> /\ ~close_after_write' /\ read_op' # "failed" /\ ~Ends(t)'
    /\ write_op' # <<>> => Head(write_op').status # "failed"

\* A connection that does not end yet.
LEMMA NotEnding ==
  ASSUME ~Ending, NEW t \in Thread
  PROVE  /\ sock = "open" /\ ~close_after_write /\ ~Contains(tx, "fin") /\ read_op # "failed"
         /\ write_op # <<>> => Head(write_op).status # "failed"
         /\ pc[t] \notin EndPlaces /\ ~In(EndPlaces, t) /\ ~Ends(t)
BY DEF Ending, In, Holds

\* It still does not after a step that goes on.
LEMMA GoesOnKeeps ==
  ASSUME Control, WriterInv, ~Ending, NEW t \in Thread, Step(t) \/ UserStep(t), GoesOn(t)
  PROVE  ~Ending'
<1>1. \A u \in Thread : ~In(EndPlaces, u) /\ ~Ends(u)
  BY NotEnding
<1>2. PICK R : R = EndPlaces
  OBVIOUS
<1>3. SoleAll(R) /\ "idle" \notin R /\ Turn(R, t) /\ \A u \in Thread : ~In(R, u)
  BY <1>1, <1>2 DEF SoleAll, Sole, In, Holds, GoesOn, EndPlaces
<1>4. Turned(R, t)
  BY <1>3, TurnTurns
<1>5. \A u \in Thread : ~In(R, u)'
  BY <1>3, <1>4 DEF Turned
<1>6. \A u \in Thread \ {t} : pc'[u] = pc[u] /\ frame'[u] = frame[u]
  BY OthersStay, FramesOfOthers
<1>7. \A u \in Thread : ~Ends(u)'
  BY <1>1, <1>6 DEF Ends, GoesOn
<1>8. \A u \in Thread : ~In(EndPlaces, u)'
  BY <1>2, <1>5
<1>9. sock' = "open" /\ ~Contains(tx, "fin")'
  BY NotEnding DEF GoesOn, Contains
<1> QED
  BY <1>7, <1>8, <1>9 DEF Ending, GoesOn

\* The steps of send_frame() and do_write() go on.
LEMMA WritingGoesOn ==
  ASSUME Control, WriterInv, ~Ending, NEW t \in Thread, Writing(t)
  PROVE  GoesOn(t)
<1>0. /\ sock = "open" /\ ~close_after_write /\ read_op # "failed" /\ ~Ends(t)
      /\ write_op # <<>> => Head(write_op).status # "failed"
  BY NotEnding
<1>1. "send_socket" \notin EndPlaces /\ "enqueue" \notin EndPlaces /\ "dequeue" \notin EndPlaces /\ "start_write" \notin EndPlaces
  BY DEF EndPlaces
<1>2. CASE SendFrame(t) \/ SendSocket(t)
  <2>1. /\ pc[t] \in {"send_frame", "send_socket"} /\ UNCHANGED <<frame, sock, tx, close_after_write, read_op, write_op>>
        /\ Return(t) \/ \E l \in {"send_socket", "enqueue"} : Goto(t, l)
    BY <1>0, <1>2 DEF SendFrame, SendSocket, At, net, out
  <2>2. pc'[t] \in ReturnPoints \cup {"idle", "send_socket", "enqueue"}
    BY <2>1, ReturnGoesOn, GotoGoes
  <2>3. ~Ends(t)'
    BY <1>0, <2>1, <2>2 DEF Ends, ReturnPoints, InHandler
  <2>4. Turn(EndPlaces, t)
    BY <1>1, <2>1 DEF Turn, Labels
  <2> QED
    BY <1>0, <2>1, <2>3, <2>4 DEF GoesOn
<1>3. CASE Enqueue(t)
  <2>1. /\ pc[t] = "enqueue" /\ UNCHANGED <<sock, tx, read_op, write_op>>
        /\ close_after_write' = (close_after_write \/ frame[t].close_after) /\ (Return(t) \/ Goto(t, "dequeue"))
    BY <1>3 DEF Enqueue, At, net
  <2>2. pc'[t] \in ReturnPoints \cup {"idle", "dequeue"}
    BY <2>1, ReturnGoesOn, GotoGoes
  <2>3. ~Ends(t)' /\ ~close_after_write'
    BY <1>0, <2>1, <2>2 DEF Ends, ReturnPoints, InHandler
  <2>4. Turn(EndPlaces, t)
    BY <1>1, <2>1 DEF Turn, Labels
  <2> QED
    BY <1>0, <2>1, <2>3, <2>4 DEF GoesOn
<1>4. CASE Dequeue(t)
  <2>1. /\ pc[t] = "dequeue" /\ UNCHANGED <<sock, tx, read_op, write_op>> /\ ~close_after_write'
        /\ Return(t) \/ Goto(t, "start_write")
    BY <1>0, <1>4 DEF Dequeue, At, net
  <2>2. pc'[t] \in ReturnPoints \cup {"idle", "start_write"}
    BY <2>1, ReturnGoesOn, GotoGoes
  <2>3. ~Ends(t)'
    BY <2>2 DEF Ends, ReturnPoints, InHandler
  <2>4. Turn(EndPlaces, t)
    BY <1>1, <2>1 DEF Turn, Labels
  <2> QED
    BY <1>0, <2>1, <2>3, <2>4 DEF GoesOn
<1>5. CASE StartWrite(t)
  <2>1. /\ pc[t] = "start_write" /\ UNCHANGED <<sock, tx, read_op, close_after_write>> /\ Return(t)
        /\ write_op' = Append(write_op, [kind |-> frame[t].kind, status |-> "pending"])
    BY <1>0, <1>5 DEF StartWrite, At, SocketOpen, out
  <2>2. write_op = <<>>
    BY <2>1 DEF WriterInv, WriteTypes, WriteOpType, OneWriter, WriteSection
  <2>3. write_op' = <<[kind |-> frame[t].kind, status |-> "pending"]>>
    BY <2>1, <2>2
  <2>4. Head(write_op').status = "pending"
    BY <2>3
  <2>5. pc'[t] \in ReturnPoints \cup {"idle"}
    BY <2>1, ReturnGoesOn
  <2>6. ~Ends(t)'
    BY <2>5 DEF Ends, ReturnPoints, InHandler
  <2>7. Turn(EndPlaces, t)
    BY <2>1 DEF Turn
  <2> QED
    BY <1>0, <2>1, <2>4, <2>6, <2>7 DEF GoesOn
<1> QED
  BY <1>2, <1>3, <1>4, <1>5 DEF Writing

\* So do those of close().
LEMMA ClosingGoesOn ==
  ASSUME Control, WriterInv, ~Ending, NEW t \in Thread, Closing(t) \/ ForceClosing(t), ~AnswerClose(t)
  PROVE  GoesOn(t)
<1>0. /\ sock = "open" /\ ~close_after_write /\ read_op # "failed" /\ pc[t] \notin EndPlaces
      /\ write_op # <<>> => Head(write_op).status # "failed"
  BY NotEnding
<1>1. Close(t) \/ CloseCode(t)
  BY <1>0 DEF Closing, ForceClosing, ScheduleClose, DoClose, DispatchClose, CloseHandlerReturns, CloseSocket,
     ForceClose, ForceCloseHandlers, ForceCloseClosed, ForceCloseSocket, At, EndPlaces
<1>2. UNCHANGED <<sock, tx, read_op, close_after_write, write_op>>
  BY <1>1 DEF Close, CloseCode, net, out
<1>3. CASE Close(t)
  <2>1. pc[t] = "close" /\ (Return(t) \/ Goto(t, "close_code"))
    BY <1>3 DEF Close, At
  <2>2. pc'[t] \in ReturnPoints \cup {"idle", "close_code"}
    BY <2>1, ReturnGoesOn, GotoGoes
  <2>3. ~Ends(t)'
    BY <2>2 DEF Ends, ReturnPoints, InHandler
  <2>4. Turn(EndPlaces, t)
    BY <2>1 DEF Turn, Labels, EndPlaces
  <2> QED
    BY <1>0, <1>2, <2>3, <2>4 DEF GoesOn
<1>4. CASE CloseCode(t)
  <2>1. /\ pc[t] = "close_code" /\ Goto(t, "send_frame")
        /\ frame' = [frame EXCEPT ![t] = [kind |-> "close", close_after |-> FALSE]]
    BY <1>4 DEF CloseCode, At
  <2>2. frame'[t].close_after = FALSE
    BY <2>1 DEF WriterInv, WriteTypes
  <2>3. Turn(EndPlaces, t)
    BY <2>1 DEF Turn, Labels, EndPlaces
  <2> QED
    BY <1>0, <1>2, <2>2, <2>3 DEF GoesOn, Ends
<1> QED
  BY <1>1, <1>3, <1>4

\* The completions of a connection that does not end are no failures.
LEMMA CompletingGoesOn ==
  ASSUME Control, WriterInv, ~Ending, NEW t \in Thread, Opening(t) \/ Completing(t)
  PROVE  GoesOn(t)
<1>0. /\ ~close_after_write /\ read_op # "failed" /\ pc[t] \notin EndPlaces
      /\ write_op # <<>> => Head(write_op).status # "failed"
  BY NotEnding
<1>1. HandshakeWritten(t) \/ OnWrite(t) \/ OnRead(t)
  BY <1>0 DEF Opening, Completing, HandshakeRejected, HandshakeAccepted, HandshakeFailed, OnWriteError,
     WriteFailed, OnReadError, WriteCompletes, At, EndPlaces
<1>2. UNCHANGED <<sock, tx, close_after_write>>
  BY <1>1 DEF HandshakeWritten, OnWrite, OnRead, net, out
<1>3. /\ \/ \E l \in {"dequeue", "close", "process_frames"} : Goto(t, l)
         \/ CallThen(t, "in_open", "start_read")
      /\ read_op' # "failed"
  BY <1>0, <1>1 DEF HandshakeWritten, OnWrite, OnRead
<1>4. write_op' # <<>> => Head(write_op').status # "failed"
  <2>1. CASE HandshakeWritten(t) \/ OnWrite(t)
    <3>1. PICK kinds, status : WriteCompletes(t, kinds, status)
      BY <2>1 DEF HandshakeWritten, OnWrite
    <3>2. write_op' = <<>>
      BY <3>1, Completed
    <3> QED
      BY <3>2
  <2>2. CASE OnRead(t)
    BY <1>0, <2>2 DEF OnRead
  <2> QED
    BY <1>1, <2>1, <2>2
<1>5. pc'[t] \in {"dequeue", "close", "process_frames", "in_open"}
  BY <1>3, GotoGoes, CallGoes
<1>6. ~Ends(t)'
  BY <1>5 DEF Ends
<1>7. Turn(EndPlaces, t)
  BY <1>3 DEF Turn, Labels, ReturnPoints, InHandler, EndPlaces
<1> QED
  BY <1>0, <1>2, <1>3, <1>4, <1>6, <1>7 DEF GoesOn

\* The steps of process_frames(), handle_frame() and start_read() go on.
LEMMA ReadingGoesOn ==
  ASSUME Control, WriterInv, ~Ending, NEW t \in Thread, Reading(t)
  PROVE  GoesOn(t)
<1>0. /\ ~close_after_write /\ read_op # "failed"
      /\ write_op # <<>> => Head(write_op).status # "failed"
  BY NotEnding
<1>1. UNCHANGED <<sock, tx, close_after_write, write_op>> /\ read_op' # "failed" /\ pc[t] # "idle"
  BY <1>0 DEF Reading, StartRead, LockRead, NoMoreFrames, DiscardFrames, HandleMessage, HandlePing, HandlePong,
     HandleBad, HandleClose, AfterFrame, CheckClosed, Dispatch, NextFrame, At, net, out
<1>2. CASE HandlePing(t)
  <2>1. /\ CallThen(t, "send_frame", "next_frame")
        /\ frame' = [frame EXCEPT ![t] = [kind |-> "pong", close_after |-> FALSE]]
    BY <1>2 DEF HandlePing
  <2>2. frame'[t].close_after = FALSE
    BY <2>1 DEF WriterInv, WriteTypes
  <2>3. Turn(EndPlaces, t)
    BY <2>1 DEF Turn, Labels, ReturnPoints, EndPlaces
  <2> QED
    BY <1>0, <1>1, <2>2, <2>3 DEF GoesOn, Ends
<1>3. CASE ~HandlePing(t)
  <2>1. \/ Return(t)
        \/ \E l \in {"lock_read", "start_read", "next_frame", "process_frames", "call_message", "call_error",
                     "in_message", "in_error"} : Goto(t, l)
        \/ \E l \in {"message", "close", "answer_close"}, r \in {"next_frame", "start_read"} : CallThen(t, l, r)
    BY <1>3 DEF Reading, StartRead, LockRead, NoMoreFrames, DiscardFrames, HandleMessage, HandlePong,
     HandleBad, HandleClose, AfterFrame, CheckClosed, Dispatch
  <2>2. pc'[t] \in ReturnPoints \cup {"idle", "lock_read", "call_message", "call_error", "message", "close", "answer_close"}
    BY <1>1, <2>1, ReturnGoesOn, GotoGoes, CallGoes DEF ReturnPoints, InHandler
  <2>3. ~Ends(t)'
    BY <2>2 DEF Ends, ReturnPoints, InHandler
  <2>4. Turn(EndPlaces, t)
    BY <1>1, <2>1 DEF Turn, Labels, ReturnPoints, InHandler, EndPlaces
  <2> QED
    BY <1>0, <1>1, <2>3, <2>4 DEF GoesOn
<1> QED
  BY <1>2, <1>3

\* So do the calls of the user, as long as he does not call force_close().
LEMMA UserGoesOn ==
  ASSUME Orderly, Control, WriterInv, ~Ending, NEW t \in Thread, UserStep(t) \/ HandlerReturns(t)
  PROVE  GoesOn(t)
<1>0. /\ ~close_after_write /\ read_op # "failed"
      /\ write_op # <<>> => Head(write_op).status # "failed"
  BY NotEnding
<1>1. UNCHANGED <<sock, tx, close_after_write, write_op, read_op>>
  BY DEF UserStep, AppCall, HandlerCall, HandlerReturns, net, out
<1>2. CASE UserStep(t)
  <2>1. PICK op \in Ops \cup HandlerOps :
          /\ Goto(t, Entry(op)) \/ (pc[t] \in InHandler /\ CallThen(t, Entry(op), pc[t]))
          /\ frame' = [frame EXCEPT ![t] = Argument(op)]
    BY <1>2 DEF UserStep, AppCall, HandlerCall
  <2>2. Entry(op) \in {"send_frame", "close"}
    BY CallsAssumption DEF Orderly, Entry, Call
  <2>3. frame'[t].close_after = FALSE
    BY <2>1 DEF WriterInv, WriteTypes, Argument
  <2>4. Turn(EndPlaces, t)
    BY <2>1, <2>2 DEF Turn, Labels, ReturnPoints, InHandler, EndPlaces
  <2> QED
    BY <1>0, <1>1, <2>3, <2>4 DEF GoesOn, Ends
<1>3. CASE HandlerReturns(t)
  <2>1. pc[t] # "idle" /\ Return(t)
    BY <1>3 DEF HandlerReturns, InHandler
  <2>2. pc'[t] \in ReturnPoints \cup {"idle"}
    BY <2>1, ReturnGoesOn
  <2>3. ~Ends(t)'
    BY <2>2 DEF Ends, ReturnPoints, InHandler
  <2> QED
    BY <1>0, <1>1, <2>1, <2>3 DEF GoesOn, Turn
<1> QED
  BY <1>2, <1>3

\* Only the answer to a Close makes a thread end the connection.
LEMMA ThreadsGoOn ==
  ASSUME Orderly, Control, WriterInv, ~Ending, NEW t \in Thread, Step(t) \/ UserStep(t), ~AnswerClose(t)
  PROVE  ~Ending'
<1>1. GoesOn(t)
  BY WritingGoesOn, ClosingGoesOn, CompletingGoesOn, ReadingGoesOn, UserGoesOn DEF Step
<1> QED
  BY <1>1, GoesOnKeeps

\* And only the end of the stream makes asio end it.
LEMMA AsioGoesOn ==
  ASSUME Orderly, WriterInv, CloseInv, ~Ending, Asio, rx \in Seq(Outbound \cup {"fin"}), ~Contains(rx, "fin")
  PROVE  ~Ending'
<1>0. PICK t : t \in Io
  BY ThreadsAssumption
<1>1. /\ sock = "open" /\ ~close_after_write /\ ~Contains(tx, "fin") /\ read_op # "failed"
      /\ write_op # <<>> => Head(write_op).status # "failed"
      /\ \A u \in Thread : ~In(EndPlaces, u) /\ ~Ends(u)
  BY DEF Ending
<1>2. UNCHANGED <<pc, stack, frame, close_after_write>>
  BY OutsideMovesNone
<1>3. \A u \in Thread : ~In(EndPlaces, u)' /\ ~Ends(u)'
  BY <1>1, <1>2 DEF In, Ends
<1>4. sock' = "open"
  BY <1>1 DEF Asio, Transmit, Receive
<1>5. ~Contains(tx, "fin")' /\ (write_op' # <<>> => Head(write_op').status # "failed") /\ read_op' # "failed"
  <2>1. CASE Transmit
    <3>0. PICK k \in Outbound, s \in Status : write_op = <<[kind |-> k, status |-> s]>>
      BY <2>1 DEF Transmit, WriterInv, WriteTypes, WriteOpType
    <3>1. /\ write_op' = [write_op EXCEPT ![1].status = "ok"] /\ tx' = Append(tx, Head(write_op).kind)
          /\ UNCHANGED read_op
      BY <1>1, <2>1 DEF Transmit, Orderly
    <3>2. write_op' = <<[kind |-> k, status |-> "ok"]>>
      BY <3>0, <3>1
    <3>3. Head(write_op').status = "ok"
      BY <3>2
    <3>4. PICK S, s1, x, z : S = Outbound \cup {"fin"} /\ s1 = tx /\ x = Head(write_op).kind /\ z = tx'
      OBVIOUS
    <3>5. s1 \in Seq(S) /\ x \in S /\ x # "fin" /\ z = Append(s1, x)
      BY <3>0, <3>1, <3>4 DEF CloseInv, Outbound
    <3>6. /\ Len(s1) \in Nat /\ Len(z) = Len(s1) + 1 /\ z[Len(s1) + 1] = x
          /\ \A i \in 1..Len(s1) : z[i] = s1[i]
      BY <3>5, AppendProperties, LenProperties
    <3>7. \A i \in 1..Len(z) : i \in 1..Len(s1) \/ i = Len(s1) + 1
      BY <3>6
    <3>8. ~Contains(s1, "fin")
      BY <1>1, <3>4
    <3>9. ~Contains(z, "fin")
      BY <3>5, <3>6, <3>7, <3>8 DEF Contains
    <3>10. ~Contains(tx, "fin")'
      BY <3>4, <3>9 DEF Contains
    <3> QED
      BY <1>1, <3>1, <3>3, <3>10
  <2>2. CASE Receive
    <3>1. UNCHANGED <<tx, write_op>>
      BY <2>2 DEF Receive
    <3>2. read_op' # "failed"
      <4>1. rx # <<>> => ~(Head(rx) = "fin")
        <5> SUFFICES ASSUME rx # <<>> PROVE Head(rx) # "fin"
          OBVIOUS
        <5>1. Head(rx) = rx[1] /\ Len(rx) \in Nat /\ Len(rx) # 0
          BY EmptySeq, LenProperties
        <5> QED
          BY <5>1 DEF Contains
      <4> QED
        BY <1>1, <2>2, <4>1 DEF Receive, SocketOpen, Orderly
    <3> QED
      BY <1>1, <3>1, <3>2 DEF Contains
  <2> QED
    BY <2>1, <2>2 DEF Asio
<1> QED
  BY <1>1, <1>2, <1>3, <1>4, <1>5 DEF Ending

\* The flag and the code are set for good, and the code is one of its own.
LEMMA BegunStays ==
  ASSUME EndInv, NEW t \in Thread, Step(t) \/ UserStep(t)
  PROVE  /\ (is_closing => is_closing') /\ (close_code # "normal" => close_code' # "normal")
         /\ close_code' \in OwnCodes \cup {"normal"}
         /\ CloseCode(t) => close_code' = "local"
         /\ HandleClose(t) => close_code' = "peer" /\ Head(frame_buffer) = "close"
         /\ ~CloseCode(t) /\ ~HandleClose(t) => close_code' = close_code
<1>0. close_code \in OwnCodes \cup {"normal"}
  BY DEF EndInv
<1>1. CASE CloseCode(t)
  <2>1. close_code' = "local" /\ is_closing' = is_closing /\ pc[t] = "close_code" /\ ~HandleClose(t)
    BY <1>1 DEF CloseCode, HandleClose, NextFrame, At
  <2>2. "local" \in OwnCodes
    BY <2>1 DEF EndInv, OwnCodes
  <2> QED
    BY <1>1, <2>1, <2>2
<1>2. CASE HandleClose(t)
  <2>1. /\ close_code' = (IF Head(frame_buffer) = "close" THEN "peer" ELSE "failed") /\ is_closing' = is_closing
        /\ frame_buffer # <<>> /\ Head(frame_buffer) \in {"close", "invalid"} /\ ~CloseCode(t)
    BY <1>2 DEF CloseCode, HandleClose, NextFrame, At
  <2>2. Head(frame_buffer) \in Outbound
    BY <2>1, HeadTailProperties DEF EndInv
  <2>3. Head(frame_buffer) = "close"
    BY <2>1, <2>2 DEF Outbound
  <2> QED
    BY <1>2, <2>1, <2>3 DEF OwnCodes
<1>3. CASE ~CloseCode(t) /\ ~HandleClose(t)
  <2>1. close_code' = close_code /\ (is_closing => is_closing')
    <3>1. CASE Writing(t) \/ UserStep(t) \/ HandlerReturns(t)
      BY <3>1 DEF Writing, SendFrame, SendSocket, Enqueue, Dequeue, StartWrite, UserStep, AppCall, HandlerCall,
         HandlerReturns, conn
    <3>2. CASE Closing(t) \/ ForceClosing(t)
      BY <1>3, <3>2 DEF Closing, Close, AnswerClose, ScheduleClose, DoClose, DispatchClose, CloseHandlerReturns,
         CloseSocket, ForceClosing, ForceClose, ForceCloseHandlers, ForceCloseClosed, ForceCloseSocket, conn
    <3>3. CASE Opening(t) \/ Completing(t)
      BY <3>3 DEF Opening, HandshakeRejected, HandshakeAccepted, HandshakeWritten, HandshakeFailed, Completing,
         OnWrite, OnWriteError, WriteFailed, OnRead, OnReadError, conn
    <3>4. CASE Reading(t)
      BY <1>3, <3>4 DEF Reading, StartRead, LockRead, NoMoreFrames, DiscardFrames, HandleMessage, HandlePing,
         HandlePong, HandleBad, AfterFrame, CheckClosed, Dispatch, conn
    <3> QED
      BY <3>1, <3>2, <3>3, <3>4 DEF Step
  <2> QED
    BY <1>0, <1>3, <2>1
<1> QED
  BY <1>1, <1>2, <1>3

\* Who begins to close is about to set the code, or to answer a Close, or ends anyway.
LEMMA WhoBegins ==
  ASSUME NEW t \in Thread, Step(t) \/ UserStep(t), ~is_closing, is_closing'
  PROVE  (Close(t) /\ Goto(t, "close_code")) \/ pc[t] = "answer_close" \/ Ending
<1>1. CASE Writing(t) \/ UserStep(t) \/ HandlerReturns(t)
  BY <1>1 DEF Writing, SendFrame, SendSocket, Enqueue, Dequeue, StartWrite, UserStep, AppCall, HandlerCall,
     HandlerReturns, conn
<1>2. CASE Closing(t)
  BY <1>2 DEF Closing, Close, CloseCode, AnswerClose, ScheduleClose, DoClose, DispatchClose, CloseHandlerReturns,
     CloseSocket, conn, At
<1>3. CASE ForceClosing(t)
  <2>1. pc[t] = "force_close"
    BY <1>3 DEF ForceClosing, ForceClose, ForceCloseHandlers, ForceCloseClosed, ForceCloseSocket, conn, At
  <2> QED
    BY <2>1 DEF Ending, In, Holds, EndPlaces
<1>4. CASE Opening(t) \/ Completing(t)
  BY <1>4 DEF Opening, HandshakeRejected, HandshakeAccepted, HandshakeWritten, HandshakeFailed, Completing,
     OnWrite, OnWriteError, WriteFailed, OnRead, OnReadError, WriteCompletes, conn, Ending
<1>5. CASE Reading(t)
  BY <1>5 DEF Reading, StartRead, LockRead, NoMoreFrames, DiscardFrames, HandleMessage, HandlePing,
     HandlePong, HandleBad, HandleClose, AfterFrame, CheckClosed, Dispatch, conn
<1> QED
  BY <1>1, <1>2, <1>3, <1>4, <1>5 DEF Step

\* A thread at close_code has one thing to do.
LEMMA CodeIsNext ==
  ASSUME NEW t \in Thread, Step(t) \/ UserStep(t), pc[t] = "close_code"
  PROVE  CloseCode(t)
<1>1. ~Writing(t) /\ ~UserStep(t) /\ ~HandlerReturns(t)
  BY DEF Writing, SendFrame, SendSocket, Enqueue, Dequeue, StartWrite, UserStep, AppCall, HandlerCall,
     HandlerReturns, InHandler, At
<1>2. ~ForceClosing(t) /\ ~Opening(t) /\ ~Completing(t)
  BY DEF ForceClosing, ForceClose, ForceCloseHandlers, ForceCloseClosed, ForceCloseSocket,
     Opening, HandshakeRejected, HandshakeAccepted, HandshakeWritten, HandshakeFailed, Completing,
     OnWrite, OnWriteError, WriteFailed, OnRead, OnReadError, WriteCompletes, At
<1>3. ~Reading(t)
  BY DEF Reading, StartRead, LockRead, NoMoreFrames, DiscardFrames, HandleMessage, HandlePing,
     HandlePong, HandleBad, HandleClose, AfterFrame, CheckClosed, Dispatch, NextFrame, At
<1> QED
  BY <1>1, <1>2, <1>3 DEF Step, Closing, Close, AnswerClose, ScheduleClose, DoClose, DispatchClose,
     CloseHandlerReturns, CloseSocket, At

\* The frames that wait to be processed are handled or dropped.
LEMMA FramesAreTaken ==
  ASSUME EndInv, NEW t \in Thread, Step(t) \/ UserStep(t)
  PROVE  frame_buffer' \in Seq(Outbound) /\ (Contains(frame_buffer, "close")' => Contains(frame_buffer, "close"))
<1>0. PICK S, s, z : S = Outbound /\ s = frame_buffer /\ z = frame_buffer'
  OBVIOUS
<1>1. s \in Seq(S)
  BY <1>0 DEF EndInv
<1>2. z = s \/ z = <<>> \/ (s # <<>> /\ z = Tail(s))
  <2>1. CASE Writing(t) \/ UserStep(t) \/ HandlerReturns(t)
    BY <1>0, <2>1 DEF Writing, SendFrame, SendSocket, Enqueue, Dequeue, StartWrite, UserStep, AppCall, HandlerCall,
       HandlerReturns
  <2>2. CASE Closing(t) \/ ForceClosing(t)
    BY <1>0, <2>2 DEF Closing, Close, CloseCode, AnswerClose, ScheduleClose, DoClose, DispatchClose, CloseHandlerReturns,
       CloseSocket, ForceClosing, ForceClose, ForceCloseHandlers, ForceCloseClosed, ForceCloseSocket
  <2>3. CASE Opening(t) \/ Completing(t)
    BY <1>0, <2>3 DEF Opening, HandshakeRejected, HandshakeAccepted, HandshakeWritten, HandshakeFailed, Completing,
       OnWrite, OnWriteError, WriteFailed, OnRead, OnReadError
  <2>4. CASE Reading(t)
    BY <1>0, <2>4 DEF Reading, StartRead, LockRead, NoMoreFrames, DiscardFrames, HandleMessage, HandlePing,
       HandlePong, HandleBad, HandleClose, AfterFrame, CheckClosed, Dispatch, NextFrame
  <2> QED
    BY <2>1, <2>2, <2>3, <2>4 DEF Step
<1>3. z \in Seq(S) /\ (Contains(z, "close") => Contains(s, "close"))
  <2>1. CASE z = <<>>
    BY <2>1 DEF Contains
  <2>2. CASE s # <<>> /\ z = Tail(s)
    BY <1>1, <2>2, CloseTaken
  <2> QED
    BY <1>1, <1>2, <2>1, <2>2
<1> QED
  BY <1>0, <1>3 DEF Contains

\* Who comes to the places where a Close begins, and from where.
LEMMA WhoCloses ==
  ASSUME Orderly, Control, EndInv, NEW t \in Thread, Step(t) \/ UserStep(t)
  PROVE  /\ pc'[t] \in {"close", "close_code"} => "close" \in Ops \cup HandlerOps
         /\ pc'[t] = "answer_close" => HandleClose(t)
<1>0. (ReturnPoints \cup {"idle"}) \cap {"close", "close_code", "answer_close"} = {}
  BY DEF ReturnPoints, InHandler
<1>1. CASE Close(t)
  <2>1. pc[t] = "close" /\ (Return(t) \/ Goto(t, "close_code"))
    BY <1>1 DEF Close, At
  <2>2. "close" \in Ops \cup HandlerOps
    BY <2>1 DEF EndInv
  <2> QED
    BY <1>0, <2>1, <2>2, ReturnGoesOn, GotoGoes
<1>2. CASE UserStep(t)
  <2>1. PICK op \in Ops \cup HandlerOps : Goto(t, Entry(op)) \/ CallThen(t, Entry(op), pc[t])
    BY <1>2 DEF UserStep, AppCall, HandlerCall
  <2>2. pc'[t] = Entry(op) /\ op \in {"text", "close"}
    BY <2>1, GotoGoes, CallGoes, CallsAssumption DEF Orderly, Call
  <2> QED
    BY <2>2 DEF Entry
<1>3. CASE HandleClose(t)
  <2>1. pc'[t] = "answer_close"
    BY <1>3, CallGoes DEF HandleClose
  <2> QED
    BY <1>3, <2>1
<1>4. CASE ~Close(t) /\ ~UserStep(t) /\ ~HandleClose(t)
  <2>1. \/ pc[t] # "idle" /\ Return(t)
        \/ \E l \in Labels \ {"close", "close_code", "answer_close"} : Goto(t, l)
        \/ \E l \in Labels \ {"close", "close_code", "answer_close"}, r \in ReturnPoints : CallThen(t, l, r)
    <3>1. CASE Writing(t) \/ HandlerReturns(t)
      BY <3>1 DEF Writing, SendFrame, SendSocket, Enqueue, Dequeue, StartWrite, HandlerReturns, InHandler, At, Labels,
         ReturnPoints
    <3>2. CASE Closing(t) \/ ForceClosing(t)
      BY <1>4, <3>2 DEF Closing, CloseCode, AnswerClose, ScheduleClose, DoClose, DispatchClose, CloseHandlerReturns,
         CloseSocket, ForceClosing, ForceClose, ForceCloseHandlers, ForceCloseClosed, ForceCloseSocket, At, Labels,
         ReturnPoints, InHandler
    <3>3. CASE OnRead(t)
      <4>1. ~Contains(frame_buffer, "flood")
        <5>1. \A i \in 1..Len(frame_buffer) : frame_buffer[i] \in Outbound
          BY ElementOfSeq DEF EndInv
        <5> QED
          BY <5>1 DEF Contains, Outbound
      <4> QED
        BY <3>3, <4>1 DEF OnRead, Labels, ReturnPoints
    <3>4. CASE (Opening(t) \/ Completing(t)) /\ ~OnRead(t)
      BY <3>4 DEF Opening, HandshakeRejected, HandshakeAccepted, HandshakeWritten, HandshakeFailed, Completing,
         OnWrite, OnWriteError, WriteFailed, OnReadError, At, Labels, ReturnPoints, InHandler
    <3>5. CASE Reading(t)
      <4>1. ~HandleBad(t)
        <5> SUFFICES ASSUME HandleBad(t) PROVE FALSE
          OBVIOUS
        <5>1. frame_buffer # <<>> /\ Head(frame_buffer) = "bad"
          BY DEF HandleBad, NextFrame
        <5>2. Head(frame_buffer) \in Outbound
          BY <5>1, HeadTailProperties DEF EndInv
        <5> QED
          BY <5>1, <5>2 DEF Outbound
      <4> QED
        BY <1>4, <3>5, <4>1 DEF Reading, StartRead, LockRead, NoMoreFrames, DiscardFrames, HandleMessage, HandlePing,
           HandlePong, AfterFrame, CheckClosed, Dispatch, NextFrame, At, Labels, ReturnPoints, InHandler
    <3> QED
      BY <1>4, <3>1, <3>2, <3>3, <3>4, <3>5 DEF Step
  <2>2. pc'[t] \notin {"close", "close_code", "answer_close"}
    BY <1>0, <2>1, ReturnGoesOn, GotoGoes, CallGoes
  <2> QED
    BY <2>2
<1> QED
  BY <1>1, <1>2, <1>3, <1>4

\* on_close gets codes of its own only.
LEMMA OwnCodeReported ==
  ASSUME EndInv, CloserInv, NEW t \in Thread, Step(t) \/ UserStep(t)
  PROVE  on_close' \in Seq(OwnCodes)
<1>1. CASE DispatchClose(t)
  <2>1. pc[t] = "lock_close_handler" /\ (on_close' = Append(on_close, close_code) \/ on_close' = on_close)
    BY <1>1 DEF DispatchClose, At
  <2>2. Begun
    BY <2>1 DEF EndInv, Ending, In, Holds, EndPlaces
  <2>3. close_code \in OwnCodes /\ on_close \in Seq(OwnCodes)
    BY <2>2 DEF EndInv, Begun
  <2>4. Append(on_close, close_code) \in Seq(OwnCodes)
    BY <2>3, AppendProperties
  <2> QED
    BY <2>1, <2>3, <2>4
<1>2. CASE ~DispatchClose(t)
  <2>1. on_close' = on_close
    <3>1. CASE Writing(t) \/ UserStep(t) \/ HandlerReturns(t)
      BY <3>1 DEF Writing, SendFrame, SendSocket, Enqueue, Dequeue, StartWrite, UserStep, AppCall, HandlerCall,
         HandlerReturns
    <3>2. CASE Closing(t) \/ ForceClosing(t)
      BY <1>2, <3>2 DEF Closing, Close, CloseCode, AnswerClose, ScheduleClose, DoClose, CloseHandlerReturns,
         CloseSocket, ForceClosing, ForceClose, ForceCloseHandlers, ForceCloseClosed, ForceCloseSocket
    <3>3. CASE Opening(t) \/ Completing(t)
      BY <3>3 DEF Opening, HandshakeRejected, HandshakeAccepted, HandshakeWritten, HandshakeFailed, Completing,
         OnWrite, OnWriteError, WriteFailed, OnRead, OnReadError
    <3>4. CASE Reading(t)
      BY <3>4 DEF Reading, StartRead, LockRead, NoMoreFrames, DiscardFrames, HandleMessage, HandlePing,
         HandlePong, HandleBad, HandleClose, AfterFrame, CheckClosed, Dispatch
    <3> QED
      BY <3>1, <3>2, <3>3, <3>4 DEF Step
  <2> QED
    BY <2>1 DEF EndInv
<1> QED
  BY <1>1, <1>2

\* The steps of the threads keep EndInv.
LEMMA EndThreads ==
  ASSUME Orderly, Control, WriterInv, CloserInv, CloseInv, EndInv, NEW t \in Thread, Step(t) \/ UserStep(t)
  PROVE  EndInv'
<1>1. /\ (is_closing => is_closing') /\ (close_code # "normal" => close_code' # "normal")
      /\ close_code' \in OwnCodes \cup {"normal"}
      /\ CloseCode(t) => close_code' = "local"
      /\ HandleClose(t) => close_code' = "peer" /\ Head(frame_buffer) = "close"
      /\ ~CloseCode(t) /\ ~HandleClose(t) => close_code' = close_code
  BY BegunStays
<1>2. on_close' \in Seq(OwnCodes) /\ frame_buffer' \in Seq(Outbound)
  BY OwnCodeReported, FramesAreTaken
<1>3. \A u \in Thread \ {t} : pc'[u] = pc[u]
  BY OthersStay
<1>4. \A u \in Thread : pc'[u] \in {"close", "close_code"} => "close" \in Ops \cup HandlerOps
  BY <1>3, WhoCloses DEF EndInv
<1>5. \A u \in Thread : pc'[u] = "answer_close" => close_code' # "normal"
  <2> SUFFICES ASSUME NEW u \in Thread, pc'[u] = "answer_close" PROVE close_code' # "normal"
    OBVIOUS
  <2>1. CASE u = t
    BY <1>1, <2>1, WhoCloses
  <2>2. CASE u # t
    BY <1>1, <1>3, <2>2 DEF EndInv
  <2> QED
    BY <2>1, <2>2
<1>6. is_closing' /\ close_code' = "normal" => \E u \in Thread : pc'[u] = "close_code"
  <2> SUFFICES ASSUME is_closing', close_code' = "normal" PROVE \E u \in Thread : pc'[u] = "close_code"
    OBVIOUS
  <2>1. close_code = "normal" /\ ~CloseCode(t)
    BY <1>1
  <2>2. CASE is_closing
    <3>1. PICK u \in Thread : pc[u] = "close_code"
      BY <2>1, <2>2 DEF EndInv
    <3>2. u # t
      BY <2>1, <3>1, CodeIsNext
    <3> QED
      BY <1>3, <3>1, <3>2
  <2>3. CASE ~is_closing
    <3>1. pc[t] # "answer_close" /\ ~Ending
      BY <2>1 DEF EndInv, Begun
    <3>2. Goto(t, "close_code")
      BY <2>3, <3>1, WhoBegins
    <3> QED
      BY <3>2, GotoGoes
  <2> QED
    BY <2>2, <2>3
<1>7. Ending' => Begun'
  <2>1. CASE Begun
    BY <1>1, <2>1 DEF Begun
  <2>2. CASE AnswerClose(t)
    <3>1. is_closing' /\ close_code # "normal"
      BY <2>2 DEF AnswerClose, At, EndInv
    <3> QED
      BY <1>1, <3>1 DEF Begun
  <2>3. CASE ~Begun /\ ~AnswerClose(t)
    BY <2>3, ThreadsGoOn DEF EndInv
  <2> QED
    BY <2>1, <2>2, <2>3
<1> QED
  BY <1>1, <1>2, <1>4, <1>5, <1>6, <1>7 DEF EndInv

\* They do not hear what has not been read.
LEMMA HeardThreads ==
  ASSUME Orderly, Control, WriterInv, EndInv, NEW t \in Thread, Step(t) \/ UserStep(t), ~Heard
  PROVE  ~Heard'
<1>0. ~Ending /\ ~Contains(frame_buffer, "close") /\ \A u \in Thread : pc[u] # "answer_close"
  BY DEF Heard
<1>1. ~AnswerClose(t)
  BY <1>0 DEF AnswerClose, At
<1>2. ~Ending' /\ ~Contains(frame_buffer, "close")'
  BY <1>0, <1>1, ThreadsGoOn, FramesAreTaken
<1>3. ~HandleClose(t)
  <2> SUFFICES ASSUME HandleClose(t) PROVE FALSE
    OBVIOUS
  <2>0. PICK s : s = frame_buffer
    OBVIOUS
  <2>1. s # <<>> /\ Head(s) = "close" /\ s \in Seq(Outbound)
    BY <2>0, BegunStays DEF HandleClose, NextFrame, EndInv
  <2>2. Contains(s, "close")
    BY <2>1, CloseTaken
  <2> QED
    BY <1>0, <2>0, <2>2
<1>4. \A u \in Thread : pc'[u] # "answer_close"
  BY <1>0, <1>3, OthersStay, WhoCloses
<1> QED
  BY <1>2, <1>4 DEF Heard

\* A read appends what has arrived, up to the end of the stream.
LEMMA FramesArrive ==
  ASSUME EndInv, Asio, rx \in Seq(Outbound \cup {"fin"})
  PROVE  /\ frame_buffer' \in Seq(Outbound)
         /\ Contains(frame_buffer, "close")' => Contains(frame_buffer, "close") \/ Contains(rx, "close")
<1>1. CASE UNCHANGED frame_buffer
  BY <1>1 DEF EndInv, Contains
<1>2. CASE ~UNCHANGED frame_buffer
  <2>1. PICK n \in 1..Len(rx) :
          (\A i \in 1..n : rx[i] # "fin") /\ frame_buffer' = frame_buffer \o SubSeq(rx, 1, n)
    BY <1>2 DEF Asio, Transmit, Receive
  <2>2. PICK s, r, q, z : s = frame_buffer /\ r = rx /\ q = SubSeq(r, 1, n) /\ z = frame_buffer'
    OBVIOUS
  <2>3. s \in Seq(Outbound) /\ r \in Seq(Outbound \cup {"fin"}) /\ Len(r) \in Nat /\ n \in 1..Len(r)
    BY <2>1, <2>2, LenProperties DEF EndInv
  <2>4. Len(q) = n /\ \A i \in 1..n : q[i] = r[i]
    BY <2>2, <2>3
  <2>5. \A i \in 1..n : i \in 1..Len(r) /\ r[i] \in Outbound
    <3> SUFFICES ASSUME NEW i \in 1..n PROVE i \in 1..Len(r) /\ r[i] \in Outbound
      OBVIOUS
    <3>1. i \in 1..Len(r) /\ r[i] # "fin"
      BY <2>1, <2>2, <2>3
    <3>2. r[i] \in Outbound \cup {"fin"}
      BY <2>3, <3>1, ElementOfSeq
    <3> QED
      BY <3>1, <3>2
  <2>6. q \in Seq(Outbound)
    <3>1. q = [i \in 1..n |-> r[i]]
      BY <2>2, <2>3
    <3>2. q \in [1..n -> Outbound]
      BY <2>5, <3>1
    <3> QED
      BY <2>3, <3>2, SeqDef
  <2>7. z = s \o q
    BY <2>1, <2>2
  <2>8. /\ z \in Seq(Outbound) /\ Len(z) = Len(s) + Len(q) /\ Len(s) \in Nat
        /\ \A i \in 1..(Len(s) + Len(q)) : z[i] = IF i <= Len(s) THEN s[i] ELSE q[i - Len(s)]
    BY <2>3, <2>6, <2>7, ConcatProperties, LenProperties
  <2>9. Contains(z, "close") => Contains(s, "close") \/ Contains(r, "close")
    <3> SUFFICES ASSUME NEW i \in 1..Len(z), z[i] = "close" PROVE Contains(s, "close") \/ Contains(r, "close")
      BY DEF Contains
    <3>1. CASE i <= Len(s)
      BY <2>8, <3>1 DEF Contains
    <3>2. CASE i > Len(s)
      <4>1. i - Len(s) \in 1..n /\ q[i - Len(s)] = "close"
        BY <2>3, <2>4, <2>8, <3>2
      <4>2. i - Len(s) \in 1..Len(r) /\ r[i - Len(s)] = "close"
        BY <2>4, <2>5, <4>1
      <4> QED
        BY <4>2 DEF Contains
    <3> QED
      BY <2>8, <3>1, <3>2
  <2> QED
    BY <2>2, <2>8, <2>9 DEF Contains
<1> QED
  BY <1>1, <1>2

\* Asio keeps EndInv, when the other end closes only after this one has begun.
LEMMA EndAsio ==
  ASSUME Orderly, WriterInv, CloseInv, EndInv, Asio, rx \in Seq(Outbound \cup {"fin"}),
         Contains(rx, "fin") => Begun
  PROVE  EndInv'
<1>1. UNCHANGED <<pc, is_closing, close_code, on_close>>
  BY OutsideMovesNone
<1>2. frame_buffer' \in Seq(Outbound)
  BY FramesArrive
<1>3. Ending' => Begun'
  <2>1. CASE Begun
    BY <1>1, <2>1 DEF Begun
  <2>2. CASE ~Begun
    BY <2>2, AsioGoesOn DEF EndInv
  <2> QED
    BY <2>1, <2>2
<1> QED
  BY <1>1, <1>2, <1>3 DEF EndInv

\* And hears what has arrived.
LEMMA HeardAsio ==
  ASSUME Orderly, WriterInv, CloseInv, EndInv, Asio, rx \in Seq(Outbound \cup {"fin"}), ~Heard,
         ~Contains(rx, "fin"), ~Contains(rx, "close")
  PROVE  ~Heard'
<1>1. pc' = pc
  BY OutsideMovesNone
<1>2. ~Contains(frame_buffer, "close")'
  BY FramesArrive DEF Heard
<1>3. ~Ending'
  BY AsioGoesOn DEF Heard
<1> QED
  BY <1>1, <1>2, <1>3 DEF Heard

-----------------------------------------------------------------------------
(* What one end of a stream may rely on, and what it owes the other end:   *)
(* the steps of this end, and what the steps of the other do to the stream.*)

\* All that is known of an end.
ConnectionInv == Control /\ WriterInv /\ CloserInv /\ CloseInv /\ EndInv

\* All of an end but the stream and what bounds the run.
own == <<is_closing, closed, handshake_complete, handlers, close_code, write_queue, write_in_progress,
         close_after_write, sock, read_op, write_op, socket_op_mutex, close_handler_mutex, frame_buffer, pc,
         stack, frame, on_close>>

\* z is what is left of s when some of it has been read.
Rest(z, s) == z = s \/ \E n \in 1..Len(s) : z = SubSeq(s, n + 1, Len(s))

\* An end after the opening handshake, before any frame.
Opened ==
    /\ is_closing = FALSE /\ closed = FALSE /\ handshake_complete = TRUE /\ sock = "open"
    /\ read_op = "pending" /\ write_op = <<>> /\ write_queue = <<>> /\ write_in_progress = FALSE
    /\ close_after_write = FALSE /\ close_code = "normal" /\ frame_buffer = <<>> /\ on_close = <<>> /\ tx = <<>>
    /\ pc = [t \in Thread |-> "idle"] /\ stack = [t \in Thread |-> <<>>]
    /\ frame = [t \in Thread |-> [kind |-> "text", close_after |-> FALSE]]

\* What is left of a sequence has nothing new.
LEMMA RestKeeps ==
  ASSUME NEW S, NEW s \in Seq(S), NEW z, Rest(z, s)
  PROVE  z \in Seq(S) /\ (\A f : Contains(z, f) => Contains(s, f)) /\ (CloseOnce(s) => CloseOnce(z))
<1>1. CASE z = s
  BY <1>1
<1>2. ASSUME NEW n \in 1..Len(s), z = SubSeq(s, n + 1, Len(s))
      PROVE  z \in Seq(S) /\ (\A f : Contains(z, f) => Contains(s, f)) /\ (CloseOnce(s) => CloseOnce(z))
  <2>1. Len(s) \in Nat /\ n \in Nat
    BY LenProperties
  <2>2. Len(z) = Len(s) - n /\ \A i \in 1..Len(z) : z[i] = s[i + n]
    BY <1>2, <2>1
  <2>3. \A i \in 1..Len(z) : i + n \in 1..Len(s)
    BY <2>1, <2>2
  <2>4. z \in Seq(S)
    <3>1. z = [i \in 1..(Len(s) - n) |-> s[i + n]]
      BY <1>2, <2>1
    <3>2. \A i \in 1..(Len(s) - n) : s[i + n] \in S
      BY <2>2, <2>3, ElementOfSeq
    <3>3. z \in [1..(Len(s) - n) -> S]
      BY <3>1, <3>2
    <3>4. Len(s) - n \in Nat
      BY <2>1
    <3> QED
      BY <3>3, <3>4, SeqDef
  <2>5. \A f : Contains(z, f) => Contains(s, f)
    BY <2>2, <2>3 DEF Contains
  <2>6. CloseOnce(s) => CloseOnce(z)
    <3> SUFFICES ASSUME CloseOnce(s), NEW i \in 1..Len(z), NEW j \in 1..Len(z), z[i] = "close", z[j] = "close"
                 PROVE  i = j
      BY DEF CloseOnce
    <3>1. i + n = j + n
      BY <2>2, <2>3 DEF CloseOnce
    <3>2. i \in Int /\ j \in Int
      OBVIOUS
    <3> QED
      BY <2>1, <3>1, <3>2
  <2> QED
    BY <2>4, <2>5, <2>6
<1> QED
  BY <1>1, <1>2 DEF Rest

\* An end that has just opened is in order, and has heard nothing.
LEMMA OpenedInv == Opened => ConnectionInv /\ ~Heard
<1> SUFFICES ASSUME Opened PROVE ConnectionInv /\ ~Heard
  OBVIOUS
<1>1. /\ pc = [t \in Thread |-> "idle"] /\ stack = [t \in Thread |-> <<>>]
      /\ frame = [t \in Thread |-> [kind |-> "text", close_after |-> FALSE]]
      /\ is_closing = FALSE /\ write_queue = <<>> /\ write_in_progress = FALSE /\ write_op = <<>>
      /\ on_close = <<>> /\ close_code = "normal" /\ closed = FALSE /\ tx = <<>> /\ frame_buffer = <<>>
  BY DEF Opened
<1>2. Control
  <2>1. "idle" \in Labels /\ <<>> \in Seq(ReturnPoints)
    BY DEF Labels
  <2> QED
    BY <1>1, <2>1 DEF Control
<1>3. WriterInv
  <2>1. [kind |-> "text", close_after |-> FALSE] \in Frames /\ <<>> \in Seq(Sendable)
    BY DEF Frames, Sendable
  <2>2. WriteTypes
    BY <1>1, <2>1 DEF WriteTypes, WriteOpType
  <2>3. \A u \in Thread : pc[u] \notin WriteSection /\ pc[u] # "handshake"
    BY <1>1 DEF WriteSection
  <2>4. ~Token /\ ~Upgrade /\ OneWriter /\ ~Greeting
    BY <1>1, <2>3 DEF Token, Upgrade, OneWriter, Greeting
  <2> QED
    BY <1>1, <2>2, <2>3, <2>4 DEF WriterInv
<1>4. \A R : "idle" \notin R => \A u \in Thread : ~In(R, u) /\ Sole(R, pc[u], stack[u])
  BY <1>1 DEF In, Holds, Sole
<1>5. CloserInv
  <2>1. \A u \in Thread : ~In({"in_close"}, u) /\ Sole({"in_close"}, pc[u], stack[u])
    BY <1>4
  <2>2. on_close \in Seq(Codes) /\ Len(on_close) <= 1 /\ close_code \in Codes
    BY <1>1 DEF Codes
  <2>3. \A u \in Thread : pc[u] # "lock_close_handler"
    BY <1>1
  <2> QED
    BY <1>1, <2>1, <2>2, <2>3 DEF CloserInv, SoleAll
<1>6. CloseInv
  <2>1. \A t \in Thread : ~Carrying(t)
    BY <1>1 DEF Carrying
  <2>2. /\ ~Contains(tx, "close") /\ CloseOnce(tx) /\ tx \in Seq(Outbound \cup {"fin"})
        /\ ~Contains(write_queue, "close") /\ CloseOnce(write_queue) /\ write_queue \in Seq(Sendable)
    BY <1>1, NoCloseLeft
  <2> QED
    BY <1>1, <2>1, <2>2 DEF CloseInv, OnWire
<1>7. ~Heard
  <2>1. PICK R : R = EndPlaces
    OBVIOUS
  <2>2. \A u \in Thread : ~In(R, u)
    BY <1>4, <2>1 DEF EndPlaces
  <2>3. \A u \in Thread : ~In(EndPlaces, u) /\ ~Ends(u) /\ pc[u] # "answer_close"
    BY <1>1, <2>1, <2>2 DEF Ends
  <2>4. ~Contains(tx, "fin") /\ ~Contains(frame_buffer, "close")
    BY <1>1 DEF Contains
  <2> QED
    BY <2>3, <2>4 DEF Opened, Heard, Ending
<1>8. EndInv
  <2>1. on_close \in Seq(OwnCodes) /\ frame_buffer \in Seq(Outbound)
    BY <1>1
  <2>2. \A u \in Thread : pc[u] = "idle"
    BY <1>1
  <2> QED
    BY <1>1, <1>7, <2>1, <2>2 DEF EndInv, Heard
<1> QED
  BY <1>2, <1>3, <1>5, <1>6, <1>7, <1>8 DEF ConnectionInv

\* A step of this end: it hears only what the other end has sent.
LEMMA OwnStep ==
  ASSUME Orderly, ConnectionInv, rx \in Seq(Outbound \cup {"fin"}), Contains(rx, "fin") => Begun,
         Asio \/ \E t \in Thread : Step(t) \/ UserStep(t)
  PROVE  /\ ConnectionInv' /\ (Begun => Begun') /\ Rest(rx', rx)
         /\ Heard' => Heard \/ Contains(rx, "close") \/ Contains(rx, "fin")
<1>0. Control /\ WriterInv /\ CloserInv /\ CloseInv /\ EndInv /\ [Next]_vars
  BY DEF ConnectionInv, Next
<1>1. Control' /\ WriterInv' /\ CloserInv' /\ CloseInv'
  BY <1>0, WriterStep, CloserStep, CloseStep
<1>2. ASSUME NEW t \in Thread, Step(t) \/ UserStep(t)
      PROVE  EndInv' /\ (Begun => Begun') /\ rx' = rx /\ (Heard' => Heard)
  <2>1. EndInv' /\ (Heard' => Heard)
    BY <1>0, <1>2, EndThreads, HeardThreads
  <2>2. Begun => Begun'
    BY <1>0, <1>2, BegunStays DEF Begun
  <2>3. rx' = rx
    <3>1. CASE Writing(t) \/ UserStep(t) \/ HandlerReturns(t)
      BY <3>1 DEF Writing, SendFrame, SendSocket, Enqueue, Dequeue, StartWrite, UserStep, AppCall, HandlerCall,
         HandlerReturns, net
    <3>2. CASE Closing(t) \/ ForceClosing(t)
      BY <3>2 DEF Closing, Close, CloseCode, AnswerClose, ScheduleClose, DoClose, DispatchClose, CloseHandlerReturns,
         CloseSocket, ForceClosing, ForceClose, ForceCloseHandlers, ForceCloseClosed, ForceCloseSocket, net
    <3>3. CASE Opening(t) \/ Completing(t)
      BY <3>3 DEF Opening, HandshakeRejected, HandshakeAccepted, HandshakeWritten, HandshakeFailed, Completing,
         OnWrite, OnWriteError, WriteFailed, OnRead, OnReadError, net
    <3>4. CASE Reading(t)
      BY <3>4 DEF Reading, StartRead, LockRead, NoMoreFrames, DiscardFrames, HandleMessage, HandlePing,
         HandlePong, HandleBad, HandleClose, AfterFrame, CheckClosed, Dispatch, net
    <3> QED
      BY <1>2, <3>1, <3>2, <3>3, <3>4 DEF Step
  <2> QED
    BY <2>1, <2>2, <2>3
<1>3. ASSUME Asio
      PROVE  /\ EndInv' /\ (Begun => Begun') /\ Rest(rx', rx)
             /\ Heard' => Heard \/ Contains(rx, "close") \/ Contains(rx, "fin")
  <2>1. EndInv' /\ (Heard' => Heard \/ Contains(rx, "close") \/ Contains(rx, "fin"))
    BY <1>0, <1>3, EndAsio, HeardAsio
  <2>2. Begun => Begun'
    BY <1>3, OutsideMovesNone DEF Begun
  <2>3. Rest(rx', rx)
    BY <1>3 DEF Asio, Transmit, Receive, Rest
  <2> QED
    BY <2>1, <2>2, <2>3
<1> QED
  BY <1>1, <1>2, <1>3 DEF ConnectionInv, Rest

\* A step of the other end, which reads some of what this one has sent.
LEMMA OthersStep ==
  ASSUME ConnectionInv, UNCHANGED own, Rest(tx', tx)
  PROVE  ConnectionInv' /\ (Begun' <=> Begun) /\ (Heard' => Heard)
<1>0. /\ UNCHANGED <<is_closing, closed, handshake_complete, handlers, close_code>>
      /\ UNCHANGED <<write_queue, write_in_progress, close_after_write, sock, read_op, write_op>>
      /\ UNCHANGED <<socket_op_mutex, close_handler_mutex, frame_buffer, pc, stack, frame, on_close>>
  BY DEF own
<1>1. Control' /\ CloserInv' /\ (Begun' <=> Begun)
  BY <1>0 DEF ConnectionInv, Control, CloserInv, SoleAll, In, Begun
<1>2. WriterInv'
  BY <1>0 DEF ConnectionInv, WriterInv, WriteTypes, WriteOpType, OneWriter, Token, Greeting, Upgrade
<1>3. PICK S, s, z : S = Outbound \cup {"fin"} /\ s = tx /\ z = tx'
  OBVIOUS
<1>4. s \in Seq(S) /\ Rest(z, s) /\ CloseOnce(s)
  BY <1>3 DEF ConnectionInv, CloseInv
<1>5. z \in Seq(S) /\ (\A f : Contains(z, f) => Contains(s, f)) /\ CloseOnce(z)
  BY <1>4, RestKeeps
<1>6. /\ tx' \in Seq(Outbound \cup {"fin"}) /\ CloseOnce(tx)'
      /\ (Contains(tx, "close")' => Contains(tx, "close")) /\ (Contains(tx, "fin")' => Contains(tx, "fin"))
  BY <1>3, <1>5 DEF CloseOnce, Contains
<1>7. CloseInv'
  <2>1. (OnWire' <=> OnWire) /\ \A u \in Thread : Carrying(u)' <=> Carrying(u)
    BY <1>0 DEF OnWire, Carrying
  <2>2. CloseOnce(write_queue)' /\ (Contains(write_queue, "close")' <=> Contains(write_queue, "close"))
    BY <1>0 DEF ConnectionInv, CloseInv, CloseOnce, Contains
  <2> QED
    BY <1>0, <1>6, <2>1, <2>2 DEF ConnectionInv, CloseInv
<1>8. Ending' => Ending
  BY <1>0, <1>6 DEF Ending, In, Ends
<1>9. (Heard' => Heard)
  BY <1>0, <1>8 DEF Heard, Contains
<1>10. EndInv'
  BY <1>0, <1>1, <1>8 DEF ConnectionInv, EndInv
<1> QED
  BY <1>1, <1>2, <1>7, <1>9, <1>10 DEF ConnectionInv

\* What an end that is in order says by what it has sent, and by what it has done.
LEMMA WhatIsSent ==
  ASSUME ConnectionInv
  PROVE  /\ tx \in Seq(Outbound \cup {"fin"}) /\ (Contains(tx, "close") => Begun)
         /\ Contains(tx, "fin") => Begun /\ Heard
         /\ sock = "null" => Heard
         /\ on_close # <<>> => on_close = <<"peer">> \/ ("close" \in Ops \cup HandlerOps /\ on_close = <<"local">>)
<1>1. tx \in Seq(Outbound \cup {"fin"})
  BY DEF ConnectionInv, CloseInv
<1>2. Contains(tx, "close") => Begun
  <2> SUFFICES ASSUME Contains(tx, "close"), ~Begun PROVE FALSE
    OBVIOUS
  <2>1. is_closing
    BY DEF ConnectionInv, CloseInv
  <2>2. PICK t \in Thread : pc[t] = "close_code"
    BY <2>1 DEF ConnectionInv, EndInv, Begun
  <2>3. Carrying(t)
    BY <2>2 DEF Carrying
  <2> QED
    BY <2>3 DEF ConnectionInv, CloseInv
<1>3. /\ Contains(tx, "fin") => Begun /\ Heard
      /\ sock = "null" => Heard
  BY DEF ConnectionInv, EndInv, Heard, Ending
<1>4. on_close # <<>> => on_close = <<"peer">> \/ ("close" \in Ops \cup HandlerOps /\ on_close = <<"local">>)
  <2> SUFFICES ASSUME on_close # <<>>
               PROVE  on_close = <<"peer">> \/ ("close" \in Ops \cup HandlerOps /\ on_close = <<"local">>)
    OBVIOUS
  <2>1. on_close \in Seq(OwnCodes)
    BY DEF ConnectionInv, EndInv
  <2>2. Len(on_close) = 1 /\ on_close[1] \in OwnCodes
    <3>0. PICK n : n = Len(on_close)
      OBVIOUS
    <3>1. n \in Nat /\ n # 0 /\ n <= 1
      BY <2>1, <3>0, EmptySeq, LenProperties DEF ConnectionInv, CloserInv
    <3>2. Len(on_close) = 1
      BY <3>0, <3>1
    <3> QED
      BY <2>1, <3>2, ElementOfSeq
  <2>3. on_close = <<on_close[1]>>
    BY <2>1, <2>2
  <2>4. on_close[1] = "peer" \/ (on_close[1] = "local" /\ "close" \in Ops \cup HandlerOps)
    BY <2>2 DEF OwnCodes
  <2> QED
    BY <2>3, <2>4
<1> QED
  BY <1>1, <1>2, <1>3, <1>4
=============================================================================
