----------------------------- MODULE RepeProofs -----------------------------
(***************************************************************************)
(* What is proved of the sockets of an asio_client for any callers, any    *)
(* size the pool may grow to and any failures.                             *)
(***************************************************************************)
EXTENDS Repe, SequenceTheorems, TLAPS

\* Where the indices are: a caller has one from get() until it gives it back.
HeldOnTheWay == \A c \in Caller : at[c] \in {"idle", "get"} <=> held[c] = NoIndex

\* The indices are those of the pool as it has grown.
InRange ==
    /\ size \in Nat \ {0} /\ size <= MaxSockets
    /\ available \in Seq(1..size)
    /\ held \in [Caller -> 0..size]

\* The inductive invariant: that a caller on its way holds an index is what keeps
\* Free from putting back none, and Get from taking a second one.
PoolInv ==
    /\ InRange
    /\ link \in [Index -> {"none", "up", "down"}] /\ is_connected \in BOOLEAN
    /\ at \in [Caller -> Places]
    /\ HeldOnTheWay /\ OneUser /\ NoneIsMissing

-----------------------------------------------------------------------------
\* The indices of a new or of a doubled pool are its own, each once, and all there.
LEMMA GrownPool ==
  ASSUME PoolInv
  PROVE  /\ NewSize \in Nat \ {0} /\ size <= NewSize
         /\ Grown \in Seq(1..NewSize) /\ Grown # <<>>
         /\ \A i, j \in 1..Len(Grown) : Grown[i] = Grown[j] => i = j
         /\ \A c \in Caller, i \in 1..Len(Grown) : held[c] # Grown[i]
         /\ \A i \in 1..NewSize : (\E k \in 1..Len(Grown) : Grown[k] = i) \/ (\E c \in Caller : held[c] = i)
<1>0. /\ size \in Nat \ {0} /\ available \in Seq(1..size) /\ held \in [Caller -> 0..size]
      /\ DOMAIN available = 1..Len(available)
  BY DEF PoolInv, InRange
<1>1. CASE available # <<>>
  <2>1. NewSize = size /\ Grown = available
    BY <1>1 DEF NewSize, Grown
  <2>2. NewSize \in Nat \ {0} /\ size <= NewSize /\ Grown \in Seq(1..NewSize) /\ Grown # <<>>
    BY <1>0, <1>1, <2>1
  <2>3. DOMAIN available = 1..Len(Grown)
    BY <1>0, <2>1
  <2>4. \A i, j \in 1..Len(Grown) : Grown[i] = Grown[j] => i = j
    BY <2>1, <2>3 DEF PoolInv, OneUser
  <2>5. \A c \in Caller, i \in 1..Len(Grown) : held[c] # Grown[i]
    BY <2>1, <2>3 DEF PoolInv, OneUser
  <2>6. \A i \in 1..NewSize : (\E k \in 1..Len(Grown) : Grown[k] = i) \/ (\E c \in Caller : held[c] = i)
    BY <2>1, <2>3 DEF PoolInv, NoneIsMissing
  <2> QED
    BY <2>2, <2>4, <2>5, <2>6
<1>2. CASE available = <<>>
  <2>1. NewSize = 2 * size /\ Grown = [k \in 1..size |-> size + k]
    BY <1>2 DEF NewSize, Grown
  <2>0. NewSize \in Nat \ {0} /\ size <= NewSize
    BY <1>0, <2>1
  <2>2. Len(Grown) = size /\ Grown \in Seq(1..NewSize) /\ Grown # <<>>
    BY <1>0, <2>1
  <2>3. \A i \in 1..size : \E c \in Caller : held[c] = i
    BY <1>0, <1>2 DEF PoolInv, NoneIsMissing
  <2>4. \A i \in 1..NewSize : i > size => \E k \in 1..size : Grown[k] = i
    <3> TAKE i \in 1..NewSize
    <3> HAVE i > size
    <3>1. i - size \in 1..size /\ Grown[i - size] = i
      BY <1>0, <2>1
    <3> QED
      BY <3>1
  <2>5. \A k \in 1..size : Grown[k] = size + k
    BY <2>1
  <2>6. \A c \in Caller : held[c] \in 0..size
    BY <1>0
  <2>7. \A c \in Caller, i \in 1..Len(Grown) : held[c] # Grown[i]
    BY <1>0, <2>2, <2>5, <2>6
  <2>8. \A i, j \in 1..Len(Grown) : Grown[i] = Grown[j] => i = j
    BY <1>0, <2>2, <2>5
  <2>9. \A i \in 1..NewSize : (\E k \in 1..Len(Grown) : Grown[k] = i) \/ (\E c \in Caller : held[c] = i)
    BY <1>0, <2>1, <2>2, <2>3, <2>4
  <2> QED
    BY <2>0, <2>2, <2>7, <2>8, <2>9
<1> QED
  BY <1>1, <1>2

\* Taking the last element of a sequence leaves the others where they are.
LEMMA LastAndFront ==
  ASSUME NEW S, NEW s \in Seq(S), s # <<>>
  PROVE  /\ Len(s) \in Nat \ {0} /\ Last(s) = s[Len(s)] /\ Last(s) \in S
         /\ Front(s) \in Seq(S) /\ Len(Front(s)) = Len(s) - 1
         /\ \A k \in 1..(Len(s) - 1) : Front(s)[k] = s[k]
<1>1. Len(s) \in Nat \ {0}
  BY EmptySeq
<1>2. Last(s) = s[Len(s)] /\ Last(s) \in S
  BY <1>1, ElementOfSeq DEF Last
<1>3. \A k \in 1..(Len(s) - 1) : s[k] \in S
  BY <1>1, ElementOfSeq
<1>4. Front(s) = [k \in 1..(Len(s) - 1) |-> s[k]]
  BY <1>1 DEF Front
<1> QED
  BY <1>1, <1>2, <1>3, <1>4

-----------------------------------------------------------------------------
(* PoolInv is inductive.                                                   *)

\* A new pool with nobody calling.
NewAndIdle ==
    /\ size = Initial /\ available = [k \in 1..Initial |-> k]
    /\ link \in [Index -> {"none", "up", "down"}] /\ is_connected \in BOOLEAN
    /\ at = [c \in Caller |-> "idle"] /\ held = [c \in Caller |-> NoIndex]

\* It satisfies the invariant.
LEMMA NewPoolIsExact == NewAndIdle => PoolInv
<1> SUFFICES ASSUME NewAndIdle PROVE PoolInv
  OBVIOUS
<1> USE DEF NewAndIdle
<1>1. Initial \in Nat \ {0} /\ Initial <= MaxSockets
  BY BoundsAssumption DEF Index
<1>2. available \in Seq(1..size) /\ DOMAIN available = 1..size /\ \A k \in 1..size : available[k] = k
  BY <1>1
<1>3. held \in [Caller -> 0..size] /\ \A c \in Caller : held[c] = 0
  BY <1>1 DEF NoIndex
<1>4. InRange
  BY <1>1, <1>2, <1>3 DEF InRange
<1>5. OneUser
  BY <1>1, <1>2, <1>3 DEF OneUser, NoIndex
<1>6. NoneIsMissing
  BY <1>2 DEF NoneIsMissing
<1>7. at \in [Caller -> Places] /\ HeldOnTheWay
  BY DEF Places, HeldOnTheWay
<1> QED
  BY <1>4, <1>5, <1>6, <1>7 DEF PoolInv

\* The first pool is one.
LEMMA PoolInit == Init => PoolInv
<1> SUFFICES ASSUME Init PROVE PoolInv
  OBVIOUS
<1>1. link \in [Index -> {"none", "up", "down"}] /\ is_connected \in BOOLEAN
  BY DEF Init
<1> QED
  BY <1>1, NewPoolIsExact DEF Init, NewAndIdle

\* A step that leaves the pool alone and moves one caller on, inside or outside its call.
LEMMA Moved ==
  ASSUME PoolInv, UNCHANGED <<size, available, held>>,
         link' \in [Index -> {"none", "up", "down"}], is_connected' \in BOOLEAN,
         at' \in [Caller -> Places], HeldOnTheWay'
  PROVE  PoolInv'
BY DEF PoolInv, InRange, OneUser, NoneIsMissing

\* get() takes one socket from the pool, which may have to grow.
LEMMA GetKeeps ==
  ASSUME PoolInv, NEW c \in Caller, Get(c)
  PROVE  PoolInv'
<1> DEFINE n == Len(Grown)
           i == Last(Grown)
<1>1. /\ NewSize \in Nat \ {0} /\ size <= NewSize
      /\ Grown \in Seq(1..NewSize) /\ Grown # <<>>
      /\ \A j, k \in 1..n : Grown[j] = Grown[k] => j = k
      /\ \A d \in Caller, k \in 1..n : held[d] # Grown[k]
      /\ \A j \in 1..NewSize : (\E k \in 1..n : Grown[k] = j) \/ (\E d \in Caller : held[d] = j)
  BY GrownPool
<1>2. /\ n \in Nat \ {0} /\ i = Grown[n] /\ i \in 1..NewSize
      /\ Front(Grown) \in Seq(1..NewSize) /\ Len(Front(Grown)) = n - 1
      /\ \A k \in 1..(n - 1) : Front(Grown)[k] = Grown[k]
  BY <1>1, LastAndFront
<1>3. /\ at[c] = "get" /\ NewSize <= MaxSockets
      /\ size' = NewSize /\ available' = Front(Grown) /\ held' = [held EXCEPT ![c] = i]
      /\ at' = [at EXCEPT ![c] = "send"] \/ at' = [at EXCEPT ![c] = "lost"]
  BY DEF Get, Goto
<1>4. /\ size \in Nat /\ held \in [Caller -> 0..size] /\ at \in [Caller -> Places]
      /\ HeldOnTheWay /\ OneUser
  BY DEF PoolInv, InRange
<1>5. held[c] = NoIndex
  BY <1>3, <1>4 DEF HeldOnTheWay
<1>6. InRange'
  <2>1. \A d \in Caller : held[d] \in 0..NewSize
    BY <1>1, <1>4
  <2>2. held' \in [Caller -> 0..NewSize]
    BY <1>1, <1>2, <1>3, <1>4, <2>1
  <2> QED
    BY <1>1, <1>2, <1>3, <2>2 DEF InRange
<1>7. /\ held'[c] = i
      /\ \A d \in Caller : d # c => held'[d] = held[d]
  BY <1>3, <1>4
<1>8. /\ DOMAIN available' = 1..(n - 1)
      /\ \A k \in 1..(n - 1) : k \in 1..n /\ k # n /\ available'[k] = Grown[k]
  BY <1>2, <1>3
<1>9. n \in 1..n
  BY <1>2
<1>10. OneUser'
  <2>1. ASSUME NEW d \in Caller, NEW e \in Caller, d # e, held'[d] # NoIndex
        PROVE  held'[d] # held'[e]
    <3>1. \A x \in Caller : held[x] # i
      BY <1>1, <1>2, <1>9
    <3>2. CASE d # c /\ e # c
      BY <1>4, <1>7, <2>1, <3>2 DEF OneUser
    <3>3. CASE d = c
      <4>1. held'[d] = i /\ held'[e] = held[e]
        BY <1>7, <2>1, <3>3
      <4> QED
        BY <3>1, <4>1
    <3>4. CASE e = c
      <4>1. held'[e] = i /\ held'[d] = held[d]
        BY <1>7, <2>1, <3>4
      <4> QED
        BY <3>1, <4>1
    <3> QED
      BY <3>2, <3>3, <3>4
  <2>2. ASSUME NEW j \in DOMAIN available', NEW k \in DOMAIN available', available'[j] = available'[k]
        PROVE  j = k
    BY <1>1, <1>8, <2>2
  <2>3. ASSUME NEW d \in Caller, NEW k \in DOMAIN available'
        PROVE  held'[d] # available'[k]
    <3>1. k \in 1..n /\ k # n /\ available'[k] = Grown[k]
      BY <1>8
    <3>2. CASE d = c
      <4>1. held'[d] = Grown[n]
        BY <1>2, <1>7, <3>2
      <4> QED
        BY <1>1, <1>9, <3>1, <4>1
    <3>3. CASE d # c
      BY <1>1, <1>7, <3>1, <3>3
    <3> QED
      BY <3>2, <3>3
  <2> QED
    BY <2>1, <2>2, <2>3 DEF OneUser
<1>11. NoneIsMissing'
  <2> SUFFICES ASSUME NEW j \in 1..NewSize
               PROVE  (\E k \in DOMAIN available' : available'[k] = j) \/ (\E d \in Caller : held'[d] = j)
    BY <1>3 DEF NoneIsMissing
  <2>1. CASE \E d \in Caller : held[d] = j
    <3>1. PICK d \in Caller : held[d] = j
      BY <2>1
    <3>2. d # c
      BY <1>5, <3>1 DEF NoIndex
    <3> QED
      BY <1>7, <3>1, <3>2
  <2>2. CASE \E k \in 1..n : Grown[k] = j
    <3>1. PICK k \in 1..n : Grown[k] = j
      BY <2>2
    <3>2. CASE k = n
      BY <1>2, <1>7, <3>1, <3>2
    <3>3. CASE k # n
      <4>1. k \in 1..(n - 1)
        BY <1>2, <3>3
      <4> QED
        BY <1>8, <3>1, <4>1
    <3> QED
      BY <3>2, <3>3
  <2> QED
    BY <1>1, <2>1, <2>2
<1>12. at' \in [Caller -> Places] /\ HeldOnTheWay'
  <2>1. i # NoIndex
    BY <1>1, <1>2 DEF NoIndex
  <2>2. at' \in [Caller -> Places]
    BY <1>3, <1>4 DEF Places
  <2>3. at'[c] \notin {"idle", "get"} /\ \A d \in Caller : d # c => at'[d] = at[d]
    BY <1>3, <1>4
  <2> QED
    BY <1>4, <1>7, <2>1, <2>2, <2>3 DEF HeldOnTheWay
<1>13. link' \in [Index -> {"none", "up", "down"}] /\ is_connected' \in BOOLEAN
  BY DEF Get, PoolInv
<1> QED
  BY <1>6, <1>10, <1>11, <1>12, <1>13 DEF PoolInv

\* The destructor of a unique_socket puts its index back.
LEMMA FreeKeeps ==
  ASSUME PoolInv, NEW c \in Caller, Free(c)
  PROVE  PoolInv'
<1> DEFINE n == Len(available)
<1>1. /\ at[c] = "free" /\ size' = size
      /\ available' = Append(available, held[c])
      /\ held' = [held EXCEPT ![c] = NoIndex] /\ at' = [at EXCEPT ![c] = "idle"]
  BY DEF Free, Goto
<1>2. /\ size \in Nat \ {0} /\ size <= MaxSockets /\ available \in Seq(1..size)
      /\ held \in [Caller -> 0..size] /\ at \in [Caller -> Places]
      /\ HeldOnTheWay /\ OneUser /\ NoneIsMissing
  BY DEF PoolInv, InRange
<1>3. held[c] \in 1..size /\ held[c] # NoIndex
  BY <1>1, <1>2 DEF HeldOnTheWay, NoIndex
<1>4. /\ n \in Nat /\ available' \in Seq(1..size) /\ Len(available') = n + 1
      /\ \A k \in 1..n : available'[k] = available[k]
      /\ available'[n + 1] = held[c]
  BY <1>1, <1>2, <1>3, AppendProperties, LenProperties
<1>5. DOMAIN available = 1..n /\ DOMAIN available' = 1..(n + 1)
  BY <1>2, <1>4
<1>6. held'[c] = NoIndex /\ \A d \in Caller : d # c => held'[d] = held[d]
  BY <1>1, <1>2
<1>7. \A k \in 1..(n + 1) : k \in 1..n \/ k = n + 1
  BY <1>4
<1>8. InRange'
  <2>1. held' \in [Caller -> 0..size]
    BY <1>1, <1>2 DEF NoIndex
  <2> QED
    BY <1>1, <1>2, <1>4, <2>1 DEF InRange
<1>9. \A k \in 1..n : available[k] # held[c]
  BY <1>2, <1>5 DEF OneUser
<1>10. OneUser'
  <2>1. ASSUME NEW d \in Caller, NEW e \in Caller, d # e, held'[d] # NoIndex
        PROVE  held'[d] # held'[e]
    BY <1>2, <1>6, <2>1 DEF OneUser
  <2>2. ASSUME NEW j \in 1..(n + 1), NEW k \in 1..(n + 1), available'[j] = available'[k]
        PROVE  j = k
    <3>1. CASE j \in 1..n /\ k \in 1..n
      BY <1>2, <1>4, <1>5, <2>2, <3>1 DEF OneUser
    <3>2. CASE j = n + 1 \/ k = n + 1
      BY <1>4, <1>7, <1>9, <2>2, <3>2
    <3> QED
      BY <1>7, <3>1, <3>2
  <2>3. ASSUME NEW d \in Caller, NEW k \in 1..(n + 1)
        PROVE  held'[d] # available'[k]
    <3>1. CASE d = c
      <4>1. available'[k] \in 1..size
        BY <1>4, ElementOfSeq
      <4> QED
        BY <1>2, <1>6, <3>1, <4>1 DEF NoIndex
    <3>2. CASE d # c
      <4>1. CASE k \in 1..n
        BY <1>2, <1>4, <1>5, <1>6, <3>2, <4>1 DEF OneUser
      <4>2. CASE k = n + 1
        BY <1>2, <1>3, <1>4, <1>6, <3>2, <4>2 DEF OneUser
      <4> QED
        BY <1>7, <4>1, <4>2
    <3> QED
      BY <3>1, <3>2
  <2> QED
    BY <1>5, <2>1, <2>2, <2>3 DEF OneUser
<1>11. NoneIsMissing'
  <2> SUFFICES ASSUME NEW j \in 1..size
               PROVE  (\E k \in 1..(n + 1) : available'[k] = j) \/ (\E d \in Caller : held'[d] = j)
    BY <1>1, <1>5 DEF NoneIsMissing
  <2>1. CASE \E k \in 1..n : available[k] = j
    <3>1. PICK k \in 1..n : available[k] = j
      BY <2>1
    <3>2. k \in 1..(n + 1)
      BY <1>4
    <3> QED
      BY <1>4, <3>1, <3>2
  <2>2. CASE \E d \in Caller : held[d] = j
    <3>1. PICK d \in Caller : held[d] = j
      BY <2>2
    <3>2. CASE d = c
      <4>1. n + 1 \in 1..(n + 1)
        BY <1>4
      <4> QED
        BY <1>4, <3>1, <3>2, <4>1
    <3>3. CASE d # c
      BY <1>6, <3>1, <3>3
    <3> QED
      BY <3>2, <3>3
  <2> QED
    BY <1>2, <1>5, <2>1, <2>2 DEF NoneIsMissing
<1>12. at' \in [Caller -> Places] /\ HeldOnTheWay'
  <2>1. at' \in [Caller -> Places] /\ at'[c] = "idle" /\ \A d \in Caller : d # c => at'[d] = at[d]
    BY <1>1, <1>2 DEF Places
  <2> QED
    BY <1>2, <1>6, <2>1 DEF HeldOnTheWay
<1>13. link' \in [Index -> {"none", "up", "down"}] /\ is_connected' \in BOOLEAN
  BY DEF Free, PoolInv
<1> QED
  BY <1>8, <1>10, <1>11, <1>12, <1>13 DEF PoolInv

\* One case per action; what does not touch the pool goes by Moved.
LEMMA PoolStep == PoolInv /\ [Next]_vars => PoolInv'
<1> SUFFICES ASSUME PoolInv, [Next]_vars PROVE PoolInv'
  OBVIOUS
<1>1. /\ at \in [Caller -> Places] /\ HeldOnTheWay
      /\ link \in [Index -> {"none", "up", "down"}] /\ is_connected \in BOOLEAN
  BY DEF PoolInv
<1>2. ASSUME NEW c \in Caller, NEW place \in Places, at' = [at EXCEPT ![c] = place], held' = held,
             place \in {"idle", "get"} <=> at[c] \in {"idle", "get"}
      PROVE  at' \in [Caller -> Places] /\ HeldOnTheWay'
  BY <1>1, <1>2 DEF HeldOnTheWay
<1>3. ASSUME UNCHANGED <<at, held>>
      PROVE  at' \in [Caller -> Places] /\ HeldOnTheWay'
  BY <1>1, <1>3 DEF HeldOnTheWay
<1>4. ASSUME NEW c \in Caller, Call(c) PROVE PoolInv'
  <2>1. at' \in [Caller -> Places] /\ HeldOnTheWay'
    <3>1. "get" \in Places
      BY DEF Places
    <3> QED
      BY <1>2, <1>3, <1>4, <3>1 DEF Call, Goto
  <2> QED
    BY <1>1, <1>4, <2>1, Moved DEF Call, pool
<1>5. ASSUME NEW c \in Caller, Send(c) \/ Receive(c) \/ Lost(c) PROVE PoolInv'
  <2>1. at[c] \in {"send", "receive", "lost"} /\ held' = held /\ UNCHANGED <<size, available>>
    BY <1>5 DEF Send, Receive, Lost, pool
  <2>2. \E place \in {"receive", "lost", "free"} : at' = [at EXCEPT ![c] = place]
    BY <1>5 DEF Send, Receive, Lost, Goto
  <2>3. at' \in [Caller -> Places] /\ HeldOnTheWay'
    BY <1>2, <2>1, <2>2 DEF Places
  <2>4. link' = link /\ is_connected' \in BOOLEAN
    BY <1>1, <1>5 DEF Send, Receive, Lost
  <2> QED
    BY <1>1, <2>1, <2>3, <2>4, Moved
<1>6. ASSUME NEW i \in Index, Run(i) \/ Drop(i) PROVE PoolInv'
  <2>1. UNCHANGED <<size, available, held, at, is_connected>>
    BY <1>6 DEF Run, Serve, Answer, Drop, pool
  <2>2. link' \in [Index -> {"none", "up", "down"}]
    BY <1>1, <1>6 DEF Run, Serve, Answer, Drop
  <2> QED
    BY <1>1, <1>3, <2>1, <2>2, Moved
<1>7. ASSUME Reinit PROVE PoolInv'
  <2>1. /\ size' = Initial /\ available' = [k \in 1..Initial |-> k]
        /\ link' \in [Index -> {"none", "up", "down"}] /\ is_connected' \in BOOLEAN
    BY <1>7 DEF Reinit, NewPool
  <2>2. at' = at /\ held' = held /\ \A c \in Caller : at[c] = "idle"
    BY <1>7 DEF Reinit
  <2>3. at' = [c \in Caller |-> "idle"]
    BY <1>1, <2>2
  <2>4. held' = [c \in Caller |-> NoIndex]
    BY <1>1, <2>2 DEF HeldOnTheWay, PoolInv, InRange
  <2>5. NewAndIdle'
    BY <2>1, <2>3, <2>4 DEF NewAndIdle
  <2>6. NewAndIdle' => PoolInv'
    BY NewPoolIsExact, PTL
  <2> QED
    BY <2>5, <2>6
<1>8. CASE UNCHANGED vars
  BY <1>1, <1>3, <1>8, Moved DEF vars, pool
<1> QED
  BY <1>4, <1>5, <1>6, <1>7, <1>8, GetKeeps, FreeKeeps DEF Next, Step

-----------------------------------------------------------------------------
(* The theorems.                                                           *)

\* The strengthening holds in every state.
LEMMA PoolInvariant == Spec => []PoolInv
<1>1. Init => PoolInv
  BY PoolInit
<1>2. PoolInv /\ [Next]_vars => PoolInv'
  BY PoolStep
<1> QED
  BY <1>1, <1>2, PTL DEF Spec

(* The variables of the pool and of the client keep their types for any    *)
(* callers and any bound on the pool (socket_pool, asio_client).           *)
THEOREM TypeCorrect == Spec => []TypeOK
<1>1. PoolInv => TypeOK
  <2> SUFFICES ASSUME PoolInv PROVE TypeOK
    OBVIOUS
  <2>1. size \in Nat \ {0} /\ size <= MaxSockets /\ MaxSockets \in Nat
    BY BoundsAssumption DEF PoolInv, InRange
  <2>2. \A i \in 1..size : i \in Index
    BY <2>1 DEF Index
  <2>3. available \in Seq(Index)
    <3>1. /\ available \in Seq(1..size) /\ Len(available) \in Nat
          /\ available = [k \in 1..Len(available) |-> available[k]]
      BY DEF PoolInv, InRange
    <3>2. \A k \in 1..Len(available) : available[k] \in Index
      BY <2>2, <3>1, ElementOfSeq
    <3> QED
      BY <3>1, <3>2
  <2>4. held \in [Caller -> Index \cup {NoIndex}]
    <3>1. \A i \in 0..size : i \in Index \cup {NoIndex}
      BY <2>1 DEF Index, NoIndex
    <3> QED
      BY <3>1 DEF PoolInv, InRange
  <2> QED
    BY <2>1, <2>3, <2>4 DEF PoolInv, TypeOK
<1> QED
  BY <1>1, PoolInvariant, PTL

(* No two calls use one socket, and none that is used is in the pool: for  *)
(* any number of threads, through growth, failures and a new pool          *)
(* (socket_pool::get and free, unique_socket).                             *)
THEOREM OneUserOfASocket == Spec => []OneUser
<1>1. PoolInv => OneUser
  BY DEF PoolInv
<1> QED
  BY <1>1, PoolInvariant, PTL

(* No socket is ever lost to the pool, whatever fails: each is free or in  *)
(* the hands of a call (socket_pool, unique_socket).                       *)
THEOREM NoSocketIsLost == Spec => []NoneIsMissing
<1>1. PoolInv => NoneIsMissing
  BY DEF PoolInv
<1> QED
  BY <1>1, PoolInvariant, PTL


-----------------------------------------------------------------------------
(* The answers.  Nothing on the wire says which request an answer is for,  *)
(* so the invariant follows the one request that a socket may be waiting   *)
(* with, from the buffer of the server to the buffer of its caller.        *)

\* No endpoint throws at a notification, and the server has no handler of its own.
Mannered == ~NotifyThrows /\ ~CustomCall

Requests == [id : Caller \X Nat, notify : BOOLEAN]
Ids == {NoReply} \cup (Caller \X Nat)

\* A buffer of notifications, and one that the request id follows.
OnlyNotes(s) == \A k \in 1..Len(s) : s[k].notify
EndsWith(s, id) == s # <<>> /\ s[Len(s)] = [id |-> id, notify |-> FALSE] /\ \A k \in 1..(Len(s) - 1) : s[k].notify

\* Nothing on the connection will be answered; or the request of c will be, or has been.
Silent(i) == wire[i] = <<>> /\ ~sending[i] /\ OnlyNotes(inbox[i])
Asked(i, c) == wire[i] = <<>> /\ ~sending[i] /\ EndsWith(inbox[i], Id(c))
Answering(i, c) == wire[i] = <<>> /\ sending[i] /\ reply[i] = Id(c) /\ inbox[i] = <<>>
Answered(i, c) == wire[i] = <<Id(c)>> /\ ~sending[i] /\ inbox[i] = <<>>
Waits(i, c) == at[c] = "receive" /\ held[c] = i /\ (Asked(i, c) \/ Answering(i, c) \/ Answered(i, c))
Carries(i) == Silent(i) \/ \E c \in Caller : Waits(i, c)

\* A connection that is not up carries at most an answer, and one never made not even that.
Gone(i) == /\ link[i] # "up" => inbox[i] = <<>> /\ ~sending[i]
           /\ link[i] = "none" => wire[i] = <<>>

WireTypes ==
    /\ msg \in [Caller -> [n : Nat, notify : BOOLEAN]]
    /\ answer \in [Caller -> Ids]
    /\ inbox \in [Index -> Seq(Requests)] /\ sending \in [Index -> BOOLEAN]
    /\ wire \in [Index -> Seq(Ids)] /\ reply \in [Index -> Ids]

\* What the answers need beside PoolInv: that it is the caller's own connection
\* and that nobody else's request is on it.
WireInv ==
    /\ WireTypes
    /\ \A i \in Index : Gone(i) /\ Carries(i)
    /\ ResponseIsOwn

\* An identifier is one, and is not the absence of an answer.
LEMMA IdIsAnId ==
  ASSUME WireTypes, NEW c \in Caller
  PROVE  Id(c) \in Caller \X Nat /\ Id(c) \in Ids /\ Id(c) # NoReply
<1>1. msg[c].n \in Nat
  BY DEF WireTypes
<1>2. Len(Id(c)) = 2 /\ Len(NoReply) = 0
  BY DEF Id, NoReply
<1> QED
  BY <1>1, <1>2 DEF Id, Ids

\* What a socket carries while neither it nor the caller it serves moves.
LEMMA Untouched ==
  ASSUME NEW i \in Index, Gone(i), Carries(i),
         inbox'[i] = inbox[i], wire'[i] = wire[i], sending'[i] = sending[i], reply'[i] = reply[i],
         link'[i] = link[i] \/ link[i] = "none",
         \A c \in Caller : at[c] = "receive" /\ held[c] = i =>
             at'[c] = "receive" /\ held'[c] = i /\ msg'[c] = msg[c]
  PROVE  Gone(i)' /\ Carries(i)'
<1>1. Gone(i)'
  BY DEF Gone
<1>2. ASSUME Silent(i) PROVE Carries(i)'
  BY <1>2 DEF Carries, Silent
<1>3. ASSUME \E c \in Caller : Waits(i, c) PROVE Carries(i)'
  <2>1. PICK c \in Caller : Waits(i, c)
    BY <1>3
  <2>2. at'[c] = "receive" /\ held'[c] = i /\ msg'[c] = msg[c]
    BY <2>1 DEF Waits
  <2>3. Id(c)' = Id(c)
    BY <2>2 DEF Id
  <2>4. Waits(i, c)'
    BY <2>1, <2>2, <2>3 DEF Waits, Asked, Answering, Answered
  <2> QED
    BY <2>4 DEF Carries
<1> QED
  BY <1>1, <1>2, <1>3 DEF Carries

\* The caller of a connection is the only one that can be waiting at it.
LEMMA HeldBySomeone ==
  ASSUME PoolInv, NEW c \in Caller, at[c] \notin {"idle", "get"}
  PROVE  /\ held[c] \in Index
         /\ \A d \in Caller : held[d] = held[c] => d = c
<1>1. held[c] # NoIndex /\ held[c] \in 0..size /\ size \in Nat /\ size <= MaxSockets /\ MaxSockets \in Nat
  BY BoundsAssumption DEF PoolInv, InRange, HeldOnTheWay
<1>2. held[c] \in Index
  BY <1>1 DEF Index, NoIndex
<1> QED
  BY <1>1, <1>2 DEF PoolInv, OneUser

\* So a caller that is not waiting for an answer finds its connection silent.
LEMMA SilentAtHand ==
  ASSUME PoolInv, WireInv, NEW c \in Caller, at[c] \notin {"idle", "get", "receive"}
  PROVE  Silent(held[c])
<1>1. held[c] \in Index /\ \A d \in Caller : held[d] = held[c] => d = c
  BY HeldBySomeone
<1>2. Carries(held[c])
  BY <1>1 DEF WireInv
<1>3. \A d \in Caller : ~Waits(held[c], d)
  BY <1>1 DEF Waits
<1> QED
  BY <1>2, <1>3 DEF Carries

\* And one that is waiting finds its own answer there or none.
LEMMA OwnAtHand ==
  ASSUME PoolInv, WireInv, NEW c \in Caller, at[c] = "receive"
  PROVE  Silent(held[c]) \/ Waits(held[c], c)
<1>1. held[c] \in Index /\ \A d \in Caller : held[d] = held[c] => d = c
  BY HeldBySomeone
<1>2. Carries(held[c])
  BY <1>1 DEF WireInv
<1>3. \A d \in Caller : Waits(held[c], d) => d = c
  BY <1>1 DEF Waits
<1> QED
  BY <1>2, <1>3 DEF Carries

\* A request put behind notifications is the one that will be answered.
LEMMA PutBehind ==
  ASSUME NEW s \in Seq(Requests), OnlyNotes(s), NEW m \in Requests
  PROVE  /\ Append(s, m) \in Seq(Requests)
         /\ m.notify => OnlyNotes(Append(s, m))
         /\ \A id : m = [id |-> id, notify |-> FALSE] => EndsWith(Append(s, m), id)
<1>1. /\ Append(s, m) \in Seq(Requests) /\ Len(Append(s, m)) = Len(s) + 1 /\ Len(s) \in Nat
      /\ \A k \in 1..Len(s) : Append(s, m)[k] = s[k]
      /\ Append(s, m)[Len(s) + 1] = m
  BY AppendProperties, LenProperties
<1>2. \A k \in 1..(Len(s) + 1) : k \in 1..Len(s) \/ k = Len(s) + 1
  BY <1>1
<1>3. m.notify => OnlyNotes(Append(s, m))
  BY <1>1, <1>2 DEF OnlyNotes
<1>4. Append(s, m) # <<>>
  BY <1>1
<1>5. \A k \in 1..(Len(Append(s, m)) - 1) : Append(s, m)[k].notify
  BY <1>1 DEF OnlyNotes
<1>6. Append(s, m)[Len(Append(s, m))] = m
  BY <1>1
<1> QED
  BY <1>1, <1>3, <1>4, <1>5, <1>6 DEF EndsWith

\* The server takes the notifications off the front, and the request last.
LEMMA TakenOff ==
  ASSUME NEW s \in Seq(Requests), s # <<>>
  PROVE  /\ Head(s) \in Requests /\ Tail(s) \in Seq(Requests)
         /\ OnlyNotes(s) => Head(s).notify /\ OnlyNotes(Tail(s))
         /\ \A id : EndsWith(s, id) =>
              \/ Head(s).notify /\ EndsWith(Tail(s), id)
              \/ Head(s) = [id |-> id, notify |-> FALSE] /\ Tail(s) = <<>>
<1>0. PICK n : n = Len(s)
  OBVIOUS
<1>1. n \in Nat \ {0}
  BY <1>0, EmptySeq
<1>2. /\ Head(s) = s[1] /\ Head(s) \in Requests /\ Tail(s) \in Seq(Requests) /\ Len(Tail(s)) = n - 1
      /\ \A k \in 1..(n - 1) : Tail(s)[k] = s[k + 1]
  BY <1>0, <1>1, HeadTailProperties, ElementOfSeq
<1>3. OnlyNotes(s) => Head(s).notify /\ OnlyNotes(Tail(s))
  BY <1>0, <1>1, <1>2 DEF OnlyNotes
<1>4. ASSUME NEW id, EndsWith(s, id)
      PROVE  \/ Head(s).notify /\ EndsWith(Tail(s), id)
             \/ Head(s) = [id |-> id, notify |-> FALSE] /\ Tail(s) = <<>>
  <2>1. s[n] = [id |-> id, notify |-> FALSE] /\ \A k \in 1..(n - 1) : s[k].notify
    BY <1>0, <1>4 DEF EndsWith
  <2>2. CASE n = 1
    <3>0. Len(Tail(s)) = 0
      BY <1>2, <2>2
    <3>1. Tail(s) = <<>>
      BY <1>2, <3>0, EmptySeq
    <3> QED
      BY <1>2, <2>1, <2>2, <3>1
  <2>3. CASE n # 1
    <3>1. n - 1 \in 1..(n - 1) /\ 1 \in 1..(n - 1)
      BY <1>1, <2>3
    <3>2. Head(s).notify
      BY <1>2, <2>1, <3>1
    <3>3. Tail(s) # <<>> /\ Tail(s)[Len(Tail(s))] = [id |-> id, notify |-> FALSE]
      <4>1. Len(Tail(s)) # 0 /\ Tail(s)[n - 1] = s[n]
        BY <1>1, <1>2, <2>3, <3>1
      <4>2. Tail(s) # <<>>
        BY <1>2, <4>1, EmptySeq
      <4> QED
        BY <1>2, <2>1, <4>1, <4>2
    <3>4. \A k \in 1..(n - 2) : k \in 1..(n - 1) /\ k + 1 \in 1..(n - 1)
      BY <1>1
    <3>5. \A k \in 1..(Len(Tail(s)) - 1) : Tail(s)[k].notify
      BY <1>1, <1>2, <2>1, <3>4
    <3> QED
      BY <3>2, <3>3, <3>5 DEF EndsWith
  <2> QED
    BY <2>2, <2>3
<1> QED
  BY <1>2, <1>3, <1>4

\* One connection changes and the callers stay where they are.
LEMMA OneConnection ==
  ASSUME WireInv, NEW i \in Index,
         UNCHANGED <<at, held, msg, answer>>,
         inbox' \in [Index -> Seq(Requests)], sending' \in [Index -> BOOLEAN],
         wire' \in [Index -> Seq(Ids)], reply' \in [Index -> Ids],
         \A j \in Index : j # i => /\ inbox'[j] = inbox[j] /\ wire'[j] = wire[j] /\ sending'[j] = sending[j]
                                   /\ reply'[j] = reply[j] /\ link'[j] = link[j],
         Gone(i)', Carries(i)'
  PROVE  WireInv'
<1>1. WireTypes'
  BY DEF WireInv, WireTypes
<1>2. \A j \in Index : j # i => Gone(j)' /\ Carries(j)'
  BY Untouched DEF WireInv
<1>3. ResponseIsOwn'
  BY DEF WireInv, ResponseIsOwn, Id
<1> QED
  BY <1>1, <1>2, <1>3 DEF WireInv

\* run_instance() takes a request and fills the buffer, or leaves it empty.
LEMMA ServeKeepsWire ==
  ASSUME Mannered, PoolInv, WireInv, NEW i \in Index, Serve(i)
  PROVE  WireInv'
<1>1. PICK r \in Dispatch(Head(inbox[i]), reply[i]) :
          reply' = [reply EXCEPT ![i] = r] /\ sending' = [sending EXCEPT ![i] = (r # NoReply)]
  BY DEF Serve
<1>2. /\ link[i] = "up" /\ ~sending[i] /\ inbox[i] # <<>> /\ inbox' = [inbox EXCEPT ![i] = Tail(@)]
      /\ UNCHANGED <<link, at, held, msg, answer, wire>>
  BY DEF Serve
<1>3. WireTypes /\ Gone(i) /\ Carries(i) /\ inbox[i] \in Seq(Requests)
  BY DEF WireInv, WireTypes
<1>4. /\ Head(inbox[i]) \in Requests /\ Tail(inbox[i]) \in Seq(Requests)
      /\ OnlyNotes(inbox[i]) => Head(inbox[i]).notify /\ OnlyNotes(Tail(inbox[i]))
      /\ \A id : EndsWith(inbox[i], id) =>
            \/ Head(inbox[i]).notify /\ EndsWith(Tail(inbox[i]), id)
            \/ Head(inbox[i]) = [id |-> id, notify |-> FALSE] /\ Tail(inbox[i]) = <<>>
  BY <1>2, <1>3, TakenOff
<1>5. r = IF Head(inbox[i]).notify THEN NoReply ELSE Head(inbox[i]).id
  BY <1>1 DEF Mannered, Dispatch, Registry
<1>6. /\ inbox'[i] = Tail(inbox[i]) /\ reply'[i] = r /\ sending'[i] = (r # NoReply) /\ wire'[i] = wire[i]
      /\ link'[i] = "up"
  BY <1>1, <1>2, <1>3 DEF WireTypes
<1>7. r \in Ids
  BY <1>4, <1>5 DEF Ids, Requests
<1>8. /\ inbox' \in [Index -> Seq(Requests)] /\ sending' \in [Index -> BOOLEAN]
      /\ wire' \in [Index -> Seq(Ids)] /\ reply' \in [Index -> Ids]
  BY <1>1, <1>2, <1>3, <1>4, <1>7 DEF WireTypes
<1>9. \A j \in Index : j # i => /\ inbox'[j] = inbox[j] /\ wire'[j] = wire[j] /\ sending'[j] = sending[j]
                                /\ reply'[j] = reply[j] /\ link'[j] = link[j]
  BY <1>1, <1>2, <1>3 DEF WireTypes
<1>10. Gone(i)'
  BY <1>6 DEF Gone
<1>11. CASE Silent(i)
  <2>1. Silent(i)'
    BY <1>4, <1>5, <1>6, <1>11 DEF Silent
  <2> QED
    BY <1>2, <1>8, <1>9, <1>10, <2>1, OneConnection DEF Carries
<1>12. ASSUME NEW c \in Caller, Waits(i, c) PROVE WireInv'
  <2>1. Asked(i, c) /\ at[c] = "receive" /\ held[c] = i
    BY <1>2, <1>12 DEF Waits, Answering, Answered
  <2>2. Id(c)' = Id(c) /\ Id(c) # NoReply
    BY <1>2, <1>3, IdIsAnId DEF Id
  <2>3. wire[i] = <<>> /\ EndsWith(inbox[i], Id(c))
    BY <2>1 DEF Asked
  <2>6. Asked(i, c)' \/ Answering(i, c)'
    <3>1. Asked(i, c)' <=> wire'[i] = <<>> /\ ~sending'[i] /\ EndsWith(inbox'[i], Id(c)')
      BY DEF Asked, EndsWith
    <3>2. CASE Head(inbox[i]).notify /\ EndsWith(Tail(inbox[i]), Id(c))
      BY <1>5, <1>6, <2>2, <2>3, <3>1, <3>2
    <3>3. CASE Head(inbox[i]) = [id |-> Id(c), notify |-> FALSE] /\ Tail(inbox[i]) = <<>>
      <4>1. r = Id(c)
        BY <1>5, <3>3
      <4>2. sending'[i] /\ reply'[i] = Id(c) /\ inbox'[i] = <<>> /\ wire'[i] = <<>>
        BY <1>6, <2>2, <2>3, <3>3, <4>1
      <4> QED
        BY <2>2, <4>2 DEF Answering
    <3> QED
      BY <1>4, <2>3, <3>2, <3>3
  <2>7. Waits(i, c)'
    BY <1>2, <2>1, <2>6 DEF Waits
  <2> QED
    BY <1>2, <1>8, <1>9, <1>10, <2>7, OneConnection DEF Carries
<1> QED
  BY <1>3, <1>11, <1>12 DEF Carries

\* What is in the buffer goes on the wire.
LEMMA AnswerKeepsWire ==
  ASSUME PoolInv, WireInv, NEW i \in Index, Answer(i)
  PROVE  WireInv'
<1>1. /\ link[i] = "up" /\ sending[i] /\ wire' = [wire EXCEPT ![i] = Append(@, reply[i])]
      /\ sending' = [sending EXCEPT ![i] = FALSE]
      /\ UNCHANGED <<link, at, held, msg, answer, inbox, reply>>
  BY DEF Answer
<1>2. WireTypes /\ Gone(i) /\ Carries(i) /\ wire[i] \in Seq(Ids) /\ reply[i] \in Ids
  BY DEF WireInv, WireTypes
<1>3. Append(wire[i], reply[i]) \in Seq(Ids)
  BY <1>2, AppendProperties
<1>4. wire'[i] = Append(wire[i], reply[i]) /\ sending'[i] = FALSE /\ link'[i] = "up" /\ inbox'[i] = inbox[i]
  BY <1>1, <1>2 DEF WireTypes
<1>5. /\ inbox' \in [Index -> Seq(Requests)] /\ sending' \in [Index -> BOOLEAN]
      /\ wire' \in [Index -> Seq(Ids)] /\ reply' \in [Index -> Ids]
  BY <1>1, <1>2, <1>3 DEF WireTypes
<1>6. \A j \in Index : j # i => /\ inbox'[j] = inbox[j] /\ wire'[j] = wire[j] /\ sending'[j] = sending[j]
                                /\ reply'[j] = reply[j] /\ link'[j] = link[j]
  BY <1>1, <1>2 DEF WireTypes
<1>7. PICK c \in Caller : Waits(i, c)
  BY <1>1, <1>2 DEF Carries, Silent
<1>8. Answering(i, c) /\ at[c] = "receive" /\ held[c] = i
  BY <1>1, <1>7 DEF Waits, Asked, Answered
<1>9. wire'[i] = <<Id(c)>>
  BY <1>4, <1>8 DEF Answering
<1>10. Id(c)' = Id(c)
  BY <1>1 DEF Id
<1>11. Answered(i, c)'
  BY <1>4, <1>8, <1>9, <1>10 DEF Answered, Answering
<1>12. Gone(i)' /\ Carries(i)'
  BY <1>1, <1>4, <1>8, <1>11 DEF Gone, Carries, Waits
<1> QED
  BY <1>1, <1>5, <1>6, <1>12, OneConnection

\* A connection that ends takes the requests along, and leaves at most the answer.
LEMMA DropKeepsWire ==
  ASSUME PoolInv, WireInv, NEW i \in Index, Drop(i)
  PROVE  WireInv'
<1>1. /\ link' = [link EXCEPT ![i] = "down"] /\ inbox' = [inbox EXCEPT ![i] = <<>>]
      /\ sending' = [sending EXCEPT ![i] = FALSE] /\ reply' = [reply EXCEPT ![i] = NoReply]
      /\ wire' = wire \/ wire' = [wire EXCEPT ![i] = <<>>]
      /\ UNCHANGED <<at, held, msg, answer>>
  BY DEF Drop
<1>2. WireTypes /\ Carries(i) /\ link \in [Index -> {"none", "up", "down"}]
  BY DEF WireInv, PoolInv
<1>3. /\ link'[i] = "down" /\ inbox'[i] = <<>> /\ sending'[i] = FALSE
      /\ wire'[i] = wire[i] \/ wire'[i] = <<>>
  BY <1>1, <1>2 DEF WireTypes
<1>4. <<>> \in Seq(Requests) /\ <<>> \in Seq(Ids)
  OBVIOUS
<1>5. NoReply \in Ids
  BY DEF Ids
<1>6. /\ inbox' \in [Index -> Seq(Requests)] /\ sending' \in [Index -> BOOLEAN]
      /\ wire' \in [Index -> Seq(Ids)] /\ reply' \in [Index -> Ids]
  BY <1>1, <1>2, <1>4, <1>5 DEF WireTypes
<1>7. \A j \in Index : j # i => /\ inbox'[j] = inbox[j] /\ wire'[j] = wire[j] /\ sending'[j] = sending[j]
                                /\ reply'[j] = reply[j] /\ link'[j] = link[j]
  BY <1>1, <1>2 DEF WireTypes
<1>8. Gone(i)'
  BY <1>3 DEF Gone
<1>9. CASE wire'[i] = <<>>
  <2>1. Silent(i)'
    BY <1>3, <1>9 DEF Silent, OnlyNotes
  <2> QED
    BY <1>1, <1>6, <1>7, <1>8, <2>1, OneConnection DEF Carries
<1>10. CASE wire'[i] # <<>>
  <2>1. wire'[i] = wire[i]
    BY <1>3, <1>10
  <2>2. PICK c \in Caller : Waits(i, c)
    BY <1>2, <1>10, <2>1 DEF Carries, Silent
  <2>3. Answered(i, c)
    BY <1>10, <2>1, <2>2 DEF Waits, Asked, Answering
  <2>4. Id(c)' = Id(c)
    BY <1>1 DEF Id
  <2>5. Answered(i, c)'
    BY <1>3, <2>1, <2>3, <2>4 DEF Answered
  <2>6. Carries(i)'
    BY <1>1, <2>2, <2>5 DEF Carries, Waits
  <2> QED
    BY <1>1, <1>6, <1>7, <1>8, <2>6, OneConnection
<1> QED
  BY <1>9, <1>10

\* A caller begins, takes a socket, gives up or leaves: no connection is touched.
LEMMA CallersKeepWire ==
  ASSUME PoolInv, WireInv, NEW c \in Caller, Call(c) \/ Get(c) \/ Lost(c) \/ Free(c)
  PROVE  WireInv'
<1>1. at[c] # "receive" /\ UNCHANGED remote
  BY DEF Call, Get, Lost, Free
<1>2. \A d \in Caller : d # c => at'[d] = at[d] /\ held'[d] = held[d] /\ msg'[d] = msg[d] /\ answer'[d] = answer[d]
  BY DEF PoolInv, InRange, WireInv, WireTypes, Call, Get, Lost, Free, Goto
<1>3. msg' \in [Caller -> [n : Nat, notify : BOOLEAN]] /\ answer' \in [Caller -> Ids]
  <2>1. msg \in [Caller -> [n : Nat, notify : BOOLEAN]] /\ answer \in [Caller -> Ids]
    BY DEF WireInv, WireTypes
  <2>2. CASE Call(c)
    <3>1. PICK notify \in BOOLEAN : msg' = [msg EXCEPT ![c] = [n |-> @.n + 1, notify |-> notify]]
      BY <2>2 DEF Call
    <3>2. answer' = [answer EXCEPT ![c] = NoReply] /\ NoReply \in Ids
      BY <2>2 DEF Call, Ids
    <3>3. [n |-> msg[c].n + 1, notify |-> notify] \in [n : Nat, notify : BOOLEAN]
      <4>1. msg[c].n \in Nat
        BY <2>1
      <4> QED
        BY <4>1
    <3> QED
      BY <2>1, <3>1, <3>2, <3>3
  <2>3. CASE UNCHANGED <<msg, answer>>
    BY <2>1, <2>3
  <2> QED
    BY <2>2, <2>3 DEF Get, Lost, Free
<1>4. WireTypes'
  BY <1>1, <1>3 DEF WireInv, WireTypes, remote
<1>5. \A i \in Index : link'[i] = link[i] \/ link[i] = "none"
  BY DEF PoolInv, Call, Get, Lost, Free
<1>6. \A i \in Index : Gone(i)' /\ Carries(i)'
  <2> TAKE i \in Index
  <2>1. Gone(i) /\ Carries(i)
    BY DEF WireInv
  <2>2. inbox'[i] = inbox[i] /\ wire'[i] = wire[i] /\ sending'[i] = sending[i] /\ reply'[i] = reply[i]
    BY <1>1 DEF remote
  <2>3. \A d \in Caller : at[d] = "receive" /\ held[d] = i =>
            at'[d] = "receive" /\ held'[d] = i /\ msg'[d] = msg[d]
    BY <1>1, <1>2
  <2> QED
    BY <1>5, <2>1, <2>2, <2>3, Untouched
<1>7. answer'[c] = NoReply \/ (answer'[c] = answer[c] /\ msg'[c] = msg[c])
  <2>1. \/ answer' = [answer EXCEPT ![c] = NoReply]
        \/ answer' = answer /\ msg' = msg
    BY DEF Call, Get, Lost, Free
  <2>2. answer \in [Caller -> Ids]
    BY DEF WireInv, WireTypes
  <2> QED
    BY <2>1, <2>2
<1>8. ResponseIsOwn'
  BY <1>2, <1>7 DEF WireInv, ResponseIsOwn, Id
<1> QED
  BY <1>4, <1>6, <1>8 DEF WireInv

\* A request goes on a connection that nobody else is waiting at.
LEMMA SendKeepsWire ==
  ASSUME PoolInv, WireInv, NEW c \in Caller, Send(c)
  PROVE  WireInv'
<1>0. PICK i : i = held[c]
  OBVIOUS
<1>1. at[c] = "send" /\ UNCHANGED <<link, held, msg, answer, wire, reply, sending>>
  BY DEF Send
<1>2. i \in Index /\ Silent(i) /\ \A d \in Caller : held[d] = i => d = c
  BY <1>0, <1>1, HeldBySomeone, SilentAtHand
<1>3. WireTypes /\ inbox[i] \in Seq(Requests) /\ Gone(i) /\ at \in [Caller -> Places]
  BY <1>2 DEF WireInv, WireTypes, PoolInv
<1>4. PICK m : m = [id |-> Id(c), notify |-> msg[c].notify]
  OBVIOUS
<1>5. m \in Requests /\ (m.notify <=> msg[c].notify) /\ (~msg[c].notify => m = [id |-> Id(c), notify |-> FALSE])
  <2>1. Id(c) \in Caller \X Nat /\ msg[c].notify \in BOOLEAN
    BY <1>3, IdIsAnId DEF WireTypes
  <2> QED
    BY <1>4, <2>1 DEF Requests
<1>6. \/ inbox' = [inbox EXCEPT ![i] = Append(@, m)] /\ link[i] = "up"
      \/ inbox' = inbox
  BY <1>0, <1>4 DEF Send
<1>7. (inbox'[i] = Append(inbox[i], m) /\ link[i] = "up") \/ inbox'[i] = inbox[i]
  BY <1>2, <1>3, <1>6 DEF WireTypes
<1>8. \A j \in Index : j # i => inbox'[j] = inbox[j]
  BY <1>3, <1>6 DEF WireTypes
<1>9. /\ Append(inbox[i], m) \in Seq(Requests)
      /\ m.notify => OnlyNotes(Append(inbox[i], m))
      /\ m = [id |-> Id(c), notify |-> FALSE] => EndsWith(Append(inbox[i], m), Id(c))
  BY <1>2, <1>3, <1>5, PutBehind DEF Silent
<1>10. WireTypes'
  <2>1. inbox' \in [Index -> Seq(Requests)]
    BY <1>3, <1>6, <1>9 DEF WireTypes
  <2> QED
    BY <1>1, <1>3, <2>1 DEF WireTypes
<1>11. \A d \in Caller : d # c => at'[d] = at[d]
  BY <1>3 DEF Send, Goto
<1>12. \A j \in Index : j # i => Gone(j)' /\ Carries(j)'
  <2> TAKE j \in Index
  <2> HAVE j # i
  <2>1. Gone(j) /\ Carries(j)
    BY DEF WireInv
  <2>2. inbox'[j] = inbox[j] /\ wire'[j] = wire[j] /\ sending'[j] = sending[j] /\ reply'[j] = reply[j] /\ link'[j] = link[j]
    BY <1>1, <1>8
  <2>3. \A d \in Caller : at[d] = "receive" /\ held[d] = j =>
            at'[d] = "receive" /\ held'[d] = j /\ msg'[d] = msg[d]
    BY <1>1, <1>11
  <2> QED
    BY <2>1, <2>2, <2>3, Untouched
<1>13. Gone(i)'
  BY <1>1, <1>3, <1>7 DEF Gone
<1>14. wire'[i] = <<>> /\ ~sending'[i] /\ OnlyNotes(inbox[i])
  BY <1>1, <1>2 DEF Silent
<1>15. Carries(i)'
  <2>1. CASE OnlyNotes(inbox'[i])
    <3>1. Silent(i)'
      BY <1>14, <2>1 DEF Silent, OnlyNotes
    <3> QED
      BY <3>1 DEF Carries
  <2>2. CASE ~OnlyNotes(inbox'[i])
    <3>1. inbox'[i] = Append(inbox[i], m) /\ ~m.notify
      BY <1>7, <1>9, <1>14, <2>2
    <3>2. EndsWith(inbox'[i], Id(c))
      BY <1>5, <1>9, <3>1
    <3>3. at'[c] = "receive"
      <4>1. inbox' # inbox
        BY <1>14, <2>2
      <4> QED
        BY <1>3, <1>5, <3>1, <4>1 DEF Send, Goto
    <3>4. Id(c)' = Id(c) /\ held'[c] = i
      BY <1>0, <1>1 DEF Id
    <3>5. Asked(i, c)'
      BY <1>14, <3>2, <3>4 DEF Asked, EndsWith
    <3>6. Waits(i, c)'
      BY <3>3, <3>4, <3>5 DEF Waits
    <3> QED
      BY <3>6 DEF Carries
  <2> QED
    BY <2>1, <2>2
<1>16. ResponseIsOwn'
  BY <1>1 DEF WireInv, ResponseIsOwn, Id
<1> QED
  BY <1>10, <1>12, <1>13, <1>15, <1>16 DEF WireInv

\* The next message there is, is the answer to the caller's own request.
LEMMA ReceiveKeepsWire ==
  ASSUME PoolInv, WireInv, NEW c \in Caller, Receive(c)
  PROVE  WireInv'
<1>0. PICK i : i = held[c]
  OBVIOUS
<1>1. at[c] = "receive" /\ UNCHANGED <<link, held, msg, inbox, reply, sending>>
  BY DEF Receive
<1>2. i \in Index /\ \A d \in Caller : held[d] = i => d = c
  BY <1>0, <1>1, HeldBySomeone
<1>3. Silent(i) \/ Waits(i, c)
  BY <1>0, <1>1, OwnAtHand
<1>4. WireTypes /\ Gone(i) /\ at \in [Caller -> Places]
  BY <1>2 DEF WireInv, PoolInv
<1>5. \/ /\ wire[i] # <<>> /\ answer' = [answer EXCEPT ![c] = Head(wire[i])]
         /\ wire' = [wire EXCEPT ![i] = Tail(@)]
      \/ wire[i] = <<>> /\ link[i] = "down" /\ UNCHANGED <<answer, wire>>
  BY <1>0 DEF Receive
<1>6. ASSUME wire[i] # <<>>
      PROVE  wire[i] = <<Id(c)>> /\ ~sending[i] /\ inbox[i] = <<>>
  BY <1>3, <1>6 DEF Silent, Waits, Asked, Answering, Answered
<1>7. Silent(i)'
  <2>1. CASE wire[i] # <<>>
    <3>1. wire[i] = <<Id(c)>> /\ ~sending[i] /\ inbox[i] = <<>>
      BY <1>6, <2>1
    <3>2. wire'[i] = <<>>
      BY <1>2, <1>4, <1>5, <2>1, <3>1 DEF WireTypes
    <3> QED
      BY <1>1, <3>1, <3>2 DEF Silent, OnlyNotes
  <2>2. CASE wire[i] = <<>>
    <3>1. inbox[i] = <<>> /\ ~sending[i] /\ wire' = wire
      BY <1>4, <1>5, <2>2 DEF Gone
    <3> QED
      BY <1>1, <2>2, <3>1 DEF Silent, OnlyNotes
  <2> QED
    BY <2>1, <2>2
<1>8. answer' = answer \/ answer' = [answer EXCEPT ![c] = Id(c)]
  BY <1>5, <1>6
<1>9. WireTypes'
  <2>1. answer' \in [Caller -> Ids]
    BY <1>4, <1>8, IdIsAnId DEF WireTypes
  <2>2. wire' \in [Index -> Seq(Ids)]
    <3>1. \A x : Tail(<<x>>) = <<>>
      OBVIOUS
    <3>3. wire[i] # <<>> => Tail(wire[i]) = <<>>
      BY <1>6, <3>1
    <3>2. <<>> \in Seq(Ids)
      OBVIOUS
    <3> QED
      BY <1>4, <1>5, <3>2, <3>3 DEF WireTypes
  <2> QED
    BY <1>1, <1>4, <2>1, <2>2 DEF WireTypes
<1>10. \A j \in Index : j # i => wire'[j] = wire[j]
  BY <1>4, <1>5 DEF WireTypes
<1>11. \A d \in Caller : d # c => at'[d] = at[d]
  BY <1>4 DEF Receive, Goto
<1>12. \A j \in Index : j # i => Gone(j)' /\ Carries(j)'
  <2> TAKE j \in Index
  <2> HAVE j # i
  <2>1. Gone(j) /\ Carries(j)
    BY DEF WireInv
  <2>2. inbox'[j] = inbox[j] /\ wire'[j] = wire[j] /\ sending'[j] = sending[j] /\ reply'[j] = reply[j] /\ link'[j] = link[j]
    BY <1>1, <1>10
  <2>3. \A d \in Caller : at[d] = "receive" /\ held[d] = j =>
            at'[d] = "receive" /\ held'[d] = j /\ msg'[d] = msg[d]
    BY <1>0, <1>1, <1>11
  <2> QED
    BY <2>1, <2>2, <2>3, Untouched
<1>13. Gone(i)'
  BY <1>1, <1>4, <1>7 DEF Gone, Silent
<1>14. ResponseIsOwn'
  BY <1>1, <1>4, <1>8 DEF WireInv, WireTypes, ResponseIsOwn, Id
<1> QED
  BY <1>7, <1>9, <1>12, <1>13, <1>14 DEF WireInv, Carries

\* A new pool, and its connections with it, carries nothing.
LEMMA NothingOnNewWires ==
  ASSUME WireTypes, ResponseIsOwn,
         inbox = [i \in Index |-> <<>>], wire = [i \in Index |-> <<>>], sending = [i \in Index |-> FALSE]
  PROVE  WireInv
BY DEF WireInv, Gone, Carries, Silent, OnlyNotes

\* The first one is such.
LEMMA WireInit == Init => WireInv
<1> SUFFICES ASSUME Init PROVE WireInv
  OBVIOUS
<1>1. <<>> \in Seq(Requests) /\ <<>> \in Seq(Ids) /\ NoReply \in Ids
  BY DEF Ids
<1>2. WireTypes
  BY <1>1 DEF Init, WireTypes
<1>3. ResponseIsOwn
  BY DEF Init, ResponseIsOwn
<1> QED
  BY <1>2, <1>3, NothingOnNewWires DEF Init

\* Each action keeps it.
LEMMA WireStep == Mannered /\ PoolInv /\ WireInv /\ [Next]_vars => WireInv'
<1> SUFFICES ASSUME Mannered, PoolInv, WireInv, [Next]_vars PROVE WireInv'
  OBVIOUS
<1>1. CASE Reinit
  <2>1. /\ inbox' = [i \in Index |-> <<>>] /\ wire' = [i \in Index |-> <<>>]
        /\ reply' = [i \in Index |-> NoReply] /\ sending' = [i \in Index |-> FALSE]
        /\ msg' = msg /\ answer' = answer
    BY <1>1 DEF Reinit, NewPool
  <2>2. <<>> \in Seq(Requests) /\ <<>> \in Seq(Ids) /\ NoReply \in Ids
    BY DEF Ids
  <2>3. WireTypes'
    BY <2>1, <2>2 DEF WireInv, WireTypes
  <2>4. ResponseIsOwn'
    BY <2>1 DEF WireInv, ResponseIsOwn, Id
  <2>5. \A i \in Index : Gone(i)' /\ Carries(i)'
    BY <2>1 DEF Gone, Carries, Silent, OnlyNotes
  <2> QED
    BY <2>3, <2>4, <2>5 DEF WireInv
<1>2. CASE UNCHANGED vars
  <2>1. UNCHANGED <<at, held, msg, answer, inbox, wire, sending, reply, link>>
    BY <1>2 DEF vars, pool, remote
  <2>2. \A i \in Index : Gone(i)' /\ Carries(i)'
    BY <2>1, Untouched DEF WireInv
  <2> QED
    BY <2>1, <2>2 DEF WireInv, WireTypes, ResponseIsOwn, Id
<1> QED
  BY <1>1, <1>2, ServeKeepsWire, AnswerKeepsWire, DropKeepsWire, CallersKeepWire, SendKeepsWire, ReceiveKeepsWire
     DEF Next, Step, Run

(* The answer of a call is to its own request, for any number of threads   *)
(* and sockets and any failures, as long as the server does not answer     *)
(* notifications: no endpoint throws at one, no handler is set that leaves *)
(* the buffer as it was (asio_client::call, receive_buffer, run_instance). *)
THEOREM AnswersAreOwn ==
  ASSUME Mannered PROVE Spec => []ResponseIsOwn
<1>1. Init => WireInv
  BY WireInit
<1>2. PoolInv /\ WireInv /\ [Next]_vars => WireInv'
  BY WireStep
<1>3. WireInv => ResponseIsOwn
  BY DEF WireInv
<1> QED
  BY <1>1, <1>2, <1>3, PoolInvariant, PTL DEF Spec
=============================================================================
