----------------------- MODULE WebSocketFramesProofs -----------------------
(***************************************************************************)
(* Proofs about WebSocketFrames for every set of frames, streams of every  *)
(* length and every limit on a message: what is cut out of the reads is    *)
(* what WebSocketMessages makes of whole frames, nothing that has arrived  *)
(* is held back, and bad text ends the connection with the read it is in.  *)
(***************************************************************************)
EXTENDS WebSocketFrames, FiniteSetTheorems, SequenceTheorems, TLAPS

Byte == {"a", "l", "t"}
States == {"ok", "mid", "bad"}

-----------------------------------------------------------------------------
(* The validator.                                                          *)

\* The bytes are well after v: the validator takes each of them.
Fits(v, s) == v # "bad" /\ \A k \in 1..Len(s) : Messages!Advance(Messages!Met(v, s, k), s[k]) # "bad"

\* A validator is in one of its states, and is "bad" after bytes that do not fit.
LEMMA Utf8IsFits ==
  ASSUME NEW v \in States, NEW s \in Seq(Byte)
  PROVE  /\ Utf8(v, s) \in States
         /\ Fits(v, s) => Utf8(v, s) = Messages!Met(v, s, Len(s) + 1) /\ Utf8(v, s) # "bad"
         /\ ~Fits(v, s) => Utf8(v, s) = "bad"
<1>1. DOMAIN s = 1..Len(s)
  OBVIOUS
<1>2. \A k : Messages!Met(v, s, k) \in States /\ (v # "bad" => Messages!Met(v, s, k) # "bad")
  BY DEF Messages!Met, States
<1>3. CASE Fits(v, s)
  <2>1. Utf8(v, s) = Messages!Met(v, s, Len(s) + 1)
    BY <1>1, <1>3 DEF Fits, Utf8, Messages!Utf8
  <2> QED
    BY <1>2, <1>3, <2>1 DEF Fits
<1>4. CASE ~Fits(v, s)
  <2>1. Utf8(v, s) = "bad"
    BY <1>1, <1>4 DEF Fits, Utf8, Messages!Utf8
  <2> QED
    BY <1>4, <2>1 DEF States
<1> QED
  BY <1>3, <1>4

\* Nothing changes it but bytes, and nothing mends what is bad.
LEMMA Utf8Ends ==
  ASSUME NEW v \in States
  PROVE  Utf8(v, <<>>) = v /\ \A s : Utf8("bad", s) = "bad"
BY DEF Utf8, Messages!Utf8, Messages!Met, States

\* To validate bytes in two pieces is to validate them (utf8_stream_validator).
LEMMA Utf8Composes ==
  ASSUME NEW v \in States, NEW s \in Seq(Byte), NEW t \in Seq(Byte)
  PROVE  Utf8(v, s \o t) = Utf8(Utf8(v, s), t)
<1>0. PICK m, n, u : m = Len(s) /\ n = Len(t) /\ u = s \o t
  OBVIOUS
<1>1. /\ u \in Seq(Byte) /\ m \in Nat /\ n \in Nat /\ Len(u) = m + n
      /\ \A k \in 1..m : u[k] = s[k]
      /\ \A k \in 1..n : u[m + k] = t[k]
  BY <1>0, ConcatProperties
<1>2. PICK w : w = Messages!Met(v, s, m + 1)
  OBVIOUS
<1>3. CASE v = "bad"
  BY <1>3, Utf8Ends
<1>4. ASSUME v # "bad" PROVE Utf8(v, s \o t) = Utf8(Utf8(v, s), t)
  <2>1. w \in States /\ w # "bad"
    BY <1>2, <1>4 DEF Messages!Met, States
  <2>2. \A k \in 1..m : Messages!Met(v, u, k) = Messages!Met(v, s, k)
    BY <1>1 DEF Messages!Met
  <2>3. \A k \in 1..(n + 1) : Messages!Met(v, u, m + k) = Messages!Met(w, t, k)
    <3> TAKE k \in 1..(n + 1)
    <3>1. CASE k = 1
      BY <1>1, <1>2, <3>1 DEF Messages!Met
    <3>2. CASE k # 1
      <4>1. k - 1 \in 1..n /\ m + k # 1 /\ m + k - 1 = m + (k - 1)
        BY <1>1, <3>2
      <4>2. u[m + k - 1] = t[k - 1]
        BY <1>1, <4>1
      <4>3. PICK a, b : a = m + k /\ b = m + k - 1
        OBVIOUS
      <4>4. a # 1 /\ a - 1 = b /\ u[b] = t[k - 1]
        BY <1>1, <4>1, <4>2, <4>3
      <4>5. Messages!Met(v, u, a) = IF u[b] = "l" THEN "mid" ELSE "ok"
        BY <4>4 DEF Messages!Met
      <4>6. Messages!Met(w, t, k) = IF t[k - 1] = "l" THEN "mid" ELSE "ok"
        BY <3>2 DEF Messages!Met
      <4> QED
        BY <4>3, <4>4, <4>5, <4>6
    <3> QED
      BY <3>1, <3>2
  <2>4. Fits(v, u) <=> Fits(v, s) /\ Fits(w, t)
    <3>1. ASSUME Fits(v, u) PROVE Fits(v, s)
      <4>1. \A k \in 1..m : k \in 1..Len(u)
        BY <1>1
      <4> QED
        BY <1>0, <1>1, <1>4, <2>2, <3>1, <4>1 DEF Fits
    <3>2. ASSUME Fits(v, u) PROVE Fits(w, t)
      <4>1. \A k \in 1..n : m + k \in 1..Len(u) /\ k \in 1..(n + 1)
        BY <1>1
      <4>2. ASSUME NEW k \in 1..n PROVE Messages!Advance(Messages!Met(w, t, k), t[k]) # "bad"
        <5>1. Messages!Advance(Messages!Met(v, u, m + k), u[m + k]) # "bad"
          BY <3>2, <4>1 DEF Fits
        <5> QED
          BY <1>1, <2>3, <4>1, <5>1
      <4> QED
        BY <1>0, <2>1, <4>2 DEF Fits
    <3>3. ASSUME Fits(v, s), Fits(w, t) PROVE Fits(v, u)
      <4>1. ASSUME NEW k \in 1..Len(u) PROVE Messages!Advance(Messages!Met(v, u, k), u[k]) # "bad"
        <5>1. CASE k \in 1..m
          BY <1>0, <1>1, <2>2, <3>3, <5>1 DEF Fits
        <5>2. CASE k \notin 1..m
          <6>1. k - m \in 1..n /\ k - m \in 1..(n + 1) /\ m + (k - m) = k
            BY <1>1, <5>2
          <6>2. Messages!Advance(Messages!Met(w, t, k - m), t[k - m]) # "bad"
            BY <1>0, <3>3, <6>1 DEF Fits
          <6>3. Messages!Met(v, u, m + (k - m)) = Messages!Met(w, t, k - m) /\ u[m + (k - m)] = t[k - m]
            BY <1>1, <2>3, <6>1
          <6> QED
            BY <6>1, <6>2, <6>3
        <5> QED
          BY <5>1, <5>2
      <4> QED
        BY <1>4, <4>1 DEF Fits
    <3> QED
      BY <3>1, <3>2, <3>3
  <2>5. CASE ~Fits(v, s)
    BY <1>0, <1>1, <2>4, <2>5, Utf8IsFits, Utf8Ends
  <2>6. CASE Fits(v, s)
    <3>1. Utf8(v, s) = w
      BY <1>0, <1>2, <2>6, Utf8IsFits
    <3>2. CASE ~Fits(w, t)
      BY <1>0, <1>1, <2>1, <2>4, <3>1, <3>2, Utf8IsFits
    <3>3. CASE Fits(w, t)
      <4>1. Utf8(w, t) = Messages!Met(w, t, n + 1)
        BY <1>0, <2>1, <3>3, Utf8IsFits
      <4>2. Utf8(v, u) = Messages!Met(v, u, m + (n + 1))
        <5>1. Fits(v, u) /\ Len(u) + 1 = m + (n + 1)
          BY <1>1, <2>4, <2>6, <3>3
        <5> QED
          BY <1>1, <5>1, Utf8IsFits
      <4> QED
        BY <1>0, <1>1, <2>3, <3>1, <4>1, <4>2
    <3> QED
      BY <3>2, <3>3
  <2> QED
    BY <2>5, <2>6
<1> QED
  BY <1>3, <1>4

\* The first n bytes, and the rest of them after the first m.
LEMMA Pieces ==
  ASSUME NEW s \in Seq(Byte), NEW m \in Nat, NEW n \in Nat, m <= n, n <= Len(s)
  PROVE  /\ SubSeq(s, 1, n) \in Seq(Byte) /\ Len(SubSeq(s, 1, n)) = n
         /\ SubSeq(SubSeq(s, 1, n), m + 1, n) \in Seq(Byte)
         /\ SubSeq(s, 1, n) = SubSeq(s, 1, m) \o SubSeq(SubSeq(s, 1, n), m + 1, n)
<1>0. PICK p, q, r : p = SubSeq(s, 1, m) /\ q = SubSeq(s, 1, n) /\ r = SubSeq(q, m + 1, n)
  OBVIOUS
<1>1. \A i \in 1..n : s[i] \in Byte
  BY ElementOfSeq
<1>2. q \in Seq(Byte) /\ Len(q) = n /\ \A i \in 1..n : q[i] = s[i]
  BY <1>0, <1>1, SubSeqProperties
<1>3. p \in Seq(Byte) /\ Len(p) = m /\ \A i \in 1..m : p[i] = s[i]
  BY <1>0, <1>1, SubSeqProperties
<1>4. \A i \in (m + 1)..n : q[i] \in Byte
  BY <1>1, <1>2
<1>5. r \in Seq(Byte) /\ Len(r) = n - m /\ \A i \in 1..(n - m) : r[i] = q[m + i]
  <2>1. /\ r \in Seq(Byte) /\ Len(r) = (IF m + 1 <= n THEN n - (m + 1) + 1 ELSE 0)
        /\ \A i \in 1..(n - (m + 1) + 1) : r[i] = q[(m + 1) + i - 1]
    BY <1>0, <1>4, SubSeqProperties
  <2>2. \A i \in 1..(n - m) : (m + 1) + i - 1 = m + i
    OBVIOUS
  <2> QED
    BY <2>1, <2>2
<1>6. p \o r \in Seq(Byte) /\ Len(p \o r) = n /\ \A i \in 1..n : (p \o r)[i] = IF i <= m THEN p[i] ELSE r[i - m]
  <2>1. m + (n - m) = n
    OBVIOUS
  <2>2. /\ p \o r \in Seq(Byte) /\ Len(p \o r) = Len(p) + Len(r)
        /\ \A i \in 1..(Len(p) + Len(r)) : (p \o r)[i] = IF i <= Len(p) THEN p[i] ELSE r[i - Len(p)]
    BY <1>3, <1>5, ConcatProperties
  <2> QED
    BY <1>3, <1>5, <2>1, <2>2
<1>7. \A i \in 1..n : (p \o r)[i] = q[i]
  <2> TAKE i \in 1..n
  <2>1. CASE i <= m
    BY <1>2, <1>3, <1>6, <2>1
  <2>2. CASE ~(i <= m)
    <3>1. i - m \in 1..(n - m) /\ m + (i - m) = i
      BY <2>2
    <3> QED
      BY <1>5, <1>6, <2>2, <3>1
  <2> QED
    BY <2>1, <2>2
<1>8. q = p \o r
  BY <1>2, <1>6, <1>7, SeqEqual
<1> QED
  BY <1>0, <1>2, <1>5, <1>8

-----------------------------------------------------------------------------
(* Where the frames are in the stream.                                     *)

\* A frame has a header and data.
LEMMA FrameTypes ==
  ASSUME NEW f \in Frames
  PROVE  /\ f.op \in Opcodes /\ f.fin \in BOOLEAN /\ f.data \in Seq(Byte)
         /\ Len(f.data) \in Nat /\ Size(f) \in Nat /\ Size(f) = 2 + Len(f.data)
BY FramesAssumption, LenProperties DEF Byte, Size, Header

\* The units before a frame are finitely many.
LEMMA UnitsAreFinite ==
  ASSUME stream \in Seq(Frames), NEW j \in 1..(Len(stream) + 1)
  PROVE  IsFiniteSet(Units(j))
<1> DEFINE I == 1..(j - 1)
           T == {{i} \X (1..Size(stream[i])) : i \in I}
           g == [i \in I |-> {i} \X (1..Size(stream[i]))]
<1>1. IsFiniteSet(I)
  BY FS_Interval
<1>2. g \in Surjection(I, T)
  BY DEF Surjection
<1>3. IsFiniteSet(T)
  <2> HIDE DEF I, T, g
  <2> QED
    BY <1>1, <1>2, FS_Surjection
<1>4. \A U \in T : IsFiniteSet(U)
  <2> TAKE U \in T
  <2>1. PICK i \in I : U = {i} \X (1..Size(stream[i]))
    OBVIOUS
  <2>2. stream[i] \in Frames
    BY ElementOfSeq
  <2>3. IsFiniteSet({i}) /\ IsFiniteSet(1..Size(stream[i]))
    <3>1. Size(stream[i]) \in Nat
      BY <2>2, FrameTypes
    <3>2. IsFiniteSet({i})
      BY FS_Singleton
    <3>3. IsFiniteSet(1..Size(stream[i]))
      BY <3>1, FS_Interval
    <3> QED
      BY <3>2, <3>3
  <2> QED
    BY <2>1, <2>3, FS_Product
<1>5. IsFiniteSet(UNION T)
  <2> HIDE DEF T
  <2> QED
    BY <1>3, <1>4, FS_UNION
<1> QED
  BY <1>5 DEF Units

\* A frame begins where the one before it ends.
LEMMA NextBegins ==
  ASSUME stream \in Seq(Frames), NEW j \in 1..Len(stream)
  PROVE  Before(j) \in Nat /\ Before(j + 1) = Before(j) + Size(stream[j])
<1> DEFINE R == {j} \X (1..Size(stream[j]))
<1>1. j \in 1..(Len(stream) + 1) /\ j + 1 \in 1..(Len(stream) + 1)
  OBVIOUS
<1>2. Units(j + 1) = Units(j) \cup R
  <2>1. 1..(j + 1 - 1) = (1..(j - 1)) \cup {j}
    OBVIOUS
  <2> QED
    BY <2>1 DEF Units
<1>3. Units(j) \cap R = {}
  <2>1. \A u \in Units(j) : u[1] \in 1..(j - 1)
    BY DEF Units
  <2>2. \A u \in R : u[1] = j
    OBVIOUS
  <2> QED
    BY <2>1, <2>2
<1>4. stream[j] \in Frames /\ Size(stream[j]) \in Nat
  BY ElementOfSeq, FrameTypes
<1>5. IsFiniteSet(R) /\ Cardinality(R) = Size(stream[j])
  <2>1. IsFiniteSet({j}) /\ Cardinality({j}) = 1
    BY FS_Singleton
  <2>2. IsFiniteSet(1..Size(stream[j])) /\ Cardinality(1..Size(stream[j])) = Size(stream[j])
    BY <1>4, FS_Interval
  <2>3. IsFiniteSet(R) /\ Cardinality(R) = 1 * Size(stream[j])
    BY <2>1, <2>2, FS_Product
  <2> QED
    BY <1>4, <2>3
<1>6. IsFiniteSet(Units(j)) /\ Cardinality(Units(j)) \in Nat
  BY <1>1, UnitsAreFinite, FS_CardinalityType
<1>7. Cardinality(Units(j) \cup R) = Cardinality(Units(j)) + Cardinality(R) - Cardinality(Units(j) \cap R)
  <2> HIDE DEF R
  <2> QED
    BY <1>5, <1>6, FS_Union
<1>8. Cardinality(Units(j) \cap R) = 0
  BY <1>3, FS_EmptySet
<1>9. Cardinality(Units(j + 1)) = Cardinality(Units(j)) + Size(stream[j])
  <2> HIDE DEF R
  <2>1. Cardinality(Units(j + 1)) = Cardinality(Units(j)) + Size(stream[j]) - 0
    BY <1>2, <1>5, <1>7, <1>8
  <2> QED
    BY <1>4, <1>6, <2>1
<1> QED
  BY <1>6, <1>9 DEF Before

\* The first frame begins at 0.
LEMMA FirstBegins == Before(1) = 0
<1>1. Units(1) = {}
  BY DEF Units
<1> QED
  BY <1>1, FS_EmptySet DEF Before

\* A frame ends before the later ones begin.
LEMMA InOrder ==
  ASSUME stream \in Seq(Frames), NEW i \in 1..(Len(stream) + 1), NEW j \in 1..(Len(stream) + 1), i <= j
  PROVE  Before(i) \in Nat /\ Before(j) \in Nat /\ Before(i) <= Before(j)
<1>1. IsFiniteSet(Units(i)) /\ IsFiniteSet(Units(j))
  BY UnitsAreFinite
<1>2. Units(i) \subseteq Units(j)
  <2>1. 1..(i - 1) \subseteq 1..(j - 1)
    OBVIOUS
  <2> QED
    BY <2>1 DEF Units
<1>3. Cardinality(Units(i)) \in Nat /\ Cardinality(Units(j)) \in Nat
  BY <1>1, FS_CardinalityType
<1>4. Cardinality(Units(i)) <= Cardinality(Units(j))
  BY <1>1, <1>2, FS_Subset
<1> QED
  BY <1>3, <1>4 DEF Before

\* So a place in the stream is the beginning of one frame at most.
LEMMA OnePlace ==
  ASSUME stream \in Seq(Frames), NEW i \in 1..(Len(stream) + 1), NEW j \in 1..(Len(stream) + 1)
  PROVE  /\ Before(i) = Before(j) => i = j
         /\ Before(i) <= Before(j) => i <= j
<1>1. ASSUME NEW a \in 1..(Len(stream) + 1), NEW b \in 1..(Len(stream) + 1), a < b
      PROVE  Before(a) \in Nat /\ Before(b) \in Nat /\ Before(a) < Before(b)
  <2>1. a \in 1..Len(stream) /\ a + 1 \in 1..(Len(stream) + 1) /\ a + 1 <= b
    BY <1>1
  <2>2. Before(a) \in Nat /\ Before(a + 1) = Before(a) + Size(stream[a])
    BY <2>1, NextBegins
  <2>3. Before(a + 1) <= Before(b) /\ Before(b) \in Nat
    BY <2>1, InOrder
  <2>4. stream[a] \in Frames
    BY <2>1, ElementOfSeq
  <2>5. Size(stream[a]) \in Nat /\ Size(stream[a]) >= 2
    BY <2>4, FrameTypes
  <2> QED
    BY <2>2, <2>3, <2>5
<1>2. i < j \/ j < i \/ i = j
  OBVIOUS
<1> QED
  BY <1>1, <1>2

\* Frames weigh what they take in the stream.
LEMMA WhatWaits ==
  ASSUME stream \in Seq(Frames), NEW j \in 1..(Len(stream) + 1)
  PROVE  /\ Messages!Weight(SubSeq(stream, j, Len(stream))) \in Nat
         /\ Before(Len(stream) + 1) <= Before(j) + Messages!Weight(SubSeq(stream, j, Len(stream)))
<1>0. PICK rest, m, n : rest = SubSeq(stream, j, Len(stream)) /\ m = Len(stream) + 1 /\ n = m - j
  OBVIOUS
<1>1. m \in Nat /\ n \in Nat /\ j \in Nat /\ m \in 1..(Len(stream) + 1) /\ j <= m
  BY <1>0
<1>2. DOMAIN rest = 1..n /\ \A i \in 1..n : rest[i] = stream[i + (j - 1)]
  <2>1. \A i \in j..Len(stream) : stream[i] \in Frames
    BY ElementOfSeq
  <2>2. /\ rest \in Seq(Frames) /\ Len(rest) = (IF j <= Len(stream) THEN Len(stream) - j + 1 ELSE 0)
        /\ \A i \in 1..(Len(stream) - j + 1) : rest[i] = stream[j + i - 1]
    BY <1>0, <1>1, <2>1, SubSeqProperties
  <2>3. Len(rest) = n /\ Len(stream) - j + 1 = n
    BY <1>0, <1>1, <2>2
  <2>4. \A i \in 1..n : j + i - 1 = i + (j - 1)
    BY <1>1
  <2> QED
    BY <2>2, <2>3, <2>4
<1>3. PICK W : W = UNION {{i} \X (1..(2 + Len(rest[i].data))) : i \in DOMAIN rest}
  OBVIOUS
<1>4. PICK R : R = Units(m) \ Units(j)
  OBVIOUS
<1>5. \A a \in 1..m : \A u : u \in Units(a) <=> \E i \in 1..(a - 1) : \E k \in 1..(2 + Len(stream[i].data)) : u = <<i, k>>
  BY DEF Units, Size, Header
<1>6. \A u : u \in R <=> \E i \in j..(m - 1) : \E k \in 1..(2 + Len(stream[i].data)) : u = <<i, k>>
  <2>1. \A u : u \in R <=> u \in Units(m) /\ u \notin Units(j)
    BY <1>4
  <2>2. \A i : i \in 1..(m - 1) /\ i \notin 1..(j - 1) <=> i \in j..(m - 1)
    BY <1>1
  <2>3. 1..(j - 1) \subseteq 1..(m - 1) /\ j \in 1..m /\ m \in 1..m
    BY <1>1
  <2> QED
    BY <1>5, <2>1, <2>2, <2>3
<1>7. \A u : u \in W <=> \E i \in 1..n : \E k \in 1..(2 + Len(stream[i + (j - 1)].data)) : u = <<i, k>>
  BY <1>2, <1>3
<1>8. PICK g : g = [u \in R |-> <<u[1] - (j - 1), u[2]>>]
  OBVIOUS
<1>9. g \in Bijection(R, W)
  <2>1. \A i \in j..(m - 1) : i - (j - 1) \in 1..n /\ (i - (j - 1)) + (j - 1) = i
    BY <1>0, <1>1
  <2>2. \A i \in 1..n : i + (j - 1) \in j..(m - 1) /\ (i + (j - 1)) - (j - 1) = i
    BY <1>0, <1>1
  <2>3. ASSUME NEW u \in R PROVE g[u] \in W
    <3>1. PICK i \in j..(m - 1) : \E k \in 1..(2 + Len(stream[i].data)) : u = <<i, k>>
      BY <1>6
    <3>1a. PICK k \in 1..(2 + Len(stream[i].data)) : u = <<i, k>>
      BY <3>1
    <3>2. g[u] = <<i - (j - 1), k>>
      BY <1>8, <3>1a
    <3> QED
      BY <1>7, <2>1, <3>1a, <3>2
  <2>4. ASSUME NEW w \in W PROVE \E u \in R : g[u] = w
    <3>1. PICK i \in 1..n : \E k \in 1..(2 + Len(stream[i + (j - 1)].data)) : w = <<i, k>>
      BY <1>7
    <3>1a. PICK k \in 1..(2 + Len(stream[i + (j - 1)].data)) : w = <<i, k>>
      BY <3>1
    <3>2. <<i + (j - 1), k>> \in R
      BY <1>6, <2>2, <3>1a
    <3>3. g[<<i + (j - 1), k>>] = <<(i + (j - 1)) - (j - 1), k>>
      BY <1>8, <3>2
    <3> QED
      BY <2>2, <3>1a, <3>2, <3>3
  <2>5. ASSUME NEW u \in R, NEW v \in R, g[u] = g[v] PROVE u = v
    <3>1. PICK i \in j..(m - 1) : \E k \in 1..(2 + Len(stream[i].data)) : u = <<i, k>>
      BY <1>6
    <3>1a. PICK k \in 1..(2 + Len(stream[i].data)) : u = <<i, k>>
      BY <3>1
    <3>2. PICK a \in j..(m - 1) : \E b \in 1..(2 + Len(stream[a].data)) : v = <<a, b>>
      BY <1>6
    <3>2a. PICK b \in 1..(2 + Len(stream[a].data)) : v = <<a, b>>
      BY <3>2
    <3>3. i - (j - 1) = a - (j - 1) /\ k = b
      BY <1>8, <2>5, <3>1a, <3>2a
    <3>4. (i - (j - 1)) + (j - 1) = (a - (j - 1)) + (j - 1)
      BY <3>3
    <3> QED
      BY <2>1, <3>1a, <3>2a, <3>3, <3>4
  <2>6. g \in [R -> W]
    BY <1>8, <2>3
  <2> QED
    BY <2>4, <2>5, <2>6 DEF Bijection, Injection, Surjection, IsInjective
<1>10. IsFiniteSet(Units(m)) /\ IsFiniteSet(Units(j)) /\ Cardinality(Units(j)) \in Nat
  BY <1>1, UnitsAreFinite, FS_CardinalityType
<1>11. IsFiniteSet(R) /\ Cardinality(R) \in Nat
  BY <1>4, <1>10, FS_Difference, FS_CardinalityType
<1>12. Cardinality(W) = Cardinality(R)
  BY <1>9, <1>11, FS_Bijection DEF ExistsBijection
<1>13. Cardinality(Units(j) \cup R) = Cardinality(Units(j)) + Cardinality(R) - Cardinality(Units(j) \cap R)
  BY <1>10, <1>11, FS_Union
<1>14. Cardinality(Units(j) \cap R) = 0
  <2>1. Units(j) \cap R = {}
    BY <1>4
  <2> QED
    BY <2>1, FS_EmptySet
<1>15. Units(j) \cup R = Units(m)
  <2>1. Units(j) \subseteq Units(m)
    <3>1. 1..(j - 1) \subseteq 1..(m - 1)
      BY <1>1
    <3> QED
      BY <3>1 DEF Units
  <2> QED
    BY <1>4, <2>1
<1>16. Before(m) = Before(j) + Cardinality(R) /\ Before(j) \in Nat
  <2>1. PICK p, q, t : p = Cardinality(Units(j)) /\ q = Cardinality(R) /\ t = Cardinality(Units(m))
    OBVIOUS
  <2>2. t = p + q - 0
    BY <1>13, <1>14, <1>15, <2>1
  <2>3. p \in Nat /\ q \in Nat
    BY <1>10, <1>11, <2>1
  <2> QED
    BY <2>1, <2>2, <2>3 DEF Before
<1>17. Messages!Weight(rest) = Cardinality(R)
  <2>1. Messages!Weight(rest) = Cardinality(UNION {{i} \X (1..(2 + Len(rest[i].data))) : i \in DOMAIN rest})
    BY DEF Messages!Weight, Messages!Cardinality, Cardinality
  <2> QED
    BY <1>3, <1>12, <2>1
<1> QED
  BY <1>0, <1>11, <1>16, <1>17


-----------------------------------------------------------------------------
(* The inductive invariant.                                                *)

Types ==
    /\ stream \in Seq(Frames)
    /\ got \in Nat /\ start \in Nat /\ offset \in Nat /\ parsing \in BOOLEAN
    /\ got <= Before(Len(stream) + 1)
    /\ answer \in {"none", "local", "error", "overflow", "echo"} /\ closed \in BOOLEAN
    /\ is_reading_frame \in BOOLEAN /\ message_buffer \in Seq(Byte)
    /\ utf8 \in States /\ incomplete \in [active : BOOLEAN, consumed : Nat]

\* What has been taken, up to a unit of the stream.
Position == IF parsing THEN offset ELSE start

\* A frame whose data is text, and the validator in front of it.
TextAt(f) ==
    \/ f.op = "text" /\ ~is_reading_frame
    \/ f.op = "cont" /\ is_reading_frame /\ current_opcode = "text"
Base(f) == IF f.op = "text" THEN "ok" ELSE Utf8("ok", message_buffer)

\* The data of the frame j that is there.
Arrived(j) == IF got < Before(j) + Header THEN 0 ELSE got - Before(j) - Header

\* The validator is in front of frame j, or in the text of frame j as far as it has seen it.
Aligned == is_reading_frame /\ current_opcode = "text" => utf8 = Utf8("ok", message_buffer)
Begun(j) ==
    /\ j <= Len(stream) /\ TextAt(stream[j])
    /\ incomplete.consumed <= Len(stream[j].data) /\ Before(j) + Header + incomplete.consumed <= got
    /\ utf8 = Utf8(Base(stream[j]), SubSeq(stream[j].data, 1, incomplete.consumed))
Validated(j) == IF incomplete.active THEN Begun(j) ELSE incomplete.consumed = 0 /\ Aligned

\* A connection that waits has a part of frame j at most, and no bad text in it.
Waiting(j) ==
    j <= Len(stream) =>
        /\ got < Before(j + 1)
        /\ TextAt(stream[j]) => Utf8(Base(stream[j]), SubSeq(stream[j].data, 1, Arrived(j))) # "bad"

\* The message so far is of one kind, and not bad.
Assembling ==
    is_reading_frame =>
        /\ current_opcode \in {"text", "binary"}
        /\ current_opcode = "text" => Utf8("ok", message_buffer) # "bad"

\* An open connection is at frame j.
OpenAt(j) ==
    /\ Before(j) = Position /\ Position <= got
    /\ Assembling /\ Validated(j)
    /\ ~parsing => Waiting(j)

\* A connection that closes looks for a Close only, and may be out of step.
Inv ==
    /\ Types
    /\ closed => is_closing
    /\ ~is_closing => \E j \in 1..(Len(stream) + 1) : OpenAt(j)

-----------------------------------------------------------------------------
(* What process_frames() sees.                                             *)

\* In the loop an open connection has frame j in front of it, or nothing.
LEMMA InFront ==
  ASSUME Types, parsing, NEW j \in 1..Len(stream), OpenAt(j)
  PROVE  /\ InStep /\ Frame = stream[j] /\ Frame \in Frames
         /\ offset = Before(j) /\ Available \in Nat /\ got = offset + Available
         /\ Before(j + 1) = offset + Size(Frame)
<1>1. stream \in Seq(Frames) /\ DOMAIN stream = 1..Len(stream) /\ got \in Nat /\ offset \in Nat
  BY DEF Types
<1>2. offset = Before(j) /\ offset <= got
  BY DEF OpenAt, Position
<1>3. \A i \in 1..Len(stream) : Before(i) = offset => i = j
  BY <1>1, <1>2, OnePlace
<1>4. InStep
  BY <1>1, <1>2 DEF InStep
<1>5. Frame = stream[j]
  BY <1>1, <1>2, <1>3 DEF Frame
<1>6. Frame \in Frames
  BY <1>1, <1>5, ElementOfSeq
<1>7. Before(j + 1) = offset + Size(Frame)
  BY <1>1, <1>2, <1>5, NextBegins
<1>8. Available \in Nat /\ got = offset + Available
  BY <1>1, <1>2 DEF Available
<1> QED
  BY <1>2, <1>4, <1>5, <1>6, <1>7, <1>8

\* Behind the last frame there is nothing.
LEMMA AtTheEnd ==
  ASSUME Types, parsing, NEW j \in 1..(Len(stream) + 1), OpenAt(j), j \notin 1..Len(stream)
  PROVE  ~InStep /\ Available = 0
<1>1. /\ stream \in Seq(Frames) /\ DOMAIN stream = 1..Len(stream) /\ got \in Nat /\ offset \in Nat
      /\ got <= Before(Len(stream) + 1) /\ Len(stream) \in Nat
  BY DEF Types
<1>2. j = Len(stream) + 1
  BY <1>1
<1>3. offset = Before(j) /\ offset <= got
  BY DEF OpenAt, Position
<1>4. Available = 0
  BY <1>1, <1>2, <1>3 DEF Available
<1>5. \A i \in 1..Len(stream) : i \in 1..(Len(stream) + 1) /\ i # j
  BY <1>1, <1>2
<1>6. \A i \in 1..Len(stream) : Before(i) # offset
  BY <1>1, <1>3, <1>5, OnePlace
<1>7. ~InStep
  BY <1>1, <1>6 DEF InStep
<1> QED
  BY <1>4, <1>7

\* The text of a message so far is in some state, also that of its beginning.
LEMMA BaseIsAState ==
  ASSUME Types, NEW f
  PROVE  Base(f) \in States
<1>1. Utf8("ok", message_buffer) \in States
  BY Utf8IsFits DEF Types, States
<1> QED
  BY <1>1 DEF Base, States

\* What is known of the frame in front when its text is looked at: as many bytes as are there.
Seen(f, n) ==
    /\ n <= Len(f.data) /\ Payload = SubSeq(f.data, 1, n) /\ Len(Payload) = n
    /\ Streamed = Utf8(Base(f), SubSeq(f.data, 1, n))

\* Text that comes in pieces is validated as if it came at once (consume_incomplete_text_payload).
LEMMA StreamedIsWhole ==
  ASSUME Types, parsing, NEW j \in 1..Len(stream), OpenAt(j), Available >= Header, HasText,
         NEW n \in Nat, n = IF Available - Header <= Len(Frame.data) THEN Available - Header ELSE Len(Frame.data)
  PROVE  Seen(Frame, n)
<1>1. PICK f : f = Frame
  OBVIOUS
<1>2. f = stream[j] /\ f \in Frames /\ offset = Before(j) /\ Available \in Nat /\ got = offset + Available
  BY <1>1, InFront
<1>3. f.data \in Seq(Byte) /\ Len(f.data) \in Nat /\ n <= Len(f.data)
  BY <1>1, <1>2, FrameTypes DEF Header
<1>4. Min({Available - Header, Len(f.data)}) = n
  <2>1. \A x \in {Available - Header, Len(f.data)} : n <= x
    BY <1>1, <1>2, <1>3 DEF Header
  <2>2. n \in {Available - Header, Len(f.data)}
    BY <1>1
  <2>3. \A y \in {Available - Header, Len(f.data)} :
            (\A x \in {Available - Header, Len(f.data)} : y <= x) => y = n
    <3>1. \A y \in {Available - Header, Len(f.data)} : y \in Int
      BY <1>2, <1>3 DEF Header
    <3> QED
      BY <2>1, <2>2, <3>1
  <2> QED
    BY <2>1, <2>2, <2>3 DEF Min
<1>5. Payload = SubSeq(f.data, 1, n)
  <2>1. ~(Available < Header)
    BY <1>2 DEF Header
  <2> QED
    BY <1>1, <1>4, <2>1 DEF Payload
<1>6. /\ SubSeq(f.data, 1, n) \in Seq(Byte) /\ Len(SubSeq(f.data, 1, n)) = n
  <2>1. 0 \in Nat /\ 0 <= n
    OBVIOUS
  <2> QED
    BY <1>3, <2>1, Pieces
<1>7. TextAt(f)
  BY <1>1 DEF HasText, TextAt
<1>8. Base(f) \in States
  BY BaseIsAState
<1>9. Streamed = Utf8(Base(f), SubSeq(f.data, 1, n))
  <2>1. PICK c : c = incomplete.consumed
    OBVIOUS
  <2>2. c \in Nat /\ incomplete.active \in BOOLEAN
    BY <2>1 DEF Types
  <2>3. CASE incomplete.active
    <3>1. c <= Len(f.data) /\ Before(j) + Header + c <= got /\ utf8 = Utf8(Base(f), SubSeq(f.data, 1, c))
      BY <1>2, <2>1, <2>3 DEF OpenAt, Validated, Begun
    <3>2. c <= n
      <4>1. offset \in Nat /\ offset + 2 + c <= offset + Available
        BY <1>2, <3>1 DEF Types, Header
      <4>2. c <= Available - 2
        BY <1>2, <2>2, <4>1
      <4> QED
        BY <1>1, <1>3, <3>1, <4>2 DEF Header
    <3>3. /\ SubSeq(f.data, 1, n) = SubSeq(f.data, 1, c) \o SubSeq(SubSeq(f.data, 1, n), c + 1, n)
          /\ SubSeq(SubSeq(f.data, 1, n), c + 1, n) \in Seq(Byte)
      BY <1>3, <2>2, <3>2, Pieces
    <3>4. SubSeq(f.data, 1, c) \in Seq(Byte)
      BY <1>3, <2>2, <3>1, Pieces
    <3>5. Utf8(Base(f), SubSeq(f.data, 1, n)) = Utf8(utf8, SubSeq(SubSeq(f.data, 1, n), c + 1, n))
      <4>1. PICK v, s, t : v = Base(f) /\ s = SubSeq(f.data, 1, c) /\ t = SubSeq(SubSeq(f.data, 1, n), c + 1, n)
        OBVIOUS
      <4>2. Utf8(v, s \o t) = Utf8(Utf8(v, s), t)
        BY <1>8, <3>3, <3>4, <4>1, Utf8Composes
      <4> QED
        BY <3>1, <3>3, <4>1, <4>2
    <3>6. Streamed = Utf8(utf8, SubSeq(SubSeq(f.data, 1, n), c + 1, n))
      BY <1>5, <1>6, <2>1, <2>3 DEF Streamed
    <3> QED
      BY <3>5, <3>6
  <2>4. CASE ~incomplete.active
    <3>1. c = 0 /\ Aligned
      BY <2>1, <2>4 DEF OpenAt, Validated
    <3>2. SubSeq(SubSeq(f.data, 1, n), 0 + 1, n) = SubSeq(f.data, 1, n)
      BY <1>6, SubSeqFull
    <3>3. Streamed = Utf8(IF Frame.op # "text" THEN utf8 ELSE "ok", SubSeq(f.data, 1, n))
      BY <1>5, <1>6, <2>1, <2>4, <3>1, <3>2 DEF Streamed
    <3>4. (IF Frame.op # "text" THEN utf8 ELSE "ok") = Base(f)
      BY <1>1, <1>7, <3>1 DEF Base, TextAt, Aligned
    <3> QED
      BY <3>3, <3>4
  <2> QED
    BY <2>2, <2>3, <2>4
<1> QED
  BY <1>1, <1>3, <1>5, <1>6, <1>9 DEF Seen

\* So the validator is after a whole frame where its text leaves it.
LEMMA AfterIsWhole ==
  ASSUME Types, parsing, NEW j \in 1..Len(stream), OpenAt(j), Whole, HasText
  PROVE  After = Utf8(Base(Frame), Frame.data)
<1>1. PICK f : f = Frame
  OBVIOUS
<1>2. f \in Frames /\ Available \in Nat /\ f.data \in Seq(Byte) /\ Len(f.data) \in Nat /\ Size(f) = 2 + Len(f.data)
  BY <1>1, InFront, FrameTypes
<1>3. Available >= Header /\ Available >= Size(f)
  BY <1>1 DEF Whole, Admitted, Complete
<1>4. CASE Consumed
  <2>1. PICK n : n = Len(f.data)
    OBVIOUS
  <2>2. n \in Nat /\ n = IF Available - Header <= Len(Frame.data) THEN Available - Header ELSE Len(Frame.data)
    BY <1>1, <1>2, <1>3, <2>1 DEF Header
  <2>3. Seen(Frame, n)
    BY <1>3, <2>2, StreamedIsWhole
  <2>4. SubSeq(f.data, 1, n) = f.data
    BY <1>2, <2>1, SubSeqFull
  <2> QED
    BY <1>1, <1>4, <2>3, <2>4 DEF Seen, After
<1>5. CASE ~Consumed
  <2>1. ~incomplete.active
    BY <1>5 DEF Consumed
  <2>2. Aligned
    BY <2>1 DEF OpenAt, Validated
  <2>3. (IF Frame.op = "text" THEN "ok" ELSE utf8) = Base(Frame)
    BY <2>2 DEF Base, HasText, Aligned
  <2> QED
    BY <1>5, <2>3 DEF After
<1> QED
  BY <1>4, <1>5


-----------------------------------------------------------------------------
(* What the frame in front means, and what the connection makes of it.     *)

\* The message that the frame is joined to.
Message == IF is_reading_frame /\ ~is_closing THEN [op |-> current_opcode, data |-> message_buffer]
           ELSE [op |-> "none", data |-> <<>>]

\* While the connection is open, it is that of the frames before.
LEMMA JoinedIs ==
  ASSUME Types, ~is_closing, Assembling, NEW f \in Frames
  PROVE  /\ is_reading_frame => Message # Messages!NoMessage
         /\ ~is_reading_frame => Message = Messages!NoMessage
         /\ f.op # "cont" => Messages!Joined(f) = [op |-> f.op, data |-> f.data]
         /\ f.op = "cont" /\ is_reading_frame =>
              Messages!Joined(f) = [op |-> current_opcode, data |-> message_buffer \o f.data]
<1>1. is_reading_frame => current_opcode # "none"
  BY DEF Assembling
<1>2. is_reading_frame => Message # Messages!NoMessage
  <2> SUFFICES ASSUME is_reading_frame PROVE Message # Messages!NoMessage
    OBVIOUS
  <2>1. Message.op = current_opcode /\ Messages!NoMessage.op = "none"
    BY DEF Message, Messages!NoMessage
  <2> QED
    BY <1>1, <2>1
<1>3. ~is_reading_frame => Message = Messages!NoMessage
  BY DEF Message, Messages!NoMessage
<1>4. f.op # "cont" => Messages!Joined(f) = [op |-> f.op, data |-> f.data]
  BY DEF Messages!Joined
<1>5. f.op = "cont" /\ is_reading_frame =>
         Messages!Joined(f) = [op |-> current_opcode, data |-> message_buffer \o f.data]
  BY DEF Messages!Joined
<1> QED
  BY <1>2, <1>3, <1>4, <1>5

\* Its text is well as a whole if the frame's is after what came before.
LEMMA TextOfJoined ==
  ASSUME Types, ~is_closing, Assembling, NEW f \in Frames, TextAt(f)
  PROVE  /\ Messages!Joined(f).op = "text"
         /\ Utf8("ok", Messages!Joined(f).data) = Utf8(Base(f), f.data)
<1>1. "ok" \in States /\ message_buffer \in Seq(Byte) /\ f.data \in Seq(Byte)
  BY FrameTypes DEF Types, States
<1>2. CASE f.op = "text"
  BY <1>2, JoinedIs DEF Base
<1>3. CASE f.op = "cont"
  <2>1. is_reading_frame /\ current_opcode = "text"
    BY <1>3 DEF TextAt
  <2>2. Messages!Joined(f) = [op |-> "text", data |-> message_buffer \o f.data]
    BY <1>3, <2>1, JoinedIs
  <2>3. Utf8("ok", message_buffer \o f.data) = Utf8(Utf8("ok", message_buffer), f.data)
    BY <1>1, Utf8Composes
  <2> QED
    BY <1>3, <2>2, <2>3 DEF Base
<1> QED
  BY <1>2, <1>3 DEF TextAt

\* The text of a frame, judged as it stands.
WellText(f) == LET v == Utf8(Base(f), f.data) IN IF f.fin THEN v = "ok" ELSE v # "bad"

\* Whether a data frame is legal.
LegalData(f) ==
    /\ Len(f.data) <= MaxMessageSize
    /\ IF f.op = "cont" THEN is_reading_frame /\ Len(message_buffer \o f.data) <= MaxMessageSize
                        ELSE ~is_reading_frame
    /\ TextAt(f) => WellText(f)

\* Data frames are legal in the abstract when they are so here.
LEMMA LegalOfData ==
  ASSUME Types, ~is_closing, Assembling, NEW f \in Frames, f.op \in {"text", "binary", "cont"}
  PROVE  Messages!Legal(f) <=> LegalData(f)
<1>1. (f.op = "cont" => Message # Messages!NoMessage) <=> (f.op = "cont" => is_reading_frame)
  BY JoinedIs DEF Types
<1>2. (f.op \in Messages!Data => Message = Messages!NoMessage) <=> (f.op # "cont" => ~is_reading_frame)
  <2>1. f.op \in Messages!Data <=> f.op # "cont"
    BY DEF Messages!Data
  <2> QED
    BY <2>1, JoinedIs DEF Types
<1>3. Messages!Legal(f) <=>
        /\ Len(f.data) <= MaxMessageSize
        /\ f.op \in Messages!Data => Message = Messages!NoMessage
        /\ f.op = "cont" => Message # Messages!NoMessage
        /\ Len(Messages!Joined(f).data) <= MaxMessageSize
        /\ Messages!Joined(f).op = "text" =>
              IF f.fin THEN Utf8("ok", Messages!Joined(f).data) = "ok" ELSE Utf8("ok", Messages!Joined(f).data) # "bad"
  <2>1. f.op \notin {"ping", "close", "badclose", "unknown", "reserved"} /\ f.op \in Messages!Data \cup {"cont"}
    BY DEF Messages!Data
  <2>2. Messages!Legal(f) <=>
        /\ Len(f.data) <= MaxMessageSize
        /\ f.op \in Messages!Data => Message = Messages!NoMessage
        /\ f.op = "cont" => Message # Messages!NoMessage
        /\ Len(Messages!Joined(f).data) <= MaxMessageSize
        /\ Messages!Joined(f).op = "text" =>
              IF f.fin THEN Messages!Utf8("ok", Messages!Joined(f).data) = "ok"
              ELSE Messages!Utf8("ok", Messages!Joined(f).data) # "bad"
    BY <2>1 DEF Messages!Legal, Message
  <2> QED
    BY <2>2 DEF Utf8
<1>4. CASE f.op = "cont"
  <2>1. CASE ~is_reading_frame
    BY <1>1, <1>3, <1>4, <2>1 DEF LegalData
  <2>2. CASE is_reading_frame
    <3>1. Messages!Joined(f) = [op |-> current_opcode, data |-> message_buffer \o f.data]
      BY <1>4, <2>2, JoinedIs
    <3>2. TextAt(f) <=> Messages!Joined(f).op = "text"
      BY <1>4, <2>2, <3>1 DEF TextAt
    <3>3. TextAt(f) => Utf8("ok", Messages!Joined(f).data) = Utf8(Base(f), f.data)
      BY TextOfJoined
    <3>4. Len(Messages!Joined(f).data) = Len(message_buffer \o f.data)
      BY <3>1
    <3> QED
      BY <1>1, <1>2, <1>3, <1>4, <2>2, <3>2, <3>3, <3>4 DEF LegalData, WellText
  <2> QED
    BY <2>1, <2>2
<1>5. CASE f.op # "cont"
  <2>1. CASE is_reading_frame
    BY <1>2, <1>3, <1>5, <2>1 DEF LegalData
  <2>2. CASE ~is_reading_frame
    <3>1. Messages!Joined(f) = [op |-> f.op, data |-> f.data]
      BY <1>5, JoinedIs
    <3>2. TextAt(f) <=> Messages!Joined(f).op = "text"
      BY <1>5, <2>2, <3>1 DEF TextAt
    <3>3. TextAt(f) => Utf8("ok", Messages!Joined(f).data) = Utf8(Base(f), f.data)
      BY TextOfJoined
    <3>4. Len(Messages!Joined(f).data) = Len(f.data)
      BY <3>1
    <3> QED
      BY <1>1, <1>2, <1>3, <1>5, <2>2, <3>2, <3>3, <3>4 DEF LegalData, WellText
  <2> QED
    BY <2>1, <2>2
<1> QED
  BY <1>4, <1>5

\* The others are by their kind.
LEMMA LegalOfOthers ==
  ASSUME NEW f \in Frames, f.op \notin {"text", "binary", "cont"}
  PROVE  Messages!Legal(f) <=> f.op \in {"ping", "close"} /\ f.fin /\ Len(f.data) <= MaxMessageSize
<1>1. f.op \in Opcodes
  BY FrameTypes
<1>2. f.op \notin Messages!Data \cup {"cont"} /\ f.op # "cont" /\ f.op \notin Messages!Data
  BY DEF Messages!Data
<1> QED
  BY <1>1, <1>2 DEF Messages!Legal, Opcodes

\* A whole frame is refused when, and only when, it is illegal (handle_frame).
LEMMA IllegalIsNotLegal ==
  ASSUME Types, parsing, ~is_closing, NEW j \in 1..Len(stream), OpenAt(j), Whole
  PROVE  Illegal <=> ~Messages!Legal(Frame)
<1>1. PICK f : f = Frame
  OBVIOUS
<1>2. f \in Frames /\ f.op \in Opcodes /\ f.op # "reserved" /\ Len(f.data) <= MaxMessageSize /\ f.fin \in BOOLEAN
  BY <1>1, InFront, FrameTypes DEF Whole, Admitted
<1>3. Assembling
  BY DEF OpenAt
<1>4. HasText <=> TextAt(f)
  BY <1>1 DEF HasText, TextAt
<1>5. BadText <=> TextAt(f) /\ ~WellText(f)
  <2>1. TextAt(f) => After = Utf8(Base(f), f.data)
    BY <1>1, <1>4, AfterIsWhole
  <2>2. Utf8(Base(f), f.data) = "ok" => Utf8(Base(f), f.data) # "bad"
    OBVIOUS
  <2> QED
    BY <1>1, <1>4, <2>1, <2>2 DEF BadText, WellText
<1>6. CASE f.op \notin {"text", "binary", "cont"}
  <2>1. ~TextAt(f)
    BY <1>6 DEF TextAt
  <2>2. Illegal <=> (f.op \in {"ping", "close", "badclose"} /\ ~f.fin) \/ f.op \in {"badclose", "unknown"}
    BY <1>1, <1>5, <1>6, <2>1 DEF Illegal, Control
  <2>3. f.op \in {"ping", "close", "badclose", "unknown"}
    BY <1>2, <1>6 DEF Opcodes
  <2> QED
    BY <1>1, <1>2, <1>6, <2>2, <2>3, LegalOfOthers
<1>7. CASE f.op \in {"text", "binary", "cont"}
  <2>1. Messages!Legal(f) <=> LegalData(f)
    BY <1>2, <1>3, <1>7, LegalOfData
  <2>2. Len(message_buffer \o f.data) = Len(message_buffer) + Len(f.data)
    BY <1>2, FrameTypes, ConcatProperties DEF Types
  <2>3. Len(message_buffer) + Len(f.data) \in Nat /\ MaxMessageSize \in Nat
    BY <1>2, FrameTypes, SizeAssumption, LenProperties DEF Types
  <2>4. Illegal <=> \/ f.op # "cont" /\ is_reading_frame
                    \/ f.op = "cont" /\ (~is_reading_frame \/ Len(message_buffer) + Len(f.data) > MaxMessageSize)
                    \/ BadText
    BY <1>1, <1>7 DEF Illegal, Control
  <2>5. LegalData(f) <=> /\ f.op = "cont" => is_reading_frame /\ Len(message_buffer) + Len(f.data) <= MaxMessageSize
                         /\ f.op # "cont" => ~is_reading_frame
                         /\ TextAt(f) => WellText(f)
    BY <1>2, <2>2 DEF LegalData
  <2>6. Len(message_buffer) + Len(f.data) > MaxMessageSize <=> ~(Len(message_buffer) + Len(f.data) <= MaxMessageSize)
    BY <2>3
  <2> QED
    BY <1>1, <1>5, <2>1, <2>4, <2>5, <2>6
<1> QED
  BY <1>6, <1>7

\* Text that is bad as far as it has come is bad in the end (consume_incomplete_text_payload).
LEMMA BadPartIsIllegal ==
  ASSUME Types, parsing, ~is_closing, NEW j \in 1..Len(stream), OpenAt(j),
         Admitted, ~Complete, HasText, Streamed = "bad"
  PROVE  ~Messages!Legal(Frame)
<1>1. PICK f, n : f = Frame /\ n = Available - Header
  OBVIOUS
<1>2. f \in Frames /\ Available \in Nat /\ f.data \in Seq(Byte) /\ Len(f.data) \in Nat /\ Size(f) = 2 + Len(f.data)
  BY <1>1, InFront, FrameTypes
<1>3. Available >= 2 /\ Available < Size(f)
  BY <1>1, <1>2 DEF Admitted, Complete, Header
<1>4. n \in Nat /\ n <= Len(f.data) /\ Available >= Header
  BY <1>1, <1>2, <1>3 DEF Header
<1>5. Seen(f, n)
  BY <1>1, <1>4, StreamedIsWhole
<1>6. PICK s, t : s = SubSeq(f.data, 1, n) /\ t = SubSeq(f.data, n + 1, Len(f.data))
  OBVIOUS
<1>7. s \in Seq(Byte) /\ t \in Seq(Byte) /\ f.data = s \o t
  <2>1. PICK d, m : d = f.data /\ m = Len(f.data)
    OBVIOUS
  <2>2. d \in Seq(Byte) /\ m \in Nat /\ m <= Len(d) /\ n <= m /\ n <= Len(d) /\ SubSeq(d, 1, m) = d
    BY <1>2, <1>4, <2>1, SubSeqFull
  <2>3. SubSeq(d, 1, n) \in Seq(Byte)
    BY <1>4, <2>2, Pieces
  <2>4. SubSeq(SubSeq(d, 1, m), n + 1, m) \in Seq(Byte)
        /\ SubSeq(d, 1, m) = SubSeq(d, 1, n) \o SubSeq(SubSeq(d, 1, m), n + 1, m)
    BY <1>4, <2>2, Pieces
  <2> QED
    BY <1>6, <2>1, <2>2, <2>3, <2>4
<1>8. Base(f) \in States /\ Utf8(Base(f), s) = "bad"
  BY <1>5, <1>6, BaseIsAState DEF Seen
<1>9. Utf8(Base(f), f.data) = "bad"
  <2>1. PICK v : v = Base(f)
    OBVIOUS
  <2>2. Utf8(v, s \o t) = Utf8(Utf8(v, s), t)
    BY <1>7, <1>8, <2>1, Utf8Composes
  <2>3. "bad" \in States
    BY DEF States
  <2> QED
    BY <1>7, <1>8, <2>1, <2>2, <2>3, Utf8Ends
<1>10. TextAt(f) /\ ~WellText(f)
  BY <1>1, <1>9 DEF HasText, TextAt, WellText
<1>11. f.op \in {"text", "binary", "cont"}
  BY <1>10 DEF TextAt
<1> QED
  BY <1>1, <1>2, <1>10, <1>11, LegalOfData DEF LegalData, OpenAt

\* No frame is legal that its header rules out.
LEMMA HeaderIsIllegal ==
  ASSUME NEW f \in Frames, f.op = "reserved" \/ Len(f.data) > MaxMessageSize
  PROVE  ~Messages!Legal(f)
<1>1. Len(f.data) \in Nat /\ MaxMessageSize \in Nat
  BY FrameTypes, SizeAssumption
<1> QED
  BY <1>1 DEF Messages!Legal


-----------------------------------------------------------------------------
(* The steps of the abstract specification.                                *)

Todo == IF is_closing THEN <<>> ELSE SubSeq(stream, Taken + 1, Len(stream))
State == IF closed THEN "closed" ELSE IF is_closing THEN answer ELSE "open"

\* What a step must come to.
Implemented == Messages!Next \/ UNCHANGED Messages!vars

\* The frames before frame j are those that end where it begins, or before.
LEMMA TakenIs ==
  ASSUME stream \in Seq(Frames), NEW j \in 1..(Len(stream) + 1)
  PROVE  Cardinality({i \in DOMAIN stream : Before(i + 1) <= Before(j)}) = j - 1
<1>1. DOMAIN stream = 1..Len(stream) /\ Len(stream) \in Nat
  OBVIOUS
<1>2. ASSUME NEW i \in 1..Len(stream) PROVE Before(i + 1) <= Before(j) <=> i \in 1..(j - 1)
  <2>1. i + 1 \in 1..(Len(stream) + 1)
    BY <1>1
  <2>2. Before(i + 1) <= Before(j) => i + 1 <= j
    BY <2>1, OnePlace
  <2>3. i + 1 <= j => Before(i + 1) <= Before(j)
    BY <2>1, InOrder
  <2> QED
    BY <2>2, <2>3
<1>3. {i \in DOMAIN stream : Before(i + 1) <= Before(j)} = 1..(j - 1)
  BY <1>1, <1>2
<1>4. Cardinality(1..(j - 1)) = j - 1
  BY FS_Interval
<1> QED
  BY <1>3, <1>4

\* The places of the frames are those of a stream that does not change.
LEMMA SamePlaces ==
  ASSUME stream' = stream
  PROVE  \A j : Before(j)' = Before(j)
BY DEF Before, Units

\* What is left to take begins with the frame in front.
LEMMA TodoIs ==
  ASSUME Types, ~is_closing, NEW j \in 1..(Len(stream) + 1), Before(j) = Position
  PROVE  Todo = SubSeq(stream, j, Len(stream))
<1>1. Taken = j - 1
  BY TakenIs DEF Taken, Position, Types
<1>2. j - 1 + 1 = j
  OBVIOUS
<1> QED
  BY <1>1, <1>2 DEF Todo

\* The same after a step.
LEMMA TodoNext ==
  ASSUME Types, stream' = stream, ~is_closing', NEW j \in 1..(Len(stream) + 1), Before(j) = Position'
  PROVE  Todo' = SubSeq(stream, j, Len(stream))
<1>1. Taken' = Cardinality({i \in DOMAIN stream : Before(i + 1) <= Before(j)})
  <2>1. Taken' = Cardinality({i \in DOMAIN stream : Before(i + 1)' <= Position'})
    BY DEF Taken, Position
  <2>2. \A i : Before(i + 1)' = Before(i + 1)
    BY SamePlaces
  <2>3. {i \in DOMAIN stream : Before(i + 1)' <= Position'} = {i \in DOMAIN stream : Before(i + 1) <= Before(j)}
    BY <2>2
  <2> QED
    BY <2>1, <2>3
<1>2. Taken' = j - 1
  BY <1>1, TakenIs DEF Types
<1>3. j - 1 + 1 = j
  OBVIOUS
<1> QED
  BY <1>2, <1>3 DEF Todo

\* A step that takes nothing, leaves the message alone and reports nothing is none.
LEMMA Stutters ==
  ASSUME Types, ~is_closing, NEW j \in 1..(Len(stream) + 1), Before(j) = Position,
         Position' = Position, UNCHANGED <<stream, answer, closed, assembly, log>>
  PROVE  Implemented
<1>1. ~is_closing' /\ is_closing' = is_closing
  BY DEF is_closing
<1>2. Todo' = Todo
  BY <1>1, TodoIs, TodoNext
<1>3. Message' = Message /\ State' = State
  BY <1>1 DEF Message, State, assembly
<1>4. Messages!vars = <<Todo, Message, log, State>>
  BY DEF Messages!vars, Todo, Message, State
<1>5. Messages!vars' = <<Todo', Message', log', State'>>
  BY DEF Messages!vars, Todo, Message, State
<1> QED
  BY <1>2, <1>3, <1>4, <1>5 DEF Implemented

\* An end of the connection because of the frame in front is one in the abstract.
LEMMA Leaves ==
  ASSUME Types, ~is_closing, ~closed, NEW j \in 1..Len(stream), Before(j) = Position,
         stream[j].op = "close" \/ ~Messages!Legal(stream[j]),
         answer' = (IF Messages!Legal(stream[j]) THEN "echo" ELSE "error"),
         UNCHANGED <<closed, log>>
  PROVE  Implemented
<1>1. is_closing'
  BY DEF is_closing
<1>2. stream \in Seq(Frames) /\ j \in 1..(Len(stream) + 1) /\ Len(stream) \in j..Len(stream) /\ Len(stream) \in Nat
  BY DEF Types
<1>3. Todo = SubSeq(stream, j, Len(stream))
  BY <1>2, TodoIs
<1>4. Head(Todo) = stream[j]
  BY <1>2, <1>3, HeadTailOfSubSeq
<1>5. Todo # <<>>
  <2>1. \A i \in j..Len(stream) : stream[i] \in Frames
    BY <1>2, ElementOfSeq
  <2>2. Len(Todo) = Len(stream) - j + 1
    BY <1>2, <1>3, <2>1, SubSeqProperties
  <2> QED
    BY <1>2, <2>2
<1>6. State = "open" /\ State' = answer'
  BY <1>1 DEF State
<1>7. Todo' = <<>> /\ Message' = Messages!NoMessage
  BY <1>1 DEF Todo, Message, Messages!NoMessage
<1>8. Messages!Leave
  BY <1>4, <1>5, <1>6, <1>7 DEF Messages!Leave, Todo, Message, State
<1> QED
  BY <1>8 DEF Implemented, Messages!Next

\* A frame that is taken is taken in the abstract.
LEMMA Takes ==
  ASSUME Types, ~is_closing, ~closed, NEW j \in 1..Len(stream), Before(j) = Position,
         UNCHANGED <<stream, answer, closed>>, Before(j + 1) = Position',
         Messages!Legal(stream[j]), Messages!TakeData(stream[j]) \/ Messages!TakePing(stream[j])
  PROVE  Implemented
<1>1. ~is_closing'
  BY DEF is_closing
<1>2. /\ stream \in Seq(Frames) /\ j \in 1..(Len(stream) + 1) /\ Len(stream) \in j..Len(stream) /\ Len(stream) \in Nat
      /\ j + 1 \in 1..(Len(stream) + 1)
  BY DEF Types
<1>3. Todo = SubSeq(stream, j, Len(stream))
  BY <1>2, TodoIs
<1>4. Todo' = SubSeq(stream, j + 1, Len(stream))
  BY <1>1, <1>2, TodoNext
<1>5. Head(Todo) = stream[j] /\ Tail(Todo) = Todo'
  BY <1>2, <1>3, <1>4, HeadTailOfSubSeq
<1>6. Todo # <<>>
  <2>1. \A i \in j..Len(stream) : stream[i] \in Frames
    BY <1>2, ElementOfSeq
  <2>2. Len(Todo) = Len(stream) - j + 1
    BY <1>2, <1>3, <2>1, SubSeqProperties
  <2> QED
    BY <1>2, <2>2
<1>7. State = "open"
  BY DEF State
<1>8. Messages!Take
  BY <1>5, <1>6, <1>7 DEF Messages!Take, Todo, State
<1> QED
  BY <1>8 DEF Implemented, Messages!Next

\* A connection that closes takes no frames and reports nothing, in step or not.
LEMMA ClosingStep ==
  ASSUME Inv, is_closing, [Next]_vars
  PROVE  Inv' /\ Implemented
<1>1. /\ Types /\ stream \in Seq(Frames)
      /\ answer \in {"local", "error", "overflow", "echo"}
  BY DEF Inv, Types, is_closing
<1>2. CASE UNCHANGED vars
  <2>1. UNCHANGED <<stream, got, start, offset, parsing, answer, closed, is_reading_frame, current_opcode,
                    message_buffer, utf8, incomplete, log>>
    BY <1>2 DEF vars, conn, assembly, text
  <2>2. \A j : Before(j)' = Before(j)
    BY <2>1, SamePlaces
  <2>3. Types' /\ is_closing' /\ closed' = closed
    BY <1>1, <2>1, <2>2 DEF Types, is_closing
  <2>4. UNCHANGED Messages!vars
    BY <2>1, <2>3 DEF Messages!vars, is_closing
  <2> QED
    BY <2>3, <2>4 DEF Inv, Implemented
<1>3. ASSUME Next PROVE Inv' /\ Implemented
  <2>1. /\ UNCHANGED <<stream, answer, log, assembly, text>>
        /\ closed' = closed \/ closed' = TRUE
    <3>1. CASE Read \/ Starve \/ Drop \/ LocalClose \/ DoClose
      BY <1>1, <3>1 DEF Read, Starve, Rest, Drop, Discard, LocalClose, DoClose, conn
    <3>2. CASE RefuseHeader \/ HandlePing \/ HandleMessage \/ HandleFirstFragment \/ HandleContinuation
      BY <3>2 DEF RefuseHeader, HandlePing, HandleMessage, HandleFirstFragment, HandleContinuation, Whole, Admitted, Heeded
    <3>3. CASE RefuseFrame \/ HandleClose
      BY <3>3 DEF RefuseFrame, Fail, HandleClose, Discard
    <3>4. CASE ValidateIncomplete
      <4>1. ~HasText
        BY <3>4 DEF ValidateIncomplete, Admitted, Heeded, HasText
      <4> QED
        BY <3>4, <4>1 DEF ValidateIncomplete, Rest, conn
    <3> QED
      BY <1>3, <3>1, <3>2, <3>3, <3>4 DEF Next, Iterate
  <2>2. \A j : Before(j)' = Before(j)
    BY <2>1, SamePlaces
  <2>3. is_closing'
    BY <2>1 DEF is_closing
  <2>4. parsing' \in BOOLEAN
    BY <1>1, <1>3 DEF Types, Next, Read, Iterate, Starve, Rest, Drop, Discard, RefuseHeader, Fail, ValidateIncomplete,
       RefuseFrame, HandleMessage, HandleFirstFragment, HandleContinuation, HandlePing, HandleClose, GoOn, LocalClose, DoClose
  <2>5. got' \in Nat /\ got' <= Before(Len(stream) + 1)
    <3>1. CASE Read
      <4>1. Len(stream) + 1 \in 1..(Len(stream) + 1)
        BY <1>1
      <4>2. Total \in Nat /\ Total = Before(Len(stream) + 1)
        BY <1>1, <4>1, InOrder DEF Total
      <4> QED
        BY <1>1, <3>1, <4>2 DEF Read, Types
    <3>2. CASE ~Read
      <4>1. got' = got
        BY <1>3, <3>2 DEF Next, Iterate, Starve, Rest, Drop, Discard, RefuseHeader, Fail, ValidateIncomplete,
           RefuseFrame, HandleMessage, HandleFirstFragment, HandleContinuation, HandlePing, HandleClose, GoOn, LocalClose, DoClose
      <4> QED
        BY <1>1, <4>1 DEF Types
    <3> QED
      BY <3>1, <3>2
  <2>6. start' \in Nat /\ offset' \in Nat
    <3>1. start' \in {start, offset, got} /\ offset' \in {offset, start}
      <4>1. CASE Read \/ LocalClose \/ DoClose
        BY <4>1 DEF Read, LocalClose, DoClose
      <4>2. CASE Starve \/ Drop \/ RefuseHeader \/ ValidateIncomplete \/ RefuseFrame \/ HandleClose
        BY <4>2 DEF Starve, Rest, Drop, Discard, RefuseHeader, Fail, ValidateIncomplete, RefuseFrame, HandleClose
      <4>3. ~HandleMessage /\ ~HandleFirstFragment /\ ~HandleContinuation /\ ~HandlePing
        BY DEF HandleMessage, HandleFirstFragment, HandleContinuation, HandlePing, Whole, Admitted, Heeded
      <4> QED
        BY <1>3, <4>1, <4>2, <4>3 DEF Next, Iterate
    <3> QED
      BY <1>1, <3>1 DEF Types
  <2>7. Types'
    BY <1>1, <2>1, <2>2, <2>4, <2>5, <2>6 DEF Types, assembly, text
  <2>8. Inv'
    BY <2>3, <2>7 DEF Inv
  <2>9. Todo' = Todo /\ Message' = Message
    BY <2>3 DEF Todo, Message
  <2>10. CASE closed' = closed
    <3>1. State' = State
      BY <2>1, <2>3, <2>10 DEF State
    <3>2. Messages!vars' = <<Todo', Message', log', State'>> /\ Messages!vars = <<Todo, Message, log, State>>
      BY DEF Messages!vars, Todo, Message, State
    <3> QED
      BY <2>1, <2>8, <2>9, <3>1, <3>2 DEF Implemented
  <2>11. CASE ~closed /\ closed' = TRUE
    <3>1. State = answer /\ State' = "closed"
      BY <2>11 DEF State
    <3>2. Messages!Closed
      BY <1>1, <2>1, <2>9, <3>1 DEF Messages!Closed, Todo, Message, State
    <3> QED
      BY <2>8, <3>2 DEF Implemented, Messages!Next
  <2>12. closed \in BOOLEAN
    BY <1>1 DEF Types
  <2> QED
    BY <2>1, <2>10, <2>11, <2>12
<1> QED
  BY <1>2, <1>3


-----------------------------------------------------------------------------
(* Each step of an open connection.                                        *)

\* An open connection in the loop, with frame j in front.
Facing(j) == Types /\ parsing /\ ~is_closing /\ ~closed /\ OpenAt(j)

\* What does not depend on where the connection is stays what it is.
LEMMA SameText ==
  ASSUME UNCHANGED <<assembly, stream>>
  PROVE  /\ \A f : TextAt(f)' = TextAt(f)
         /\ \A f : Base(f)' = Base(f)
         /\ Assembling' = Assembling
         /\ \A j : Before(j)' = Before(j)
<1>1. UNCHANGED <<is_reading_frame, current_opcode, message_buffer>>
  BY DEF assembly
<1>2. \A v, s : Utf8(v, s)' = Utf8(v, s)
  BY DEF Utf8, Messages!Utf8, Messages!Met
<1>3. \A f : TextAt(f)' = TextAt(f)
  BY <1>1 DEF TextAt
<1>4. \A f : Base(f)' = Base(f)
  BY <1>1, <1>2 DEF Base
<1>5. Assembling' = Assembling
  BY <1>1, <1>2 DEF Assembling
<1> QED
  BY <1>3, <1>4, <1>5, SamePlaces

\* An end of the connection at the frame in front.
LEMMA Ended ==
  ASSUME NEW j \in 1..Len(stream), Facing(j),
         Frame.op = "close" \/ ~Messages!Legal(Frame),
         answer' = (IF Messages!Legal(Frame) THEN "echo" ELSE "error"),
         Discard, UNCHANGED <<closed, assembly, text, log>>
  PROVE  Inv' /\ Implemented
<1>1. Types /\ Frame = stream[j] /\ Before(j) = Position
  BY InFront DEF Facing, OpenAt
<1>2. is_closing'
  BY DEF is_closing
<1>3. \A i : Before(i)' = Before(i)
  BY SamePlaces DEF Discard
<1>4. Types'
  BY <1>1, <1>3 DEF Types, Discard, assembly, text
<1>5. Inv'
  BY <1>2, <1>4 DEF Inv
<1>6. Implemented
  BY <1>1, Leaves DEF Facing
<1> QED
  BY <1>5, <1>6

\* A frame that is taken leads to the next one.
LEMMA Taking ==
  ASSUME NEW j \in 1..Len(stream), Facing(j), Whole, ~Illegal, GoOn, UNCHANGED <<answer, closed>>,
         Messages!TakeData(Frame) \/ Messages!TakePing(Frame),
         is_reading_frame' \in BOOLEAN, message_buffer' \in Seq(Byte), utf8' \in States,
         incomplete' = NothingIncomplete, Assembling', Aligned'
  PROVE  Inv' /\ Implemented
<1>1. /\ Types /\ Frame = stream[j] /\ Before(j) = Position /\ Before(j + 1) = offset + Size(Frame)
      /\ offset = Before(j) /\ Available \in Nat /\ got = offset + Available /\ Frame \in Frames
  BY InFront DEF Facing, OpenAt
<1>2. Messages!Legal(Frame)
  BY IllegalIsNotLegal DEF Facing
<1>3. parsing' = parsing /\ offset' = offset + Size(Frame) /\ UNCHANGED <<stream, got, start>>
  BY DEF GoOn
<1>4. ~is_closing' /\ closed' = closed
  BY DEF Facing, is_closing
<1>5. Position' = offset' /\ parsing' /\ parsing
  BY <1>3 DEF Position, Facing
<1>6. Before(j + 1) = Position'
  BY <1>1, <1>3, <1>5
<1>7. Implemented
  BY <1>1, <1>2, <1>3, <1>6, Takes DEF Facing
<1>8. \A i : Before(i)' = Before(i)
  BY <1>3, SamePlaces
<1>9. Size(Frame) \in Nat /\ Available >= Size(Frame)
  BY <1>1, FrameTypes DEF Whole, Complete
<1>10. Types'
  <2>1. offset' \in Nat
    BY <1>1, <1>3, <1>9 DEF Types
  <2>2. incomplete' \in [active : BOOLEAN, consumed : Nat]
    BY DEF NothingIncomplete
  <2> QED
    BY <1>1, <1>3, <1>8, <2>1, <2>2 DEF Types
<1>11. OpenAt(j + 1)'
  <2>1. (Before(j + 1) = Position)'
    BY <1>6, <1>8
  <2>2. Position' <= got'
    BY <1>1, <1>3, <1>5, <1>9 DEF Types
  <2>3. Validated(j + 1)'
    BY DEF Validated, NothingIncomplete
  <2> QED
    BY <1>5, <2>1, <2>2, <2>3 DEF OpenAt
<1>12. j + 1 \in 1..(Len(stream') + 1)
  BY <1>1, <1>3 DEF Types
<1>13. Inv'
  BY <1>4, <1>10, <1>11, <1>12 DEF Inv, Facing
<1> QED
  BY <1>7, <1>13

\* A connection that waits again, at the frame it is at.
LEMMA WaitsAgain ==
  ASSUME NEW j \in 1..(Len(stream) + 1), Facing(j), Rest, UNCHANGED <<conn, assembly, log>>,
         utf8' \in States, incomplete' \in [active : BOOLEAN, consumed : Nat],
         Validated(j)', Waiting(j)'
  PROVE  Inv' /\ Implemented
<1>1. /\ Types /\ Before(j) = Position /\ Position <= got /\ Assembling /\ parsing /\ ~is_closing /\ ~closed
      /\ stream' = stream /\ got' = got /\ offset' = offset /\ parsing' = FALSE /\ start' = offset
      /\ answer' = answer /\ closed' = closed
  BY DEF Facing, OpenAt, Rest, conn
<1>2. Position' = Position
  BY <1>1 DEF Position
<1>3. Implemented
  BY <1>1, <1>2, Stutters
<1>4. Assembling' /\ \A i : Before(i)' = Before(i)
  BY <1>1, SameText
<1>5. Types'
  BY <1>1, <1>4 DEF Types, assembly
<1>6. OpenAt(j)'
  BY <1>1, <1>2, <1>4 DEF OpenAt
<1>7. ~is_closing'
  BY <1>1 DEF is_closing
<1> QED
  BY <1>1, <1>3, <1>5, <1>6, <1>7 DEF Inv

\* A read that is not too much adds units and moves nothing.
LEMMA ReadAndParse ==
  ASSUME Inv, ~is_closing, NEW j \in 1..(Len(stream) + 1), OpenAt(j), Read, ~(got' - start > MaxMessageSize + Overhead)
  PROVE  Inv' /\ Implemented
<1>1. /\ Types /\ Before(j) = Position /\ Position <= got /\ ~closed /\ stream \in Seq(Frames)
      /\ got \in Nat /\ start \in Nat
  BY DEF Inv, OpenAt, Types
<1>2. /\ ~parsing /\ parsing' = TRUE /\ offset' = start
      /\ UNCHANGED <<stream, start, answer, closed, assembly, text, log>>
  BY DEF Read, conn
<1>3. Total \in Nat /\ Total = Before(Len(stream) + 1)
  <2>1. Len(stream) + 1 \in 1..(Len(stream) + 1)
    BY <1>1
  <2> QED
    BY <1>1, <2>1, InOrder DEF Total
<1>4. got' \in Nat /\ got < got' /\ got' <= Before(Len(stream) + 1)
  BY <1>1, <1>3 DEF Read
<1>5. Position' = Position /\ Position = start
  BY <1>2 DEF Position
<1>6. Implemented
  BY <1>1, <1>2, <1>5, Stutters
<1>7. /\ Assembling' /\ \A i : Before(i)' = Before(i)
      /\ \A f : TextAt(f)' = TextAt(f)
      /\ \A f : Base(f)' = Base(f)
  BY <1>2, SameText DEF OpenAt
<1>8. Types'
  BY <1>1, <1>2, <1>4, <1>7 DEF Types, assembly, text
<1>9. Validated(j)'
  <2>1. utf8' = utf8 /\ incomplete' = incomplete /\ Validated(j)
    BY <1>2 DEF text, OpenAt
  <2>2. CASE incomplete.active
    <3>1. Begun(j)
      BY <2>1, <2>2 DEF Validated
    <3>2. Begun(j)'
      <4>1. Before(j) + Header + incomplete.consumed <= got'
        <5>1. Before(j) \in Nat /\ incomplete.consumed \in Nat
          BY <1>1, <1>5 DEF Types
        <5> QED
          BY <1>1, <1>4, <3>1, <5>1 DEF Begun, Header
      <4>2. \A v, s : Utf8(v, s)' = Utf8(v, s)
        BY DEF Utf8, Messages!Utf8, Messages!Met
      <4>3. stream' = stream /\ Header' = Header
        BY <1>2
      <4> QED
        BY <1>7, <2>1, <3>1, <4>1, <4>2, <4>3 DEF Begun
    <3> QED
      BY <2>1, <2>2, <3>2 DEF Validated
  <2>3. CASE ~incomplete.active
    <3>1. incomplete.consumed = 0 /\ Aligned
      BY <2>1, <2>3 DEF Validated
    <3>2. Aligned'
      BY <1>2, <2>1, <3>1 DEF Aligned, assembly
    <3> QED
      BY <2>1, <2>3, <3>1, <3>2 DEF Validated
  <2> QED
    BY <2>2, <2>3
<1>10. Position' <= got'
  BY <1>1, <1>4, <1>5
<1>11. OpenAt(j)'
  BY <1>1, <1>2, <1>5, <1>7, <1>9, <1>10 DEF OpenAt
<1>12. ~is_closing'
  BY <1>2 DEF is_closing
<1> QED
  BY <1>1, <1>2, <1>6, <1>8, <1>11, <1>12 DEF Inv

\* One that is too much ends the connection, and what waits is too much in the abstract (on_read).
LEMMA ReadTooMuch ==
  ASSUME Inv, ~is_closing, NEW j \in 1..(Len(stream) + 1), OpenAt(j), Read, got' - start > MaxMessageSize + Overhead
  PROVE  Inv' /\ Implemented
<1>1. /\ Types /\ Before(j) = Position /\ ~closed /\ stream \in Seq(Frames) /\ Len(stream) \in Nat
      /\ got \in Nat /\ start \in Nat /\ ~parsing /\ answer' = "overflow"
      /\ UNCHANGED <<stream, start, offset, parsing, closed, assembly, text, log>>
  BY DEF Inv, OpenAt, Types, Read
<1>2. is_closing'
  BY <1>1 DEF is_closing
<1>3. Total \in Nat /\ Total = Before(Len(stream) + 1) /\ got' \in Nat /\ got' <= Total
  <2>1. Len(stream) + 1 \in 1..(Len(stream) + 1)
    BY <1>1
  <2>2. Total \in Nat /\ Total = Before(Len(stream) + 1)
    BY <1>1, <2>1, InOrder DEF Total
  <2> QED
    BY <1>1, <2>2 DEF Read
<1>4. \A i : Before(i)' = Before(i)
  BY <1>1, SamePlaces
<1>5. Types'
  BY <1>1, <1>3, <1>4 DEF Types, assembly, text
<1>6. State = "open" /\ State' = "overflow" /\ Todo' = <<>> /\ Message' = Messages!NoMessage
  BY <1>1, <1>2 DEF State, Todo, Message, Messages!NoMessage
<1>7. Messages!Weight(Todo) > MaxMessageSize + Overhead
  <2>1. PICK w : w = Messages!Weight(Todo)
    OBVIOUS
  <2>2. Todo = SubSeq(stream, j, Len(stream)) /\ Before(j) = start
    BY <1>1, TodoIs DEF Position
  <2>3. w \in Nat /\ Total <= start + w
    BY <1>1, <1>3, <2>1, <2>2, WhatWaits
  <2>4. MaxMessageSize + Overhead \in Nat
    BY SizeAssumption
  <2> QED
    BY <1>1, <1>3, <2>1, <2>3, <2>4
<1>8. Messages!Overflow
  BY <1>1, <1>6, <1>7 DEF Messages!Overflow, State, Todo, Message
<1> QED
  BY <1>2, <1>5, <1>8 DEF Inv, Implemented, Messages!Next

\* Any read.
LEMMA ReadStep ==
  ASSUME Inv, ~is_closing, NEW j \in 1..(Len(stream) + 1), OpenAt(j), Read
  PROVE  Inv' /\ Implemented
BY ReadAndParse, ReadTooMuch

\* A close() of the application ends it at any frame.
LEMMA LocalCloseStep ==
  ASSUME Inv, ~is_closing, LocalClose
  PROVE  Inv' /\ Implemented
<1>1. /\ Types /\ ~closed /\ answer' = "local"
      /\ UNCHANGED <<stream, got, start, offset, parsing, closed, assembly, text, log>>
  BY DEF Inv, LocalClose
<1>2. is_closing'
  BY <1>1 DEF is_closing
<1>3. \A i : Before(i)' = Before(i)
  BY <1>1, SamePlaces
<1>4. Types'
  BY <1>1, <1>3 DEF Types, assembly, text
<1>5. State = "open" /\ State' = "local" /\ Todo' = <<>> /\ Message' = Messages!NoMessage
  BY <1>1, <1>2 DEF State, Todo, Message, Messages!NoMessage
<1>6. Messages!LocalClose
  BY <1>1, <1>5 DEF Messages!LocalClose, State, Todo, Message
<1> QED
  BY <1>2, <1>4, <1>6 DEF Inv, Implemented, Messages!Next


\* Text that came before the frame in front is not bad.
LEMMA BaseIsWell ==
  ASSUME Assembling, NEW f, TextAt(f)
  PROVE  Base(f) # "bad"
BY DEF Assembling, TextAt, Base

\* The loop ends for want of a header.
LEMMA StarveStep ==
  ASSUME NEW j \in 1..(Len(stream) + 1), Facing(j), Starve
  PROVE  Inv' /\ Implemented
<1>1. /\ Types /\ parsing /\ OpenAt(j) /\ Assembling /\ Validated(j)
      /\ Before(j) = Position /\ Position = offset /\ offset \in Nat /\ stream \in Seq(Frames)
  BY DEF Facing, OpenAt, Position, Types
<1>2. Rest /\ UNCHANGED <<stream, got, conn, assembly, text, log, utf8, incomplete>>
  BY DEF Starve, Rest, text
<1>3. /\ \A f : TextAt(f)' = TextAt(f)
      /\ \A f : Base(f)' = Base(f)
      /\ \A i : Before(i)' = Before(i)
  BY <1>2, SameText
<1>4. \A v, s : Utf8(v, s)' = Utf8(v, s)
  BY DEF Utf8, Messages!Utf8, Messages!Met
<1>5. Validated(j)'
  <2>1. Begun(j)' = Begun(j)
    BY <1>2, <1>3, <1>4 DEF Begun, Header
  <2>2. Aligned' = Aligned
    BY <1>2 DEF Aligned, assembly, Utf8, Messages!Utf8, Messages!Met
  <2> QED
    BY <1>1, <1>2, <2>1, <2>2 DEF Validated
<1>6. ASSUME j <= Len(stream)
      PROVE  /\ got < Before(j + 1)
             /\ TextAt(stream[j]) => Utf8(Base(stream[j]), SubSeq(stream[j].data, 1, Arrived(j))) # "bad"
  <2>1. j \in 1..Len(stream)
    BY <1>1, <1>6
  <2>2. /\ Available \in Nat /\ got = offset + Available /\ Before(j + 1) = offset + Size(Frame)
        /\ Size(Frame) \in Nat /\ Size(Frame) >= 2
    <3>1. Frame \in Frames /\ Available \in Nat /\ got = offset + Available /\ Before(j + 1) = offset + Size(Frame)
      BY <1>1, <2>1, InFront
    <3> QED
      BY <3>1, FrameTypes
  <2>3. Available < 2
    BY <2>2 DEF Starve, Header
  <2>4. Arrived(j) = 0
    BY <1>1, <2>2, <2>3 DEF Arrived, Header
  <2>5. SubSeq(stream[j].data, 1, Arrived(j)) = <<>>
    BY <2>4, SubSeqEmpty
  <2>6. TextAt(stream[j]) => Base(stream[j]) # "bad"
    BY <1>1, BaseIsWell
  <2>7. Utf8(Base(stream[j]), <<>>) = Base(stream[j])
    <3>1. PICK v : v = Base(stream[j])
      OBVIOUS
    <3>2. v \in States
      BY <1>1, <3>1, BaseIsAState
    <3> QED
      BY <3>1, <3>2, Utf8Ends
  <2>8. got < Before(j + 1)
    BY <1>1, <2>2, <2>3
  <2> QED
    BY <2>5, <2>6, <2>7, <2>8
<1>7. Waiting(j)'
  <2>1. Arrived(j)' = Arrived(j)
    BY <1>2, <1>3 DEF Arrived, Header
  <2> QED
    BY <1>2, <1>3, <1>4, <1>6, <2>1 DEF Waiting
<1> QED
  BY <1>1, <1>2, <1>5, <1>7, WaitsAgain DEF Types

\* A header that rules its frame out ends the connection.
LEMMA RefuseHeaderStep ==
  ASSUME NEW j \in 1..Len(stream), Facing(j), RefuseHeader
  PROVE  Inv' /\ Implemented
<1>1. Frame \in Frames /\ ~is_closing /\ ~closed
  BY InFront DEF Facing
<1>2. ~Messages!Legal(Frame)
  BY <1>1, HeaderIsIllegal DEF RefuseHeader
<1>3. /\ Discard /\ answer' = "error" /\ closed' = (closed \/ is_closing)
      /\ UNCHANGED <<assembly, text, log>>
  BY <1>1 DEF RefuseHeader, Fail
<1>4. closed' = closed
  BY <1>1, <1>3 DEF Facing, Types
<1> QED
  BY <1>2, <1>3, <1>4, Ended

\* So does a whole frame that is illegal.
LEMMA RefuseFrameStep ==
  ASSUME NEW j \in 1..Len(stream), Facing(j), RefuseFrame
  PROVE  Inv' /\ Implemented
<1>1. ~is_closing /\ ~closed
  BY DEF Facing
<1>2. ~Messages!Legal(Frame)
  BY IllegalIsNotLegal DEF RefuseFrame, Facing
<1>3. /\ Discard /\ answer' = "error" /\ closed' = (closed \/ is_closing)
      /\ UNCHANGED <<assembly, text, log>>
  BY <1>1 DEF RefuseFrame, Fail
<1>4. closed' = closed
  BY <1>1, <1>3 DEF Facing, Types
<1> QED
  BY <1>2, <1>3, <1>4, Ended

\* A Close of the peer ends it as well.
LEMMA CloseStep ==
  ASSUME NEW j \in 1..Len(stream), Facing(j), HandleClose
  PROVE  Inv' /\ Implemented
<1>1. Messages!Legal(Frame) /\ Frame.op = "close"
  BY IllegalIsNotLegal DEF HandleClose, Facing
<1>2. Discard /\ answer' = "echo" /\ closed' = closed /\ UNCHANGED <<assembly, text, log>>
  BY DEF HandleClose, Facing
<1> QED
  BY <1>1, <1>2, Ended

\* A part of a frame stays where it is, unless its text is bad already.
LEMMA ValidateIncompleteStep ==
  ASSUME NEW j \in 1..Len(stream), Facing(j), ValidateIncomplete
  PROVE  Inv' /\ Implemented
<1>1. PICK f, n : f = Frame /\ n = Available - Header
  OBVIOUS
<1>2. /\ Types /\ parsing /\ ~is_closing /\ ~closed /\ OpenAt(j) /\ Assembling /\ Validated(j)
      /\ Before(j) = Position /\ Position = offset /\ offset \in Nat
      /\ stream \in Seq(Frames) /\ j <= Len(stream) /\ j \in 1..(Len(stream) + 1)
  BY DEF Facing, OpenAt, Position, Types
<1>3. /\ f = stream[j] /\ f \in Frames /\ Available \in Nat /\ got = offset + Available
      /\ Before(j + 1) = offset + Size(f)
  BY <1>1, <1>2, InFront
<1>4. f.data \in Seq(Byte) /\ Len(f.data) \in Nat /\ Size(f) = 2 + Len(f.data)
  BY <1>3, FrameTypes
<1>5. Available >= Header /\ Available >= 2 /\ Available < Size(f)
  BY <1>1, <1>3, <1>4 DEF ValidateIncomplete, Admitted, Complete, Header
<1>6. n \in Nat /\ n < Len(f.data) /\ Arrived(j) = n /\ got < Before(j + 1)
  BY <1>1, <1>2, <1>3, <1>4, <1>5 DEF Header, Arrived
<1>7. HasText <=> TextAt(f)
  BY <1>1 DEF HasText, TextAt
<1>8. n = IF Available - Header <= Len(Frame.data) THEN Available - Header ELSE Len(Frame.data)
  BY <1>1, <1>4, <1>6
<1>9. HasText => Seen(f, n)
  BY <1>1, <1>2, <1>5, <1>6, <1>8, StreamedIsWhole
<1>10. CASE HasText /\ Streamed = "bad"
  <2>1. ~Messages!Legal(Frame)
    BY <1>2, <1>10, BadPartIsIllegal DEF ValidateIncomplete
  <2>2. /\ Discard /\ answer' = "error" /\ closed' = (closed \/ is_closing)
        /\ UNCHANGED <<assembly, text, log>>
    BY <1>2, <1>10 DEF ValidateIncomplete, Fail
  <2>3. closed' = closed
    BY <1>2, <2>2 DEF Types
  <2> QED
    BY <2>1, <2>2, <2>3, Ended
<1>11. CASE ~(HasText /\ Streamed = "bad")
  <2>1. /\ Rest /\ UNCHANGED <<stream, got, conn, assembly, log>>
        /\ IF HasText THEN utf8' = Streamed /\ incomplete' = [active |-> TRUE, consumed |-> Len(Payload)]
                      ELSE UNCHANGED text
    BY <1>11 DEF ValidateIncomplete, Rest
  <2>2. /\ \A g : TextAt(g)' = TextAt(g)
        /\ \A g : Base(g)' = Base(g)
        /\ \A i : Before(i)' = Before(i)
    BY <2>1, SameText
  <2>3. \A v, s : Utf8(v, s)' = Utf8(v, s)
    BY DEF Utf8, Messages!Utf8, Messages!Met
  <2>4. Arrived(j)' = Arrived(j)
    BY <2>1, <2>2 DEF Arrived, Header
  <2>5. Base(f) \in States
    BY <1>2, BaseIsAState
  <2>6. SubSeq(f.data, 1, n) \in Seq(Byte)
    <3>1. 0 \in Nat /\ 0 <= n /\ n <= Len(f.data)
      BY <1>4, <1>6
    <3> QED
      BY <1>4, <1>6, <3>1, Pieces
  <2>7. Utf8(Base(f), SubSeq(f.data, 1, n)) \in States
    <3>1. PICK v, s : v = Base(f) /\ s = SubSeq(f.data, 1, n)
      OBVIOUS
    <3> QED
      BY <2>5, <2>6, <3>1, Utf8IsFits
  <2>8. CASE HasText
    <3>1. /\ Streamed = Utf8(Base(f), SubSeq(f.data, 1, n)) /\ Streamed # "bad" /\ Len(Payload) = n
      BY <1>9, <1>11, <2>8 DEF Seen
    <3>2. utf8' = Streamed /\ utf8' \in States /\ incomplete' = [active |-> TRUE, consumed |-> n]
      BY <2>1, <2>7, <2>8, <3>1
    <3>3. incomplete' \in [active : BOOLEAN, consumed : Nat]
      BY <1>6, <3>2
    <3>4. Begun(j)'
      <4>1. Before(j) + Header + n <= got
        BY <1>1, <1>2, <1>3, <1>6 DEF Header
      <4>2. /\ j <= Len(stream') /\ stream'[j] = f /\ incomplete'.consumed = n /\ TextAt(f)' /\ n <= Len(f.data)
        BY <1>2, <1>3, <1>4, <1>6, <1>7, <2>1, <2>2, <2>8, <3>2
      <4>3. Before(j)' + Header + incomplete'.consumed <= got'
        BY <2>1, <2>2, <3>2, <4>1
      <4>4. Utf8(Base(f), SubSeq(f.data, 1, n))' = Utf8(Base(f), SubSeq(f.data, 1, n))
        BY <2>2 DEF Utf8, Messages!Utf8, Messages!Met
      <4> QED
        BY <3>1, <3>2, <4>2, <4>3, <4>4 DEF Begun, Header
    <3>5. Validated(j)'
      BY <3>2, <3>4 DEF Validated
    <3>6. Waiting(j)'
      BY <1>3, <1>6, <2>1, <2>2, <2>3, <2>4, <3>1 DEF Waiting
    <3> QED
      BY <1>2, <2>1, <3>2, <3>3, <3>5, <3>6, WaitsAgain
  <2>9. CASE ~HasText
    <3>1. UNCHANGED <<utf8, incomplete>> /\ ~TextAt(f)
      BY <1>7, <2>1, <2>9 DEF text
    <3>2. ~incomplete.active /\ incomplete.consumed = 0 /\ Aligned
      BY <1>2, <1>3, <3>1 DEF Validated, Begun
    <3>3. Aligned'
      BY <2>1, <3>1, <3>2 DEF Aligned, assembly, Utf8, Messages!Utf8, Messages!Met
    <3>4. Validated(j)'
      BY <3>1, <3>2, <3>3 DEF Validated
    <3>5. Waiting(j)'
      BY <1>3, <1>6, <2>1, <2>2, <3>1 DEF Waiting
    <3> QED
      BY <1>2, <2>1, <3>1, <3>4, <3>5, WaitsAgain DEF Types
  <2> QED
    BY <2>8, <2>9
<1> QED
  BY <1>10, <1>11

\* What a whole frame that is taken says of itself and of its text.
LEMMA WholeFrame ==
  ASSUME NEW j \in 1..Len(stream), Facing(j), Whole, ~Illegal
  PROVE  /\ Frame \in Frames /\ Frame.data \in Seq(Byte) /\ message_buffer \in Seq(Byte)
         /\ is_reading_frame \in BOOLEAN /\ utf8 \in States /\ Assembling
         /\ HasText => After = Utf8(Base(Frame), Frame.data) /\ After \in States /\ After # "bad"
<1>1. Types /\ OpenAt(j) /\ Assembling /\ parsing
  BY DEF Facing, OpenAt
<1>2. Frame \in Frames /\ Frame.data \in Seq(Byte)
  BY <1>1, InFront, FrameTypes
<1>3. HasText => After = Utf8(Base(Frame), Frame.data)
  BY <1>1, AfterIsWhole
<1>4. Utf8(Base(Frame), Frame.data) \in States
  <2>1. PICK v, s : v = Base(Frame) /\ s = Frame.data
    OBVIOUS
  <2>2. v \in States
    BY <1>1, <2>1, BaseIsAState
  <2> QED
    BY <1>2, <2>1, <2>2, Utf8IsFits
<1>5. HasText => After # "bad"
  BY DEF Illegal, BadText
<1> QED
  BY <1>1, <1>2, <1>3, <1>4, <1>5 DEF Types

\* The message that is put together is that of the abstract.
LEMMA MessageIs ==
  ASSUME NEW j \in 1..Len(stream), Facing(j)
  PROVE  Frame \in Frames /\ Types /\ ~is_closing /\ Assembling
BY InFront DEF Facing, OpenAt

\* A message of one frame is reported.
LEMMA MessageStep ==
  ASSUME NEW j \in 1..Len(stream), Facing(j), HandleMessage
  PROVE  Inv' /\ Implemented
<1>1. /\ Whole /\ ~Illegal /\ Frame.op \in {"text", "binary"} /\ Frame.fin /\ GoOn
      /\ log' = Append(log, [op |-> Frame.op, data |-> Frame.data])
      /\ utf8' = (IF Consumed THEN "ok" ELSE utf8) /\ incomplete' = NothingIncomplete
      /\ UNCHANGED <<answer, closed, is_reading_frame, current_opcode, message_buffer>>
  BY DEF HandleMessage, Deliver, conn, assembly
<1>2. ~is_reading_frame
  BY <1>1 DEF Illegal
<1>3. /\ Frame \in Frames /\ message_buffer \in Seq(Byte) /\ is_reading_frame \in BOOLEAN /\ utf8 \in States
      /\ Types /\ ~is_closing /\ Assembling
  BY <1>1, WholeFrame, MessageIs
<1>4. Messages!Joined(Frame) = [op |-> Frame.op, data |-> Frame.data]
  BY <1>1, <1>3, JoinedIs
<1>5. Message' = Messages!NoMessage
  BY <1>1, <1>2 DEF Message, Messages!NoMessage
<1>6. UNCHANGED State
  BY <1>1 DEF State, is_closing
<1>7. Messages!TakeData(Frame)
  BY <1>1, <1>4, <1>5, <1>6 DEF Messages!TakeData, Messages!Data, Message, State
<1>8. utf8' \in States
  BY <1>1, <1>3 DEF States
<1>9. Assembling' /\ Aligned'
  BY <1>1, <1>2 DEF Assembling, Aligned
<1> QED
  BY <1>1, <1>3, <1>7, <1>8, <1>9, Taking

\* A first fragment begins a message.
LEMMA FirstFragmentStep ==
  ASSUME NEW j \in 1..Len(stream), Facing(j), HandleFirstFragment
  PROVE  Inv' /\ Implemented
<1>1. /\ Whole /\ ~Illegal /\ Frame.op \in {"text", "binary"} /\ ~Frame.fin /\ GoOn
      /\ current_opcode' = Frame.op /\ message_buffer' = Frame.data /\ is_reading_frame' = TRUE
      /\ utf8' = (IF Frame.op = "text" THEN After ELSE utf8) /\ incomplete' = NothingIncomplete
      /\ UNCHANGED <<answer, closed, log>>
  BY DEF HandleFirstFragment, conn
<1>2. ~is_reading_frame
  BY <1>1 DEF Illegal
<1>3. /\ Frame \in Frames /\ Frame.data \in Seq(Byte) /\ utf8 \in States
      /\ Types /\ ~is_closing /\ Assembling
  BY <1>1, WholeFrame, MessageIs
<1>4. Frame.op = "text" => After = Utf8("ok", Frame.data) /\ After \in States /\ After # "bad"
  BY <1>1, <1>2, WholeFrame DEF HasText, Base
<1>5. Messages!Joined(Frame) = [op |-> Frame.op, data |-> Frame.data]
  BY <1>1, <1>3, JoinedIs
<1>6. Message' = Messages!Joined(Frame)
  BY <1>1, <1>3, <1>5 DEF Message, is_closing
<1>7. UNCHANGED State
  BY <1>1 DEF State, is_closing
<1>8. Messages!TakeData(Frame)
  BY <1>1, <1>6, <1>7 DEF Messages!TakeData, Messages!Data, Message, State
<1>9. \A v, s : Utf8(v, s)' = Utf8(v, s)
  BY DEF Utf8, Messages!Utf8, Messages!Met
<1>10. utf8' \in States /\ Assembling' /\ Aligned'
  BY <1>1, <1>3, <1>4, <1>9 DEF Assembling, Aligned, Utf8, Messages!Utf8, Messages!Met
<1> QED
  BY <1>1, <1>3, <1>8, <1>10, Taking

\* A continuation adds to the message, and the last one reports it.
LEMMA ContinuationStep ==
  ASSUME NEW j \in 1..Len(stream), Facing(j), HandleContinuation
  PROVE  Inv' /\ Implemented
<1>1. /\ Whole /\ ~Illegal /\ Frame.op = "cont" /\ GoOn /\ incomplete' = NothingIncomplete
      /\ UNCHANGED <<answer, closed>>
  BY DEF HandleContinuation, conn
<1>2. is_reading_frame
  BY <1>1 DEF Illegal
<1>3. /\ Frame \in Frames /\ Frame.data \in Seq(Byte) /\ utf8 \in States /\ message_buffer \in Seq(Byte)
      /\ Types /\ ~is_closing /\ Assembling
  BY <1>1, WholeFrame, MessageIs
<1>4. Messages!Joined(Frame) = [op |-> current_opcode, data |-> message_buffer \o Frame.data]
  BY <1>1, <1>2, <1>3, JoinedIs
<1>5. UNCHANGED State
  BY <1>1 DEF State, is_closing
<1>6. CASE Frame.fin
  <2>1. /\ log' = Append(log, [op |-> current_opcode, data |-> message_buffer \o Frame.data])
        /\ is_reading_frame' = FALSE /\ message_buffer' = <<>> /\ utf8' = "ok"
    BY <1>6 DEF HandleContinuation, Deliver
  <2>2. Message' = Messages!NoMessage
    BY <2>1 DEF Message, Messages!NoMessage
  <2>3. Messages!TakeData(Frame)
    BY <1>1, <1>4, <1>5, <1>6, <2>1, <2>2 DEF Messages!TakeData, Messages!Data, Message, State
  <2>4. Assembling' /\ Aligned' /\ utf8' \in States
    BY <2>1 DEF Assembling, Aligned, States
  <2>5. is_reading_frame' \in BOOLEAN /\ message_buffer' \in Seq(Byte)
    <3>1. <<>> \in Seq(Byte)
      OBVIOUS
    <3> QED
      BY <2>1, <3>1
  <2> QED
    BY <1>1, <2>3, <2>4, <2>5, Taking
<1>7. CASE ~Frame.fin
  <2>1. /\ message_buffer' = message_buffer \o Frame.data /\ utf8' = (IF HasText THEN After ELSE utf8)
        /\ UNCHANGED <<log, is_reading_frame, current_opcode>>
    BY <1>7 DEF HandleContinuation
  <2>2. Message' = Messages!Joined(Frame)
    BY <1>1, <1>2, <1>3, <1>4, <2>1 DEF Message, is_closing
  <2>3. Messages!TakeData(Frame)
    BY <1>1, <1>5, <1>7, <2>1, <2>2 DEF Messages!TakeData, Messages!Data, Message, State
  <2>4. message_buffer' \in Seq(Byte)
    BY <1>3, <2>1, ConcatProperties
  <2>5. ASSUME current_opcode = "text"
        PROVE  utf8' = Utf8("ok", message_buffer \o Frame.data) /\ utf8' \in States /\ utf8' # "bad"
    <3>2. HasText
      BY <1>1, <1>2, <2>5 DEF HasText
    <3>3. utf8' = Utf8(Utf8("ok", message_buffer), Frame.data) /\ utf8' \in States /\ utf8' # "bad"
      BY <1>1, <2>1, <3>2, WholeFrame DEF Base
    <3>4. "ok" \in States
      BY DEF States
    <3>5. Utf8("ok", message_buffer \o Frame.data) = Utf8(Utf8("ok", message_buffer), Frame.data)
      BY <1>3, <3>4, Utf8Composes
    <3> QED
      BY <2>1, <3>3, <3>5
  <2>6. utf8' \in States
    BY <1>1, <1>3, <2>1, WholeFrame
  <2>7. Assembling' /\ Aligned'
    BY <1>3, <2>1, <2>5 DEF Assembling, Aligned, Utf8, Messages!Utf8, Messages!Met
  <2>8. is_reading_frame' \in BOOLEAN
    BY <1>2, <2>1
  <2> QED
    BY <1>1, <1>3, <2>3, <2>4, <2>6, <2>7, <2>8, Taking
<1> QED
  BY <1>6, <1>7

\* A ping is answered, between the fragments of a message too.
LEMMA PingStep ==
  ASSUME NEW j \in 1..Len(stream), Facing(j), HandlePing
  PROVE  Inv' /\ Implemented
<1>1. /\ Whole /\ ~Illegal /\ Frame.op = "ping" /\ GoOn
      /\ log' = Append(log, [op |-> "ping", data |-> Frame.data])
      /\ UNCHANGED <<answer, closed, is_reading_frame, current_opcode, message_buffer, utf8, incomplete>>
  BY DEF HandlePing, Deliver, conn, assembly, text
<1>2. /\ Frame \in Frames /\ message_buffer \in Seq(Byte) /\ is_reading_frame \in BOOLEAN /\ utf8 \in States
      /\ Types /\ Assembling /\ Frame = stream[j]
  BY <1>1, WholeFrame, MessageIs, InFront DEF Facing
<1>3. UNCHANGED State /\ UNCHANGED Message
  BY <1>1 DEF State, Message, is_closing
<1>4. Messages!TakePing(Frame)
  BY <1>1, <1>3 DEF Messages!TakePing, Message, State
<1>5. Validated(j) /\ ~TextAt(Frame)
  BY <1>1 DEF Facing, OpenAt, TextAt
<1>6. incomplete = NothingIncomplete /\ Aligned
  <2>1. ~incomplete.active /\ incomplete.consumed = 0 /\ Aligned
    BY <1>2, <1>5 DEF Validated, Begun
  <2>2. incomplete \in [active : BOOLEAN, consumed : Nat]
    BY <1>2 DEF Types
  <2> QED
    BY <2>1, <2>2 DEF NothingIncomplete
<1>7. Assembling' /\ Aligned'
  BY <1>1, <1>2, <1>6 DEF Assembling, Aligned, Utf8, Messages!Utf8, Messages!Met
<1> QED
  BY <1>1, <1>2, <1>4, <1>6, <1>7, Taking


-----------------------------------------------------------------------------
(* The invariant holds, and every step is one of the abstract.             *)

\* Before the first read.
LEMMA InvInit ==
  ASSUME Init
  PROVE  Inv /\ Messages!Init
<1>1. /\ got = 0 /\ start = 0 /\ offset = 0 /\ parsing = FALSE /\ answer = "none" /\ closed = FALSE
      /\ is_reading_frame = FALSE /\ message_buffer = <<>> /\ utf8 = "ok"
      /\ incomplete = [active |-> FALSE, consumed |-> 0] /\ log = <<>>
  BY DEF Init, NothingIncomplete
<1>2. stream \in Seq(Frames)
  <2>1. MaxFrames \in Nat
    BY SizeAssumption
  <2>2. PICK n \in 1..MaxFrames : stream \in [1..n -> Frames]
    BY DEF Init
  <2>3. n \in Nat
    BY <2>1, <2>2
  <2> QED
    BY <2>2, <2>3, SeqDef
<1>3. Len(stream) \in Nat /\ 1 \in 1..(Len(stream) + 1) /\ Len(stream) + 1 \in 1..(Len(stream) + 1) /\ 1 <= Len(stream) + 1
  BY <1>2
<1>4. Before(1) = 0 /\ Before(Len(stream) + 1) \in Nat
  BY <1>2, <1>3, FirstBegins, InOrder
<1>5. Types
  <2>1. <<>> \in Seq(Byte)
    OBVIOUS
  <2>2. incomplete \in [active : BOOLEAN, consumed : Nat]
    BY <1>1
  <2>3. got <= Before(Len(stream) + 1)
    BY <1>1, <1>4
  <2> QED
    BY <1>1, <1>2, <2>1, <2>2, <2>3 DEF Types, States
<1>6. ASSUME 1 <= Len(stream)
      PROVE  /\ got < Before(1 + 1)
             /\ TextAt(stream[1]) => Utf8(Base(stream[1]), SubSeq(stream[1].data, 1, Arrived(1))) # "bad"
  <2>1. 1 \in 1..Len(stream)
    BY <1>3, <1>6
  <2>2. stream[1] \in Frames
    BY <1>2, <2>1, ElementOfSeq
  <2>3. Size(stream[1]) \in Nat /\ Size(stream[1]) >= 2
    BY <2>2, FrameTypes
  <2>4. Before(1 + 1) = Before(1) + Size(stream[1])
    BY <1>2, <2>1, NextBegins
  <2>5. got < Before(1 + 1)
    BY <1>1, <1>4, <2>3, <2>4
  <2>6. Arrived(1) = 0
    BY <1>1, <1>4 DEF Arrived, Header
  <2>7. SubSeq(stream[1].data, 1, Arrived(1)) = <<>>
    BY <2>6, SubSeqEmpty
  <2>8. TextAt(stream[1]) => Base(stream[1]) = "ok"
    BY <1>1 DEF TextAt, Base
  <2>9. Utf8("ok", <<>>) = "ok"
    BY Utf8Ends DEF States
  <2> QED
    BY <2>5, <2>7, <2>8, <2>9
<1>7. OpenAt(1)
  <2>1. Waiting(1)
    BY <1>6 DEF Waiting
  <2>2. Assembling
    BY <1>1 DEF Assembling
  <2>3. Validated(1)
    BY <1>1 DEF Validated, Aligned
  <2> QED
    BY <1>1, <1>4, <2>1, <2>2, <2>3 DEF OpenAt, Position
<1>8. Inv
  BY <1>1, <1>3, <1>5, <1>7 DEF Inv
<1>9. Messages!Init
  BY <1>1 DEF Messages!Init, Messages!NoMessage, is_closing
<1> QED
  BY <1>8, <1>9

\* An iteration of the loop of an open connection.
LEMMA IterateStep ==
  ASSUME Inv, ~is_closing, NEW j \in 1..(Len(stream) + 1), OpenAt(j), Iterate
  PROVE  Inv' /\ Implemented
<1>1. Facing(j) /\ Types /\ parsing
  BY DEF Inv, Facing, Iterate
<1>2. CASE Starve
  BY <1>1, <1>2, StarveStep
<1>3. ~Drop
  BY DEF Drop
<1>4. CASE ~Starve
  <2>1. j \in 1..Len(stream)
    <3>1. InStep
      BY <1>3, <1>4 DEF Iterate, RefuseHeader, ValidateIncomplete, RefuseFrame, HandleMessage, HandleFirstFragment,
         HandleContinuation, HandlePing, HandleClose, Whole, Admitted
    <3> QED
      BY <1>1, <3>1, AtTheEnd
  <2>2. \/ RefuseHeader \/ ValidateIncomplete \/ RefuseFrame \/ HandleMessage \/ HandleFirstFragment
        \/ HandleContinuation \/ HandlePing \/ HandleClose
    BY <1>3, <1>4 DEF Iterate
  <2> QED
    BY <1>1, <2>1, <2>2, RefuseHeaderStep, ValidateIncompleteStep, RefuseFrameStep, MessageStep, FirstFragmentStep,
       ContinuationStep, PingStep, CloseStep
<1> QED
  BY <1>2, <1>4

\* Every step.
LEMMA InvStep ==
  ASSUME Inv, [Next]_vars
  PROVE  Inv' /\ Implemented
<1>1. CASE is_closing
  BY <1>1, ClosingStep
<1>2. CASE ~is_closing
  <2>1. PICK j \in 1..(Len(stream) + 1) : OpenAt(j)
    BY <1>2 DEF Inv
  <2>2. CASE Read
    BY <1>2, <2>1, <2>2, ReadStep
  <2>3. CASE Iterate
    BY <1>2, <2>1, <2>3, IterateStep
  <2>4. CASE LocalClose
    BY <1>2, <2>4, LocalCloseStep
  <2>5. ~DoClose
    BY <1>2 DEF DoClose
  <2>6. CASE UNCHANGED vars
    <3>1. UNCHANGED <<stream, got, start, offset, parsing, answer, closed, is_reading_frame, current_opcode,
                      message_buffer, utf8, incomplete, log>>
      BY <2>6 DEF vars, conn, assembly, text
    <3>2. /\ \A i : Before(i)' = Before(i)
          /\ \A f : TextAt(f)' = TextAt(f)
          /\ \A f : Base(f)' = Base(f)
          /\ Assembling' = Assembling
      BY <3>1, SameText DEF assembly
    <3>3. Types' /\ ~is_closing' /\ ~closed'
      BY <1>2, <3>1, <3>2 DEF Inv, Types, is_closing
    <3>4. \A v, s : Utf8(v, s)' = Utf8(v, s)
      BY DEF Utf8, Messages!Utf8, Messages!Met
    <3>5. Validated(j)' = Validated(j) /\ Waiting(j)' = Waiting(j)
      <4>1. Aligned' = Aligned
        BY <3>1, <3>4 DEF Aligned
      <4>2. Begun(j)' = Begun(j)
        BY <3>1, <3>2, <3>4 DEF Begun, Header
      <4>3. Arrived(j)' = Arrived(j)
        BY <3>1, <3>2 DEF Arrived, Header
      <4>4. Waiting(j)' = Waiting(j)
        BY <3>1, <3>2, <3>4, <4>3 DEF Waiting
      <4> QED
        BY <3>1, <4>1, <4>2, <4>4 DEF Validated
    <3>6. OpenAt(j)'
      BY <2>1, <3>1, <3>2, <3>5 DEF OpenAt, Position
    <3>7. Before(j) = Position /\ Position' = Position /\ Types
      BY <2>1, <3>1 DEF OpenAt, Position, Inv
    <3>8. Implemented
      BY <1>2, <3>1, <3>7, Stutters DEF assembly
    <3> QED
      BY <2>1, <3>1, <3>3, <3>6, <3>8 DEF Inv
  <2> QED
    BY <2>2, <2>3, <2>4, <2>5, <2>6 DEF Next
<1> QED
  BY <1>1, <1>2

(* An open connection is between two frames, or waits with a part of one   *)
(* whose text is not bad so far; the validator agrees with the text it has *)
(* been given, in whatever pieces (process_frames).                        *)
THEOREM InStepWithFrames == Spec => []Inv
<1>1. Init => Inv
  BY InvInit
<1>2. Inv /\ [Next]_vars => Inv'
  BY InvStep
<1> QED
  BY <1>1, <1>2, PTL DEF Spec

(* However the frames are split over reads, what the connection reports    *)
(* and where it gives up are what WebSocketMessages says of whole frames:  *)
(* only where frames that weigh more than the limit on frame_buffer_ wait  *)
(* to be taken may it have given up for the pieces they came in (on_read,  *)
(* process_frames, handle_frame, consume_incomplete_text_payload).         *)
THEOREM FramesImplementMessages == Spec => ImplementsMessages
<1>1. Init => Messages!Init
  BY InvInit
<1>2. Inv /\ [Next]_vars => [Messages!Next]_(Messages!vars)
  BY InvStep DEF Implemented
<1> QED
  BY <1>1, <1>2, InStepWithFrames, PTL DEF Spec, ImplementsMessages, Messages!Spec

(* While an open connection waits for a read, no whole frame is left in    *)
(* frame_buffer_ (process_frames).                                         *)
THEOREM NothingIsWithheld == Spec => []NothingWithheld
<1>1. ASSUME Inv PROVE NothingWithheld
  <2> SUFFICES ASSUME ~parsing, ~is_closing, NEW j \in DOMAIN stream, Before(j + 1) <= got
               PROVE  Before(j + 1) <= start
    BY DEF NothingWithheld
  <2>1. stream \in Seq(Frames) /\ Len(stream) \in Nat /\ got \in Nat
    BY <1>1 DEF Inv, Types
  <2>2. j \in 1..Len(stream) /\ j + 1 \in 1..(Len(stream) + 1)
    BY <2>1
  <2>3. PICK i \in 1..(Len(stream) + 1) : OpenAt(i)
    BY <1>1 DEF Inv
  <2>4. Before(i) = start /\ Waiting(i)
    BY <2>3 DEF OpenAt, Position
  <2>5. j + 1 <= i
    <3>1. CASE i <= Len(stream)
      <4>1. got < Before(i + 1) /\ i + 1 \in 1..(Len(stream) + 1)
        BY <2>1, <2>4, <3>1 DEF Waiting
      <4>2. Before(i + 1) \in Nat /\ Before(j + 1) \in Nat
        BY <2>1, <2>2, <4>1, InOrder
      <4>3. Before(j + 1) <= Before(i + 1) /\ Before(j + 1) # Before(i + 1)
        BY <2>1, <4>1, <4>2
      <4>4. j + 1 <= i + 1 /\ j + 1 # i + 1
        BY <2>1, <2>2, <4>1, <4>3, OnePlace
      <4> QED
        BY <2>2, <4>4
    <3>2. CASE ~(i <= Len(stream))
      BY <2>1, <2>2, <3>2
    <3> QED
      BY <3>1, <3>2
  <2> QED
    BY <2>1, <2>2, <2>4, <2>5, InOrder
<1> QED
  BY <1>1, InStepWithFrames, PTL

(* Text that cannot become valid any more ends the connection with the     *)
(* read that brings it (consume_incomplete_text_payload).                  *)
THEOREM BadTextFailsFast == Spec => []FailsFast
<1>1. ASSUME Inv PROVE FailsFast
  <2> SUFFICES ASSUME ~parsing, ~is_closing, start < got
               PROVE  LET j == CHOOSE k \in DOMAIN stream : Before(k) = start
                          here == SubSeq(stream[j].data, 1, IF got - start < Header THEN 0 ELSE got - start - Header) IN
                      /\ stream[j].op = "text" /\ ~is_reading_frame => Utf8("ok", here) # "bad"
                      /\ stream[j].op = "cont" /\ is_reading_frame /\ current_opcode = "text"
                            => Utf8("ok", message_buffer \o here) # "bad"
    BY DEF FailsFast
  <2>1. /\ stream \in Seq(Frames) /\ Len(stream) \in Nat /\ got \in Nat /\ start \in Nat /\ DOMAIN stream = 1..Len(stream)
        /\ got <= Before(Len(stream) + 1) /\ message_buffer \in Seq(Byte)
    BY <1>1 DEF Inv, Types
  <2>2. PICK i \in 1..(Len(stream) + 1) : OpenAt(i)
    BY <1>1 DEF Inv
  <2>3. Before(i) = start /\ Waiting(i)
    BY <2>2 DEF OpenAt, Position
  <2>4. i \in 1..Len(stream)
    BY <2>1, <2>2, <2>3
  <2>5. (CHOOSE k \in DOMAIN stream : Before(k) = start) = i
    <3>1. \A k \in 1..Len(stream) : Before(k) = start => k = i
      BY <2>1, <2>3, <2>4, OnePlace
    <3> QED
      BY <2>1, <2>3, <2>4, <3>1
  <2>6. PICK f, n : f = stream[i] /\ n = Arrived(i)
    OBVIOUS
  <2>7. n = IF got - start < Header THEN 0 ELSE got - start - Header
    BY <2>1, <2>3, <2>6 DEF Arrived, Header
  <2>8. f \in Frames
    BY <2>1, <2>4, <2>6, ElementOfSeq
  <2>9. f.data \in Seq(Byte) /\ Len(f.data) \in Nat /\ Size(f) = 2 + Len(f.data)
    BY <2>8, FrameTypes
  <2>10. Before(i + 1) = start + Size(f) /\ got < Before(i + 1)
    BY <2>1, <2>3, <2>4, <2>6, NextBegins DEF Waiting
  <2>11. n \in Nat /\ n <= Len(f.data)
    BY <2>1, <2>7, <2>9, <2>10 DEF Header
  <2>12. SubSeq(f.data, 1, n) \in Seq(Byte)
    <3>1. 0 \in Nat /\ 0 <= n
      BY <2>11
    <3> QED
      BY <2>9, <2>11, <3>1, Pieces
  <2>13. TextAt(f) => Utf8(Base(f), SubSeq(f.data, 1, n)) # "bad"
    BY <2>3, <2>4, <2>6 DEF Waiting
  <2>14. f.op = "text" /\ ~is_reading_frame => Utf8("ok", SubSeq(f.data, 1, n)) # "bad"
    BY <2>13 DEF TextAt, Base
  <2>15. ASSUME f.op = "cont", is_reading_frame, current_opcode = "text"
         PROVE  Utf8("ok", message_buffer \o SubSeq(f.data, 1, n)) # "bad"
    <3>1. Base(f) = Utf8("ok", message_buffer) /\ TextAt(f)
      BY <2>15 DEF Base, TextAt
    <3>2. PICK s : s = SubSeq(f.data, 1, n)
      OBVIOUS
    <3>3. "ok" \in States
      BY DEF States
    <3>4. Utf8("ok", message_buffer \o s) = Utf8(Utf8("ok", message_buffer), s)
      BY <2>1, <2>12, <3>2, <3>3, Utf8Composes
    <3> QED
      BY <2>13, <3>1, <3>2, <3>4
  <2> QED
    BY <2>5, <2>6, <2>7, <2>14, <2>15
<1> QED
  BY <1>1, InStepWithFrames, PTL
=============================================================================
