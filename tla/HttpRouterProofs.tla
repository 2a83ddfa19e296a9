-------------------------- MODULE HttpRouterProofs --------------------------
(***************************************************************************)
(* Proofs about HttpRouter for any routes, methods and targets: the tree   *)
(* and the table of static paths agree with the map of routes, a lookup    *)
(* finds a route of it that fits, and the best one where the routes are    *)
(* tame, and a route is rejected for a reason.                             *)
(***************************************************************************)
EXTENDS HttpRouter, SequenceTheorems, TLAPS

-----------------------------------------------------------------------------
(* The tables.                                                             *)

Given == {k[1].segments : k \in DOMAIN routes} \cup rejected
Key(k) == <<k[1].segments, k[2]>>

\* The map holds routes that were given, each with a handler of its own.
MapInv ==
    /\ added \in Nat
    /\ \A k \in DOMAIN routes : \E r \in Route, method \in Method :
          k = <<Path(r), method>> /\ routes[k].constraints = r.constraints
    /\ \A k \in DOMAIN routes : routes[k].handle \in 1..added
    /\ \A k, l \in DOMAIN routes : routes[k].handle = routes[l].handle => k = l
    /\ rejected \subseteq {r.segments : r \in Route}

\* The static ones are in the table of static paths.
DirectInv ==
    /\ DOMAIN direct = {k \in DOMAIN routes : IsStatic(k[1].segments)}
    /\ \A k \in DOMAIN direct : direct[k] = routes[k].handle

\* The tree is one, of routes that were given, and unambiguous.
TreeInv ==
    /\ <<>> \in nodes /\ nodes \subseteq Seq(Segment)
    /\ \A n \in nodes : \A i \in 0..Len(n) : Upto(n, i) \in nodes
    /\ \A n \in nodes : n # <<>> => \E s \in Given : Len(n) <= Len(s) /\ Upto(s, Len(n)) = n
    /\ \A m, n \in nodes :
          m # <<>> /\ n # <<>> /\ Front(m) = Front(n) /\ Last(m).kind = Last(n).kind /\ Last(m).kind # "static" => m = n
    /\ \A n \in nodes : \A i \in DOMAIN n : n[i].kind = "wild" => i = Len(n)

\* The others are in the tree, with the handler and the constraints given last.
HandlersInv ==
    /\ \A k \in DOMAIN routes : ~IsStatic(k[1].segments) =>
          k[1].segments \in nodes /\ Key(k) \in DOMAIN handlers /\ routes[k].handle <= handlers[Key(k)]
    /\ \A h \in DOMAIN handlers : \E k \in DOMAIN routes :
          ~IsStatic(k[1].segments) /\ h = Key(k) /\ routes[k].handle = handlers[h]
    /\ \A h \in DOMAIN constraints : \E r \in Route : r.segments = h[1] /\ constraints[h] = r.constraints
    /\ \A k \in DOMAIN routes :
          ~IsStatic(k[1].segments) /\ routes[k].constraints # {} => Key(k) \in DOMAIN constraints

TablesInv == MapInv /\ DirectInv /\ TreeInv /\ HandlersInv

-----------------------------------------------------------------------------
(* Paths and their beginnings.                                             *)

\* The first i segments of a path.
LEMMA Beginning ==
  ASSUME NEW S, NEW s \in Seq(S), NEW i \in 0..Len(s)
  PROVE  /\ Upto(s, i) \in Seq(S) /\ Len(Upto(s, i)) = i /\ DOMAIN Upto(s, i) = 1..i
         /\ \A j \in 1..i : Upto(s, i)[j] = s[j]
         /\ \A j \in 0..i : Upto(Upto(s, i), j) = Upto(s, j)
         /\ i = 0 => Upto(s, i) = <<>>
         /\ i = Len(s) => Upto(s, i) = s
<1>1. ASSUME NEW t \in Seq(S), NEW j \in 0..Len(t)
      PROVE  /\ SubSeq(t, 1, j) \in Seq(S) /\ Len(SubSeq(t, 1, j)) = j
             /\ DOMAIN SubSeq(t, 1, j) = 1..j /\ \A k \in 1..j : SubSeq(t, 1, j)[k] = t[k]
  <2>1. Len(t) \in Nat /\ j \in Int /\ \A k \in 1..j : k \in 1..Len(t)
    BY LenProperties
  <2>2. \A k \in 1..j : t[k] \in S
    BY <2>1, ElementOfSeq
  <2>3. /\ SubSeq(t, 1, j) \in Seq(S)
        /\ Len(SubSeq(t, 1, j)) = IF 1 <= j THEN j - 1 + 1 ELSE 0
        /\ \A k \in 1..(j - 1 + 1) : SubSeq(t, 1, j)[k] = t[1 + k - 1]
    BY <2>1, <2>2, SubSeqProperties
  <2>4. Len(SubSeq(t, 1, j)) = j /\ \A k \in 1..j : SubSeq(t, 1, j)[k] = t[k]
    BY <2>1, <2>3
  <2> QED
    BY <2>3, <2>4, LenProperties
<1>2. Upto(s, i) \in Seq(S) /\ Len(Upto(s, i)) = i /\ DOMAIN Upto(s, i) = 1..i /\ \A j \in 1..i : Upto(s, i)[j] = s[j]
  BY <1>1 DEF Upto
<1>3. ASSUME NEW j \in 0..i
      PROVE  Upto(Upto(s, i), j) = Upto(s, j)
  <2>1. j \in 0..Len(s) /\ j \in 0..Len(Upto(s, i)) /\ \A k \in 1..j : k \in 1..i
    BY <1>2, LenProperties
  <2>2. /\ Upto(s, j) \in Seq(S) /\ Len(Upto(s, j)) = j /\ \A k \in 1..j : Upto(s, j)[k] = s[k]
        /\ Upto(Upto(s, i), j) \in Seq(S) /\ Len(Upto(Upto(s, i), j)) = j
        /\ \A k \in 1..j : Upto(Upto(s, i), j)[k] = Upto(s, i)[k]
    BY <1>1, <1>2, <2>1 DEF Upto
  <2>3. \A k \in 1..j : Upto(Upto(s, i), j)[k] = Upto(s, j)[k]
    BY <1>2, <2>1, <2>2
  <2> QED
    BY <2>2, <2>3, SeqEqual
<1>4. i = 0 => Upto(s, i) = <<>>
  BY <1>2, EmptySeq
<1>5. i = Len(s) => Upto(s, i) = s
  BY <1>2, SeqEqual
<1> QED
  BY <1>2, <1>3, <1>4, <1>5

\* A path is its front and its last segment.
LEMMA FrontAndLast ==
  ASSUME NEW S, NEW s \in Seq(S), s # <<>>
  PROVE  /\ Len(s) \in Nat \ {0} /\ Front(s) = Upto(s, Len(s) - 1) /\ Last(s) = s[Len(s)] /\ Last(s) \in S
         /\ Front(s) \in Seq(S) /\ Len(Front(s)) = Len(s) - 1
         /\ \A i \in 0..(Len(s) - 1) : Upto(Front(s), i) = Upto(s, i)
         /\ \A i \in 1..(Len(s) - 1) : Front(s)[i] = s[i]
<1>1. Len(s) \in Nat \ {0} /\ Len(s) - 1 \in 0..Len(s) /\ Len(s) \in 1..Len(s)
  BY EmptySeq
<1>2. Front(s) = Upto(s, Len(s) - 1) /\ Last(s) = s[Len(s)]
  BY DEF Front, Last, Upto
<1> QED
  BY <1>1, <1>2, Beginning, ElementOfSeq

\* The front and the last segment of a beginning.
LEMMA FrontOfBeginning ==
  ASSUME NEW S, NEW s \in Seq(S), NEW i \in 1..Len(s)
  PROVE  Upto(s, i) # <<>> /\ Front(Upto(s, i)) = Upto(s, i - 1) /\ Last(Upto(s, i)) = s[i]
<1>1. i \in 0..Len(s) /\ i - 1 \in 0..i /\ i \in 1..i
  BY LenProperties
<1>2. Upto(s, i) \in Seq(S) /\ Len(Upto(s, i)) = i /\ Upto(s, i)[i] = s[i] /\ Upto(Upto(s, i), i - 1) = Upto(s, i - 1)
  BY <1>1, Beginning
<1>3. Upto(s, i) # <<>>
  BY <1>1, <1>2, EmptySeq
<1> QED
  BY <1>2, <1>3, FrontAndLast

\* A path with a segment more.
LEMMA OneMore ==
  ASSUME NEW S, NEW s \in Seq(S), NEW x \in S
  PROVE  LET n == Append(s, x) IN
         /\ n \in Seq(S) /\ n # <<>> /\ Len(n) = Len(s) + 1 /\ Front(n) = s /\ Last(n) = x
         /\ \A i \in 1..Len(s) : n[i] = s[i]
         /\ \A i \in 0..Len(s) : Upto(n, i) = Upto(s, i)
<1> DEFINE n == Append(s, x)
<1>1. /\ n \in Seq(S) /\ n # <<>> /\ Len(n) = Len(s) + 1
      /\ \A i \in 1..Len(s) : n[i] = s[i] /\ n[Len(s) + 1] = x
  BY AppendProperties
<1>2. Len(s) \in Nat /\ n[Len(s) + 1] = x
  BY LenProperties, AppendProperties
<1> HIDE DEF n
<1>3. /\ Front(n) \in Seq(S) /\ Len(Front(n)) = Len(s) /\ Last(n) = x
      /\ \A i \in 1..Len(s) : Front(n)[i] = n[i]
      /\ \A i \in 0..Len(s) : Upto(Front(n), i) = Upto(n, i)
  BY <1>1, <1>2, FrontAndLast
<1>4. Front(n) = s
  BY <1>1, <1>3, SeqEqual
<1> QED
  BY <1>1, <1>3, <1>4 DEF n

\* Two paths with one front and one last segment.
LEMMA SamePath ==
  ASSUME NEW S, NEW m \in Seq(S), NEW n \in Seq(S), m # <<>>, n # <<>>, Front(m) = Front(n), Last(m) = Last(n)
  PROVE  m = n
<1>1. /\ Len(m) \in Nat \ {0} /\ Len(n) \in Nat \ {0} /\ Len(m) = Len(n)
      /\ m[Len(m)] = n[Len(n)]
      /\ \A i \in 1..(Len(m) - 1) : m[i] = Front(m)[i]
      /\ \A i \in 1..(Len(n) - 1) : n[i] = Front(n)[i]
  BY FrontAndLast
<1>2. \A i \in 1..Len(m) : i = Len(m) \/ i \in 1..(Len(m) - 1)
  BY <1>1
<1>3. \A i \in 1..Len(m) : m[i] = n[i]
  BY <1>1, <1>2
<1> QED
  BY <1>1, <1>3, SeqEqual

-----------------------------------------------------------------------------
(* Adding a route.                                                         *)

\* The segments of a route are a sequence of segments.
LEMMA RoutesAre ==
  ASSUME NEW r \in Route
  PROVE  /\ r.segments \in Seq(Segment) /\ DOMAIN r.segments = 1..Len(r.segments) /\ Len(r.segments) \in Nat
         /\ \A i \in DOMAIN r.segments : r.segments[i] \in Segment
         /\ Path(r).segments = r.segments
  BY RouteAssumption, LenProperties, ElementOfSeq DEF Path

\* The tables begin empty.
LEMMA TablesInit == Init => TablesInv
<1> SUFFICES ASSUME Init PROVE TablesInv
  OBVIOUS
<1>1. DOMAIN routes = {} /\ DOMAIN direct = {} /\ DOMAIN handlers = {} /\ DOMAIN constraints = {}
  BY DEF Init
<1>2. MapInv /\ DirectInv /\ HandlersInv
  BY <1>1 DEF Init, MapInv, DirectInv, HandlersInv
<1>3. <<>> \in Seq(Segment) /\ Len(<<>>) = 0
  BY EmptySeq
<1>4. Upto(<<>>, 0) = <<>> /\ \A i \in 0..0 : i = 0
  <2>1. ASSUME NEW s \in Seq(Segment), s = <<>>
        PROVE  Upto(s, 0) = <<>>
    <3>1. 0 \in 0..Len(s)
      BY LenProperties
    <3> QED
      BY <3>1, Beginning
  <2>2. Upto(<<>>, 0) = <<>>
    BY <1>3, <2>1
  <2> QED
    BY <2>2
<1>5. TreeInv
  BY <1>3, <1>4 DEF Init, TreeInv
<1> QED
  BY <1>2, <1>5 DEF TablesInv

\* The map takes a route with the number of the call.
LEMMA MapGrows ==
  ASSUME MapInv, NEW method \in Method, NEW r \in Route, added' = added + 1, rejected' = rejected,
         routes' = With(routes, <<Path(r), method>>, [handle |-> added', constraints |-> r.constraints])
  PROVE  /\ MapInv' /\ Given \subseteq Given' /\ r.segments \in Given'
         /\ DOMAIN routes' = DOMAIN routes \cup {<<Path(r), method>>}
         /\ routes'[<<Path(r), method>>].handle = added' /\ routes'[<<Path(r), method>>].constraints = r.constraints
         /\ \A k \in DOMAIN routes : k # <<Path(r), method>> => routes'[k] = routes[k]
         /\ \A k \in DOMAIN routes : routes[k].handle < added'
<1> DEFINE new == <<Path(r), method>>
<1>1. /\ DOMAIN routes' = DOMAIN routes \cup {new}
      /\ routes'[new].handle = added' /\ routes'[new].constraints = r.constraints
      /\ \A k \in DOMAIN routes : k # new => routes'[k] = routes[k]
  BY DEF With
<1>2. added \in Nat /\ added' \in Nat /\ \A k \in DOMAIN routes : routes[k].handle \in 1..added
  BY DEF MapInv
<1>3. \A k \in DOMAIN routes : routes[k].handle < added' /\ routes[k].handle \in 1..added'
  BY <1>2
<1>4. \A k \in DOMAIN routes' : routes'[k].handle \in 1..added'
  BY <1>1, <1>2, <1>3
<1>5. \A k, l \in DOMAIN routes' : routes'[k].handle = routes'[l].handle => k = l
  <2> SUFFICES ASSUME NEW k \in DOMAIN routes', NEW l \in DOMAIN routes', routes'[k].handle = routes'[l].handle
               PROVE  k = l
    OBVIOUS
  <2>1. CASE k # new /\ l # new
    <3>1. k \in DOMAIN routes /\ l \in DOMAIN routes /\ routes[k].handle = routes[l].handle
      BY <1>1, <2>1
    <3> QED
      BY <3>1 DEF MapInv
  <2>2. CASE k = new /\ l # new
    BY <1>1, <1>2, <1>3, <2>2
  <2>3. CASE k # new /\ l = new
    BY <1>1, <1>2, <1>3, <2>3
  <2> QED
    BY <2>1, <2>2, <2>3
<1>6. \A k \in DOMAIN routes' : \E q \in Route, m \in Method :
         k = <<Path(q), m>> /\ routes'[k].constraints = q.constraints
  <2> SUFFICES ASSUME NEW k \in DOMAIN routes'
               PROVE  \E q \in Route, m \in Method : k = <<Path(q), m>> /\ routes'[k].constraints = q.constraints
    OBVIOUS
  <2>1. CASE k = new
    BY <1>1, <2>1
  <2>2. CASE k # new
    BY <1>1, <2>2 DEF MapInv
  <2> QED
    BY <2>1, <2>2
<1>7. MapInv'
  BY <1>2, <1>4, <1>5, <1>6 DEF MapInv
<1>8. Given \subseteq Given'
  BY <1>1 DEF Given
<1>9. new[1].segments = r.segments
  BY RoutesAre
<1>10. r.segments \in Given'
  BY <1>1, <1>9 DEF Given
<1> QED
  BY <1>1, <1>3, <1>7, <1>8, <1>10

\* The tree takes the beginnings of a path up to a place before which there is no conflict.
LEMMA TreeGrows ==
  ASSUME TreeInv, NEW segments \in Seq(Segment), NEW J \in SUBSET DOMAIN segments,
         \A j \in J : \A i \in 1..j : i \in J, \A i \in J : ~Conflict(segments, i),
         nodes' = nodes \cup {Upto(segments, i) : i \in J},
         Given \subseteq Given', segments \in Given'
  PROVE  TreeInv'
<1> DEFINE made == {Upto(segments, i) : i \in J}
<1>0. /\ DOMAIN segments = 1..Len(segments) /\ Len(segments) \in Nat
      /\ \A i \in J : i \in 1..Len(segments) /\ i \in 0..Len(segments) /\ i \in Nat
  BY LenProperties
<1>1. \A i \in J : /\ Upto(segments, i) \in Seq(Segment) /\ Len(Upto(segments, i)) = i
                   /\ \A j \in 1..i : Upto(segments, i)[j] = segments[j]
                   /\ \A j \in 0..i : Upto(Upto(segments, i), j) = Upto(segments, j)
                   /\ DOMAIN Upto(segments, i) = 1..i
  BY <1>0, Beginning
<1>2. \A i \in J : /\ Upto(segments, i) # <<>> /\ Front(Upto(segments, i)) = Upto(segments, i - 1)
                   /\ Last(Upto(segments, i)) = segments[i]
  BY <1>0, FrontOfBeginning
<1>3. <<>> \in nodes' /\ nodes' \subseteq Seq(Segment)
  BY <1>1 DEF TreeInv
<1>4. \A n \in nodes' : \A i \in 0..Len(n) : Upto(n, i) \in nodes'
  <2> SUFFICES ASSUME NEW n \in nodes', NEW i \in 0..Len(n) PROVE Upto(n, i) \in nodes'
    OBVIOUS
  <2>1. CASE n \in nodes
    BY <2>1 DEF TreeInv
  <2>2. CASE n \notin nodes
    <3>1. PICK j \in J : n = Upto(segments, j)
      BY <2>2
    <3>2. Len(n) = j /\ j \in Nat /\ Upto(n, i) = Upto(segments, i)
      BY <1>0, <1>1, <3>1
    <3>3. CASE i = 0
      <4>1. Upto(n, i) = <<>>
        BY <1>0, <3>2, <3>3, Beginning
      <4> QED
        BY <4>1, <1>3
    <3>4. CASE i # 0
      <4>1. i \in 1..j
        BY <3>2, <3>4
      <4> QED
        BY <3>2, <4>1
    <3> QED
      BY <3>3, <3>4
  <2> QED
    BY <2>1, <2>2
<1>5. \A n \in nodes' : n # <<>> => \E s \in Given' : Len(n) <= Len(s) /\ Upto(s, Len(n)) = n
  <2> SUFFICES ASSUME NEW n \in nodes', n # <<>> PROVE \E s \in Given' : Len(n) <= Len(s) /\ Upto(s, Len(n)) = n
    OBVIOUS
  <2>1. CASE n \in nodes
    BY <2>1 DEF TreeInv
  <2>2. CASE n \notin nodes
    <3>1. PICK j \in J : n = Upto(segments, j)
      BY <2>2
    <3> QED
      BY <1>0, <1>1, <3>1
  <2> QED
    BY <2>1, <2>2
<1>6. ASSUME NEW m \in nodes, NEW j \in J, m # <<>>, Front(m) = Upto(segments, j - 1),
             Last(m).kind = segments[j].kind, Last(m).kind # "static"
      PROVE  m = Upto(segments, j)
  <2>1. m \in Seq(Segment) /\ segments[j] \in Segment
    BY <1>0, ElementOfSeq DEF TreeInv
  <2>2. Last(m) \in Segment /\ Len(m) \in Nat /\ Len(Front(m)) = Len(m) - 1
    BY <1>6, <2>1, FrontAndLast
  <2>3. j - 1 \in 0..Len(segments)
    BY <1>0
  <2>4. Len(m) = j
    BY <1>0, <1>6, <2>2, <2>3, Beginning
  <2>5. Last(m).text = segments[j].text
    BY <1>6, <2>4 DEF Conflict
  <2>6. Last(m) = segments[j]
    BY <1>6, <2>1, <2>2, <2>5 DEF Segment
  <2> QED
    BY <1>1, <1>2, <1>6, <2>1, <2>6, SamePath
<1>7. \A m, n \in nodes' :
         m # <<>> /\ n # <<>> /\ Front(m) = Front(n) /\ Last(m).kind = Last(n).kind /\ Last(m).kind # "static" => m = n
  <2> SUFFICES ASSUME NEW m \in nodes', NEW n \in nodes', m # <<>>, n # <<>>, Front(m) = Front(n),
                      Last(m).kind = Last(n).kind, Last(m).kind # "static"
               PROVE  m = n
    OBVIOUS
  <2>1. CASE m \in nodes /\ n \in nodes
    BY <2>1 DEF TreeInv
  <2>2. CASE m \in nodes /\ n \notin nodes
    <3>1. PICK j \in J : n = Upto(segments, j)
      BY <2>2
    <3> QED
      BY <1>2, <1>6, <2>2, <3>1
  <2>3. CASE m \notin nodes /\ n \in nodes
    <3>1. PICK j \in J : m = Upto(segments, j)
      BY <2>3
    <3> QED
      BY <1>2, <1>6, <2>3, <3>1
  <2>4. CASE m \notin nodes /\ n \notin nodes
    <3>1. PICK j \in J : m = Upto(segments, j)
      BY <2>4
    <3>2. PICK i \in J : n = Upto(segments, i)
      BY <2>4
    <3>3. Upto(segments, j - 1) = Upto(segments, i - 1)
      BY <1>2, <3>1, <3>2
    <3>4. j - 1 \in 0..Len(segments) /\ i - 1 \in 0..Len(segments)
      BY <1>0
    <3>5. j - 1 = i - 1
      BY <3>3, <3>4, Beginning
    <3> QED
      BY <1>0, <3>1, <3>2, <3>5
  <2> QED
    BY <2>1, <2>2, <2>3, <2>4
<1>8. \A n \in nodes' : \A i \in DOMAIN n : n[i].kind = "wild" => i = Len(n)
  <2> SUFFICES ASSUME NEW n \in nodes', NEW i \in DOMAIN n, n[i].kind = "wild" PROVE i = Len(n)
    OBVIOUS
  <2>1. CASE n \in nodes
    BY <2>1 DEF TreeInv
  <2>2. CASE n \notin nodes
    <3>1. PICK j \in J : n = Upto(segments, j)
      BY <2>2
    <3>2. i \in 1..j /\ segments[i].kind = "wild" /\ Len(n) = j /\ i \in J
      BY <1>1, <3>1
    <3>3. i = Len(segments)
      BY <3>2 DEF Conflict
    <3> QED
      BY <1>0, <3>2, <3>3
  <2> QED
    BY <2>1, <2>2
<1> QED
  BY <1>3, <1>4, <1>5, <1>7, <1>8 DEF TreeInv

\* A static route goes to the map and to the table of static paths.
LEMMA StaticKeeps ==
  ASSUME TablesInv, NEW method \in Method, NEW r \in Route, added' = added + 1, AddStatic(method, r)
  PROVE  TablesInv'
<1> DEFINE new == <<Path(r), method>>
<1>1. /\ MapInv' /\ Given \subseteq Given' /\ DOMAIN routes' = DOMAIN routes \cup {new}
      /\ routes'[new].handle = added' /\ \A k \in DOMAIN routes : k # new => routes'[k] = routes[k]
  BY MapGrows DEF TablesInv, AddStatic
<1>2. new[1].segments = r.segments /\ IsStatic(r.segments) /\ UNCHANGED <<nodes, handlers, constraints>>
  BY RoutesAre DEF AddStatic
<1>3. DirectInv'
  <2>1. DOMAIN direct' = DOMAIN direct \cup {new} /\ direct'[new] = added' /\ \A k \in DOMAIN direct : k # new => direct'[k] = direct[k]
    BY DEF AddStatic, With
  <2>2. DOMAIN direct' = {k \in DOMAIN routes' : IsStatic(k[1].segments)}
    BY <1>1, <1>2, <2>1 DEF TablesInv, DirectInv
  <2>3. \A k \in DOMAIN direct : k \in DOMAIN routes /\ direct[k] = routes[k].handle
    BY DEF TablesInv, DirectInv
  <2>4. \A k \in DOMAIN direct' : direct'[k] = routes'[k].handle
    BY <1>1, <2>1, <2>3
  <2> QED
    BY <2>2, <2>4 DEF DirectInv
<1>4. TreeInv'
  BY <1>1, <1>2 DEF TablesInv, TreeInv
<1>5. HandlersInv'
  <2>1. \A k \in DOMAIN routes' : ~IsStatic(k[1].segments) => k \in DOMAIN routes /\ routes'[k] = routes[k]
    BY <1>1, <1>2
  <2>2. \A k \in DOMAIN routes : ~IsStatic(k[1].segments) => k \in DOMAIN routes' /\ routes'[k] = routes[k]
    BY <1>1, <1>2
  <2>3. /\ \A k \in DOMAIN routes' : ~IsStatic(k[1].segments) =>
              k[1].segments \in nodes' /\ Key(k) \in DOMAIN handlers' /\ routes'[k].handle <= handlers'[Key(k)]
        /\ \A k \in DOMAIN routes' :
              ~IsStatic(k[1].segments) /\ routes'[k].constraints # {} => Key(k) \in DOMAIN constraints'
    BY <1>2, <2>1 DEF TablesInv, HandlersInv
  <2>4. \A h \in DOMAIN handlers' : \E k \in DOMAIN routes' :
           ~IsStatic(k[1].segments) /\ h = Key(k) /\ routes'[k].handle = handlers'[h]
    BY <1>2, <2>2 DEF TablesInv, HandlersInv
  <2> QED
    BY <1>2, <2>3, <2>4 DEF TablesInv, HandlersInv, Key
<1> QED
  BY <1>1, <1>3, <1>4, <1>5 DEF TablesInv

\* Another route goes to the map and to the tree.
LEMMA TreeKeeps ==
  ASSUME TablesInv, NEW method \in Method, NEW r \in Route, added' = added + 1, AddToTree(method, r)
  PROVE  TablesInv'
<1> DEFINE new == <<Path(r), method>>
           key == <<r.segments, method>>
<1>1. /\ MapInv' /\ Given \subseteq Given' /\ r.segments \in Given' /\ DOMAIN routes' = DOMAIN routes \cup {new}
      /\ routes'[new].handle = added' /\ routes'[new].constraints = r.constraints
      /\ \A k \in DOMAIN routes : k # new => routes'[k] = routes[k]
      /\ \A k \in DOMAIN routes : routes[k].handle < added'
  BY MapGrows DEF TablesInv, AddToTree
<1>2. new[1].segments = r.segments /\ Key(new) = key /\ ~IsStatic(r.segments) /\ direct' = direct
  BY RoutesAre DEF AddToTree, Key
<1>3. DirectInv'
  <2>1. \A k \in DOMAIN direct : k \in DOMAIN routes /\ k # new /\ direct[k] = routes[k].handle
    BY <1>2 DEF TablesInv, DirectInv
  <2>2. DOMAIN direct' = {k \in DOMAIN routes' : IsStatic(k[1].segments)}
    BY <1>1, <1>2 DEF TablesInv, DirectInv
  <2> QED
    BY <1>1, <1>2, <2>1, <2>2 DEF DirectInv
<1>4. TreeInv'
  <2>1. nodes' = nodes \cup {Upto(r.segments, i) : i \in DOMAIN r.segments} /\ \A i \in DOMAIN r.segments : ~Conflict(r.segments, i)
    BY DEF AddToTree, Conflicts
  <2>2. \A j \in DOMAIN r.segments : \A i \in 1..j : i \in DOMAIN r.segments
    BY RoutesAre
  <2> QED
    BY <1>1, <2>1, <2>2, RoutesAre, TreeGrows DEF TablesInv
<1>5. r.segments \in nodes'
  <2>1. Len(r.segments) \in DOMAIN r.segments
    BY <1>2, RoutesAre DEF IsStatic
  <2>2. Upto(r.segments, Len(r.segments)) = r.segments
    BY RoutesAre, Beginning
  <2> QED
    BY <2>1, <2>2 DEF AddToTree
<1>6. nodes \subseteq nodes'
  BY DEF AddToTree
<1>7. /\ DOMAIN handlers' = DOMAIN handlers \cup {key} /\ handlers'[key] = added'
      /\ \A h \in DOMAIN handlers : h # key => handlers'[h] = handlers[h]
  BY DEF AddToTree, With
<1>8. /\ DOMAIN constraints \subseteq DOMAIN constraints'
      /\ \A h \in DOMAIN constraints' : h = key /\ h \notin DOMAIN constraints => r.constraints # {}
      /\ r.constraints # {} => key \in DOMAIN constraints' /\ constraints'[key] = r.constraints
      /\ \A h \in DOMAIN constraints' : h # key \/ r.constraints = {} => h \in DOMAIN constraints /\ constraints'[h] = constraints[h]
  BY DEF AddToTree, With
<1>9. \A k \in DOMAIN routes : ~IsStatic(k[1].segments) => Key(k) \in DOMAIN handlers /\ routes[k].handle <= handlers[Key(k)]
  BY DEF TablesInv, HandlersInv
<1>10. HandlersInv'
  <2>1. ASSUME NEW k \in DOMAIN routes', ~IsStatic(k[1].segments)
        PROVE  /\ k[1].segments \in nodes' /\ Key(k) \in DOMAIN handlers' /\ routes'[k].handle <= handlers'[Key(k)]
               /\ routes'[k].constraints # {} => Key(k) \in DOMAIN constraints'
    <3>0. added' \in Nat
      BY <1>1 DEF MapInv
    <3>1. CASE k = new
      BY <1>1, <1>2, <1>5, <1>7, <1>8, <3>0, <3>1
    <3>2. CASE k # new
      <4>1. k \in DOMAIN routes /\ routes'[k] = routes[k] /\ routes[k].handle < added' /\ routes[k].handle \in 1..added
        BY <1>1, <3>2 DEF TablesInv, MapInv
      <4>2. k[1].segments \in nodes' /\ Key(k) \in DOMAIN handlers'
        BY <1>6, <1>7, <2>1, <4>1 DEF TablesInv, HandlersInv
      <4>3. routes'[k].handle <= handlers'[Key(k)]
        <5>1. CASE Key(k) = key
          BY <1>7, <3>0, <4>1, <5>1
        <5>2. CASE Key(k) # key
          BY <1>7, <1>9, <2>1, <4>1, <5>2
        <5> QED
          BY <5>1, <5>2
      <4>4. routes'[k].constraints # {} => Key(k) \in DOMAIN constraints'
        BY <1>8, <2>1, <4>1 DEF TablesInv, HandlersInv
      <4> QED
        BY <4>2, <4>3, <4>4
    <3> QED
      BY <3>1, <3>2
  <2>2. ASSUME NEW h \in DOMAIN handlers'
        PROVE  \E k \in DOMAIN routes' : ~IsStatic(k[1].segments) /\ h = Key(k) /\ routes'[k].handle = handlers'[h]
    <3>1. CASE h = key
      BY <1>1, <1>2, <1>7, <3>1
    <3>2. CASE h # key
      <4>1. h \in DOMAIN handlers /\ handlers'[h] = handlers[h]
        BY <1>7, <3>2
      <4>2. PICK k \in DOMAIN routes : ~IsStatic(k[1].segments) /\ h = Key(k) /\ routes[k].handle = handlers[h]
        BY <4>1 DEF TablesInv, HandlersInv
      <4>3. k # new
        BY <1>2, <3>2, <4>2
      <4>4. k \in DOMAIN routes' /\ routes'[k] = routes[k]
        BY <1>1, <4>3
      <4> QED
        BY <4>1, <4>2, <4>4
    <3> QED
      BY <3>1, <3>2
  <2>3. ASSUME NEW h \in DOMAIN constraints'
        PROVE  \E q \in Route : q.segments = h[1] /\ constraints'[h] = q.constraints
    <3>1. CASE h = key /\ r.constraints # {}
      BY <1>8, <3>1
    <3>2. CASE ~(h = key /\ r.constraints # {})
      <4>1. h \in DOMAIN constraints /\ constraints'[h] = constraints[h]
        BY <1>8, <3>2
      <4> QED
        BY <4>1 DEF TablesInv, HandlersInv
    <3> QED
      BY <3>1, <3>2
  <2>4. /\ \A k \in DOMAIN routes' : ~IsStatic(k[1].segments) =>
              k[1].segments \in nodes' /\ Key(k) \in DOMAIN handlers' /\ routes'[k].handle <= handlers'[Key(k)]
        /\ \A k \in DOMAIN routes' :
              ~IsStatic(k[1].segments) /\ routes'[k].constraints # {} => Key(k) \in DOMAIN constraints'
    BY <2>1
  <2> QED
    BY <2>2, <2>3, <2>4 DEF HandlersInv, Key
<1> QED
  BY <1>1, <1>3, <1>4, <1>10 DEF TablesInv

\* A rejected route leaves nodes, and nothing else.
LEMMA RejectKeeps ==
  ASSUME TablesInv, NEW method \in Method, NEW r \in Route, added' = added + 1, Reject(method, r)
  PROVE  TablesInv'
<1>1. UNCHANGED <<routes, direct, handlers, constraints>> /\ rejected' = rejected \cup {r.segments}
  BY DEF Reject
<1>2. Given \subseteq Given' /\ r.segments \in Given'
  BY <1>1 DEF Given
<1>3. MapInv'
  <2>1. added \in Nat /\ added' \in Nat /\ \A k \in DOMAIN routes : routes[k].handle \in 1..added'
    BY DEF TablesInv, MapInv
  <2> QED
    BY <1>1, <2>1 DEF TablesInv, MapInv
<1>4. DirectInv'
  BY <1>1 DEF TablesInv, DirectInv
<1>5. TreeInv'
  <2> DEFINE J == {j \in DOMAIN r.segments : \A k \in Conflicts(r.segments) : j < k}
  <2>1. nodes' = nodes \cup {Upto(r.segments, i) : i \in J}
    BY DEF Reject
  <2>2. \A i \in J : ~Conflict(r.segments, i)
    BY RoutesAre DEF Conflicts
  <2>3. \A j \in J : \A i \in 1..j : i \in J
    BY RoutesAre DEF Conflicts
  <2> HIDE DEF J
  <2>4. J \in SUBSET DOMAIN r.segments
    BY DEF J
  <2> QED
    BY <1>2, <2>1, <2>2, <2>3, <2>4, RoutesAre, TreeGrows DEF TablesInv
<1>6. HandlersInv'
  BY <1>1 DEF TablesInv, HandlersInv, Key, Reject
<1> QED
  BY <1>3, <1>4, <1>5, <1>6 DEF TablesInv

\* The tables change when a route is added, and not by a lookup.
LEMMA TablesStep == TablesInv /\ [Next]_vars => TablesInv'
<1> SUFFICES ASSUME TablesInv, [Next]_vars PROVE TablesInv'
  OBVIOUS
<1>1. ASSUME NEW method \in Method, NEW r \in Route, Add(method, r) PROVE TablesInv'
  BY <1>1, StaticKeeps, TreeKeeps, RejectKeeps DEF Add
<1>2. CASE UNCHANGED tables
  BY <1>2 DEF tables, TablesInv, MapInv, DirectInv, TreeInv, HandlersInv, Given, Key, Conflict
<1>3. UNCHANGED vars => UNCHANGED tables
  BY DEF vars
<1> QED
  BY <1>1, <1>2, <1>3 DEF Next, Match, MatchNode, Taken

-----------------------------------------------------------------------------
(* Rejections.                                                             *)

\* What the tables remember are segments of routes.
LEMMA GivenAreRoutes ==
  ASSUME TablesInv, NEW s \in Given
  PROVE  s \in Seq(Segment) /\ \E r \in Route : s = r.segments
<1>1. \E r \in Route : s = r.segments
  <2>1. CASE s \in rejected
    BY <2>1 DEF TablesInv, MapInv
  <2>2. CASE s \notin rejected
    <3>1. PICK k \in DOMAIN routes : s = k[1].segments
      BY <2>2 DEF Given
    <3>2. PICK r \in Route, method \in Method : k = <<Path(r), method>>
      BY DEF TablesInv, MapInv
    <3> QED
      BY <3>1, <3>2, RoutesAre
  <2> QED
    BY <2>1, <2>2
<1> QED
  BY <1>1, RoutesAre

\* A conflict has its reason in the route or in one that was given before.
LEMMA RejectionStep ==
  ASSUME TablesInv, NEW method \in Method, NEW r \in Route, Reject(method, r)
  PROVE  \E i \in DOMAIN r.segments :
            \/ r.segments[i].kind = "wild" /\ i # Len(r.segments)
            \/ \E other \in Given :
                  /\ i <= Len(other) /\ Upto(other, i - 1) = Upto(r.segments, i - 1)
                  /\ other[i].kind = r.segments[i].kind /\ other[i].text # r.segments[i].text
<1>1. PICK i \in DOMAIN r.segments : Conflict(r.segments, i)
  BY DEF Reject, Conflicts
<1>2. CASE r.segments[i].kind = "wild" /\ i # Len(r.segments)
  BY <1>2
<1>3. CASE ~(r.segments[i].kind = "wild" /\ i # Len(r.segments))
  <2>1. PICK n \in nodes : /\ Len(n) = i /\ Front(n) = Upto(r.segments, i - 1)
                          /\ Last(n).kind = r.segments[i].kind /\ Last(n).text # r.segments[i].text
    BY <1>1, <1>3 DEF Conflict
  <2>2. i \in Nat \ {0} /\ n # <<>>
    BY <2>1, RoutesAre, EmptySeq
  <2>3. PICK other \in Given : Len(n) <= Len(other) /\ Upto(other, Len(n)) = n
    BY <2>2 DEF TablesInv, TreeInv
  <2>4. other \in Seq(Segment)
    BY GivenAreRoutes
  <2>5. i \in 1..Len(other)
    BY <2>1, <2>2, <2>3, <2>4, LenProperties
  <2>6. Front(n) = Upto(other, i - 1) /\ Last(n) = other[i]
    BY <2>1, <2>3, <2>4, <2>5, FrontOfBeginning
  <2> QED
    BY <2>1, <2>3, <2>6
<1> QED
  BY <1>2, <1>3

\* RejectedForAReason: a route is rejected for what is wrong with it or for one
\* that was given before (add_route).
THEOREM RejectionHasAReason == Spec => RejectedForAReason
<1> DEFINE P == \A method \in Method, r \in Route :
         added' > added /\ Reject(method, r) =>
            \E i \in DOMAIN r.segments :
                \/ r.segments[i].kind = "wild" /\ i # Len(r.segments)
                \/ \E other \in {s[1].segments : s \in DOMAIN routes} \cup rejected :
                      /\ i <= Len(other) /\ Upto(other, i - 1) = Upto(r.segments, i - 1)
                      /\ other[i].kind = r.segments[i].kind /\ other[i].text # r.segments[i].text
<1>1. TablesInv => P
  BY RejectionStep DEF Given
<1> HIDE DEF P
<1>2. TablesInv /\ [Next]_vars => [P]_vars
  BY <1>1
<1>3. Spec => [][P]_vars
  BY <1>2, TablesInit, TablesStep, PTL DEF Spec
<1> QED
  BY <1>3 DEF RejectedForAReason, P

-----------------------------------------------------------------------------
(* A lookup.                                                               *)

\* c parts from n where n has the segment that is tried first.
Later(c, n) ==
    \E i \in DOMAIN n : i <= Len(c) /\ Upto(c, i - 1) = Upto(n, i - 1) /\ Rank[c[i].kind] > Rank[n[i].kind]

\* c goes by the node, in a way that is still to be tried.
Ahead(c) ==
    /\ Len(c) >= Len(node) /\ Upto(c, Len(node)) = node
    /\ Len(c) > Len(node) => Rank[c[Len(node) + 1].kind] >= Rank[at]

\* The node fits the first texts.
Walked ==
    /\ node \in nodes /\ Len(node) <= Len(Texts) /\ (at # "static" => Len(node) < Len(Texts))
    /\ \A i \in DOMAIN node :
          \/ node[i].kind = "static" /\ Texts[i] = node[i].text
          \/ node[i].kind = "param" /\ Texts[i] # Refused

OnTheWay == Walked /\ params = Captures(node, Texts)

Asked == asked \in [method : Method, target : Target]
Missed == <<AsRoute(asked.target), asked.method>> \notin DOMAIN direct
NonePassed == \A k \in Candidates(asked.method, asked.target) : Later(k[1].segments, node) \/ Ahead(k[1].segments)

LookupInv ==
    /\ at \in Kind => Asked /\ Missed /\ OnTheWay /\ NonePassed
    /\ at \notin Kind => at \in {"idle", "returned"} /\ node = <<>> /\ params = <<>>
    /\ at = "returned" => Asked /\ MatchIsBest

-----------------------------------------------------------------------------
(* The way of a lookup.                                                    *)

\* The tables and the arguments stay.
LEMMA Stay ==
  ASSUME UNCHANGED <<tables, asked>>
  PROVE  Texts' = Texts /\ Asked' = Asked /\ Missed' = Missed /\ nodes' = nodes
  BY DEF tables, Texts, Asked, Missed

\* The texts of a target are a sequence of strings.
LEMMA TextsAre ==
  ASSUME Asked
  PROVE  Texts \in Seq(STRING) /\ Len(Texts) \in Nat
  BY TargetAssumption, LenProperties DEF Asked, Texts

\* A child of the node is the node with a segment more.
LEMMA ChildIs ==
  ASSUME TablesInv, node \in nodes, NEW kind, NEW n \in Children(kind)
  PROVE  /\ node \in Seq(Segment) /\ Len(node) \in Nat
         /\ n \in nodes /\ n \in Seq(Segment) /\ n # <<>> /\ Len(n) = Len(node) + 1 /\ DOMAIN n = 1..(Len(node) + 1)
         /\ Last(n) \in Segment /\ Last(n).kind = kind /\ Last(n) = n[Len(node) + 1] /\ n = Append(node, Last(n))
         /\ \A i \in 1..Len(node) : n[i] = node[i]
<1>1. /\ node \in Seq(Segment) /\ Len(node) \in Nat
      /\ n \in Seq(Segment) /\ n \in nodes /\ Len(n) = Len(node) + 1 /\ Front(n) = node /\ Last(n).kind = kind
      /\ DOMAIN n = 1..(Len(node) + 1)
  BY LenProperties DEF TablesInv, TreeInv, Children
<1>2. n # <<>>
  BY <1>1, EmptySeq
<1>3. Last(n) \in Segment /\ Last(n) = n[Len(node) + 1]
  BY <1>1, <1>2, FrontAndLast
<1>4. /\ Append(node, Last(n)) \in Seq(Segment) /\ Append(node, Last(n)) # <<>>
      /\ Front(Append(node, Last(n))) = node /\ Last(Append(node, Last(n))) = Last(n)
      /\ \A i \in 1..Len(node) : Append(node, Last(n))[i] = node[i]
  BY <1>1, <1>3, OneMore
<1>5. n = Append(node, Last(n))
  BY <1>1, <1>2, <1>4, SamePath
<1> QED
  BY <1>1, <1>2, <1>3, <1>4, <1>5

\* A child that fits the next text is a step further.
LEMMA DescendWalks ==
  ASSUME TablesInv, Asked, Walked, UNCHANGED <<tables, asked>>,
         NEW n \in Children(at), Len(node) < Len(Texts),
         \/ at = "static" /\ Last(n).text = Text
         \/ at = "param" /\ Text # Refused,
         node' = n, at' = "static"
  PROVE  Walked'
<1>1. /\ Len(node) \in Nat /\ n \in nodes /\ Len(n) = Len(node) + 1 /\ DOMAIN n = 1..(Len(node) + 1)
      /\ Last(n).kind = at /\ Last(n) = n[Len(node) + 1] /\ \A i \in 1..Len(node) : n[i] = node[i]
  BY ChildIs DEF Walked
<1>2. DOMAIN node = 1..Len(node)
  BY ChildIs, LenProperties DEF Walked
<1>3. \A i \in 1..Len(node) : \/ n[i].kind = "static" /\ Texts[i] = n[i].text
                              \/ n[i].kind = "param" /\ Texts[i] # Refused
  BY <1>1, <1>2 DEF Walked
<1>4. \/ n[Len(node) + 1].kind = "static" /\ Texts[Len(node) + 1] = n[Len(node) + 1].text
      \/ n[Len(node) + 1].kind = "param" /\ Texts[Len(node) + 1] # Refused
  BY <1>1 DEF Text
<1>5. \A i \in DOMAIN n : i = Len(node) + 1 \/ i \in 1..Len(node)
  BY <1>1
<1>6. \A i \in DOMAIN n : \/ n[i].kind = "static" /\ Texts[i] = n[i].text
                          \/ n[i].kind = "param" /\ Texts[i] # Refused
  BY <1>3, <1>4, <1>5
<1>7. Len(n) <= Len(Texts)
  BY <1>1, TextsAre
<1> QED
  BY <1>1, <1>6, <1>7, Stay DEF Walked

\* The caller is a step nearer to the root.
LEMMA BackWalks ==
  ASSUME TablesInv, Asked, Walked, UNCHANGED <<tables, asked>>, node # <<>>, node' = Front(node)
  PROVE  Walked'
<1> DEFINE up == Front(node)
<1>1. /\ node \in Seq(Segment) /\ DOMAIN node = 1..Len(node)
  BY LenProperties DEF Walked, TablesInv, TreeInv
<1>2. /\ Len(node) \in Nat \ {0} /\ up \in Seq(Segment) /\ Len(up) = Len(node) - 1 /\ up = Upto(node, Len(node) - 1)
      /\ \A i \in 1..(Len(node) - 1) : up[i] = node[i]
  BY <1>1, FrontAndLast
<1>3. DOMAIN up = 1..(Len(node) - 1) /\ Len(node) - 1 \in 0..Len(node)
  BY <1>2, LenProperties
<1>4. up \in nodes
  BY <1>2, <1>3 DEF Walked, TablesInv, TreeInv
<1>5. Len(up) < Len(Texts) /\ Len(up) <= Len(Texts)
  BY <1>2, TextsAre DEF Walked
<1>6. \A i \in DOMAIN up : i \in DOMAIN node /\ up[i] = node[i]
  BY <1>1, <1>2, <1>3
<1>7. \A i \in DOMAIN up : \/ up[i].kind = "static" /\ Texts[i] = up[i].text
                           \/ up[i].kind = "param" /\ Texts[i] # Refused
  BY <1>6 DEF Walked
<1> QED
  BY <1>4, <1>5, <1>7, Stay DEF Walked

\* At the end of the texts the node fits all of them.
LEMMA NodeFits ==
  ASSUME TablesInv, Asked, Walked, Len(node) = Len(Texts)
  PROVE  Fits(node, Texts)
<1>1. \A i \in DOMAIN node : i <= Len(Texts)
  BY TextsAre, LenProperties DEF Walked, TablesInv, TreeInv
<1> QED
  BY <1>1 DEF Fits, Walked

\* A wildcard takes the rest of the texts.
LEMMA ChildFits ==
  ASSUME TablesInv, Asked, Walked, Len(node) < Len(Texts), ~Contains(Rest, Refused), NEW n \in Children("wild")
  PROVE  Fits(n, Texts)
<1>1. /\ node \in Seq(Segment) /\ Len(node) \in Nat /\ DOMAIN n = 1..(Len(node) + 1)
      /\ Last(n).kind = "wild" /\ Last(n) = n[Len(node) + 1]
      /\ \A i \in 1..Len(node) : n[i] = node[i]
  BY ChildIs DEF Walked
<1>2. \A i \in 1..Len(node) :
         /\ i <= Len(Texts)
         /\ \/ n[i].kind = "static" /\ Texts[i] = n[i].text
            \/ n[i].kind = "param" /\ Texts[i] # Refused
  <2>1. \A i \in 1..Len(node) : i <= Len(Texts)
    BY <1>1, TextsAre
  <2>2. DOMAIN node = 1..Len(node)
    BY <1>1, LenProperties
  <2> QED
    BY <1>1, <2>1, <2>2 DEF Walked
<1>3. Len(node) + 1 <= Len(Texts) /\ ~Contains(SubSeq(Texts, Len(node) + 1, Len(Texts)), Refused)
  BY <1>1, TextsAre DEF Rest
<1>4. \A i \in DOMAIN n : i = Len(node) + 1 \/ i \in 1..Len(node)
  BY <1>1
<1> QED
  BY <1>1, <1>2, <1>3, <1>4 DEF Fits

-----------------------------------------------------------------------------
(* What is captured.                                                       *)

\* No two segments of n have a name.
NamesApart(n) ==
    \A i, j \in DOMAIN n : n[i].kind # "static" /\ n[j].kind # "static" /\ n[i].text = n[j].text => i = j

\* No name is captured twice on the way to a node.
LEMMA NodesApart ==
  ASSUME TablesInv, NamesDiffer, NEW n \in nodes
  PROVE  NamesApart(n)
<1>0. n \in Seq(Segment)
  BY DEF TablesInv, TreeInv
<1>1. CASE n = <<>>
  <2>1. DOMAIN n = {}
    BY <1>0, <1>1, LenProperties, EmptySeq
  <2> QED
    BY <2>1 DEF NamesApart
<1>2. CASE n # <<>>
  <2>1. PICK s \in Given : Len(n) <= Len(s) /\ Upto(s, Len(n)) = n
    BY <1>2 DEF TablesInv, TreeInv
  <2>2. PICK r \in Route : s = r.segments
    BY GivenAreRoutes
  <2>3. Len(n) \in 0..Len(s) /\ DOMAIN n = 1..Len(n) /\ s \in Seq(Segment) /\ DOMAIN s = 1..Len(s)
    BY <1>0, <2>1, <2>2, RoutesAre, LenProperties
  <2>4. \A i \in DOMAIN n : i \in DOMAIN r.segments /\ n[i] = r.segments[i]
    BY <2>1, <2>2, <2>3, Beginning, LenProperties
  <2> QED
    BY <2>4 DEF NamesDiffer, NamesApart
<1> QED
  BY <1>1, <1>2

\* What segment i of n captures.
Value(n, i, texts) == IF n[i].kind = "wild" THEN SubSeq(texts, i, Len(texts)) ELSE <<texts[i]>>

\* The captures are the values of the segments that are not static, by their names.
LEMMA CapturesAre ==
  ASSUME NEW n, NEW texts, NamesApart(n)
  PROVE  /\ DOMAIN Captures(n, texts) = {n[i].text : i \in {j \in DOMAIN n : n[j].kind # "static"}}
         /\ \A i \in DOMAIN n : n[i].kind # "static" => Captures(n, texts)[n[i].text] = Value(n, i, texts)
         /\ Captures(n, texts) = [name \in DOMAIN Captures(n, texts) |-> Captures(n, texts)[name]]
<1> DEFINE Of(name) == CHOOSE i \in DOMAIN n : n[i].kind # "static" /\ n[i].text = name
           names == {n[i].text : i \in {j \in DOMAIN n : n[j].kind # "static"}}
<1>1. Captures(n, texts) = [name \in names |-> Value(n, Of(name), texts)]
  BY DEF Captures, Value
<1>2. ASSUME NEW i \in DOMAIN n, n[i].kind # "static"
      PROVE  n[i].text \in names /\ Of(n[i].text) = i
  BY <1>2 DEF NamesApart
<1> HIDE DEF Of, names
<1>3. \A i \in DOMAIN n : n[i].kind # "static" => Captures(n, texts)[n[i].text] = Value(n, i, texts)
  BY <1>1, <1>2
<1>4. DOMAIN Captures(n, texts) = names /\ Captures(n, texts) = [name \in DOMAIN Captures(n, texts) |-> Captures(n, texts)[name]]
  BY <1>1
<1> QED
  BY <1>3, <1>4 DEF names

\* A segment more captures one value more, or none if it is static.
LEMMA CapturesGrow ==
  ASSUME NEW n \in Seq(Segment), NEW x \in Segment, NEW texts, NamesApart(Append(n, x))
  PROVE  LET m == Append(n, x)
             v == Value(m, Len(n) + 1, texts) IN
         /\ x.kind = "static" => Captures(m, texts) = Captures(n, texts)
         /\ x.kind # "static" => /\ Captures(m, texts) = With(Captures(n, texts), x.text, v)
                                /\ Captures(n, texts) = Forgotten(Captures(m, texts), x.text)
<1> DEFINE m == Append(n, x)
           L == Len(n)
           v == Value(m, L + 1, texts)
           C == Captures(n, texts)
           D == Captures(m, texts)
<1>1. /\ L \in Nat /\ DOMAIN n = 1..L /\ m \in Seq(Segment) /\ DOMAIN m = 1..(L + 1) /\ m[L + 1] = x
      /\ \A i \in 1..L : m[i] = n[i]
  BY AppendProperties, LenProperties
<1>2. NamesApart(n)
  BY <1>1 DEF NamesApart
<1>3. /\ DOMAIN C = {n[i].text : i \in {j \in DOMAIN n : n[j].kind # "static"}}
      /\ \A i \in DOMAIN n : n[i].kind # "static" => C[n[i].text] = Value(n, i, texts)
      /\ C = [name \in DOMAIN C |-> C[name]]
  BY <1>2, CapturesAre
<1>4. /\ DOMAIN D = {m[i].text : i \in {j \in DOMAIN m : m[j].kind # "static"}}
      /\ \A i \in DOMAIN m : m[i].kind # "static" => D[m[i].text] = Value(m, i, texts)
      /\ D = [name \in DOMAIN D |-> D[name]]
  BY CapturesAre
<1> HIDE DEF m, C, D
<1>5. \A i \in 1..L : Value(m, i, texts) = Value(n, i, texts)
  BY <1>1 DEF Value
<1> HIDE DEF v
<1>6. ASSUME NEW name \in DOMAIN C
      PROVE  name \in DOMAIN D /\ D[name] = C[name]
  <2>1. PICK i \in DOMAIN n : n[i].kind # "static" /\ name = n[i].text
    BY <1>3
  <2>2. i \in DOMAIN m /\ m[i] = n[i]
    BY <1>1
  <2> QED
    BY <1>1, <1>3, <1>4, <1>5, <2>1, <2>2
<1>7. ASSUME NEW name \in DOMAIN D
      PROVE  name \in DOMAIN C \/ (x.kind # "static" /\ name = x.text)
  <2>1. PICK i \in DOMAIN m : m[i].kind # "static" /\ name = m[i].text
    BY <1>4
  <2>2. CASE i = L + 1
    BY <1>1, <2>1, <2>2
  <2>3. CASE i # L + 1
    <3>1. i \in DOMAIN n /\ m[i] = n[i]
      BY <1>1, <2>3
    <3> QED
      BY <1>3, <2>1, <3>1
  <2> QED
    BY <2>2, <2>3
<1>8. CASE x.kind = "static"
  <2>1. DOMAIN D = DOMAIN C
    BY <1>6, <1>7, <1>8
  <2>2. D = C
    BY <1>3, <1>4, <1>6, <2>1
  <2> QED
    BY <1>8, <2>2 DEF m, C, D
<1>9. CASE x.kind # "static"
  <2>1. x.text \in DOMAIN D /\ D[x.text] = v
    BY <1>1, <1>4, <1>9 DEF v
  <2>2. x.text \notin DOMAIN C
    <3> SUFFICES ASSUME NEW i \in DOMAIN n, n[i].kind # "static", n[i].text = x.text PROVE FALSE
      BY <1>3
    <3>1. i \in DOMAIN m /\ L + 1 \in DOMAIN m /\ m[i] = n[i] /\ i # L + 1
      BY <1>1
    <3> QED
      BY <1>1, <1>9, <3>1 DEF NamesApart, m
  <2>3. DOMAIN D = DOMAIN C \cup {x.text}
    BY <1>6, <1>7, <2>1
  <2>4. D = With(C, x.text, v)
    <3>1. \A name \in DOMAIN D : D[name] = IF name = x.text THEN v ELSE C[name]
      BY <1>6, <1>7, <2>1
    <3> QED
      BY <1>4, <2>3, <3>1 DEF With
  <2>5. C = Forgotten(D, x.text)
    <3>1. DOMAIN D \ {x.text} = DOMAIN C
      BY <2>2, <2>3
    <3> QED
      BY <1>3, <1>6, <3>1 DEF Forgotten, Without
  <2> QED
    BY <1>9, <2>4, <2>5 DEF m, C, D, v
<1> QED
  BY <1>8, <1>9

\* Nothing is captured at the root.
LEMMA CapturesNothing ==
  ASSUME NEW n, DOMAIN n = {}, NEW texts
  PROVE  NamesApart(n) /\ Captures(n, texts) = <<>>
<1>1. NamesApart(n)
  BY DEF NamesApart
<1>2. /\ DOMAIN Captures(n, texts) = {n[i].text : i \in {j \in DOMAIN n : n[j].kind # "static"}}
      /\ Captures(n, texts) = [name \in DOMAIN Captures(n, texts) |-> Captures(n, texts)[name]]
  BY <1>1, CapturesAre
<1>3. Captures(n, texts) = [name \in {} |-> Captures(n, texts)[name]]
  BY <1>2
<1>4. [name \in {} |-> Captures(n, texts)[name]] = <<>>
  OBVIOUS
<1> QED
  BY <1>1, <1>3, <1>4

-----------------------------------------------------------------------------
(* What there is to find.                                                  *)

\* A candidate leads to a node that fits the texts.
LEMMA CandidateIs ==
  ASSUME TablesInv, Asked, NEW k \in Candidates(asked.method, asked.target)
  PROVE  LET c == k[1].segments IN
         /\ k \in DOMAIN routes /\ Key(k) = <<c, asked.method>>
         /\ c \in nodes /\ c \in Seq(Segment) /\ c # <<>> /\ Len(c) \in Nat \ {0} /\ DOMAIN c = 1..Len(c)
         /\ ~IsStatic(c) /\ Fits(c, Texts) /\ Len(c) <= Len(Texts)
         /\ Key(k) \in DOMAIN handlers /\ routes[k].handle <= handlers[Key(k)]
         /\ Satisfied(routes[k].constraints, Captures(c, Texts))
<1> DEFINE c == k[1].segments
<1>1. /\ k \in DOMAIN routes /\ k[2] = asked.method /\ ~IsStatic(c) /\ Fits(c, Texts)
      /\ Satisfied(routes[k].constraints, Captures(c, Texts))
  BY DEF Candidates, Texts
<1>2. c \in nodes /\ Key(k) \in DOMAIN handlers /\ routes[k].handle <= handlers[Key(k)]
  BY <1>1 DEF TablesInv, HandlersInv
<1>3. c \in Seq(Segment) /\ Len(c) \in Nat /\ DOMAIN c = 1..Len(c)
  BY <1>2, LenProperties DEF TablesInv, TreeInv
<1>4. c # <<>> /\ Len(c) # 0
  <2>1. c = <<>> => DOMAIN c = {}
    OBVIOUS
  <2>2. Len(c) = 0 => DOMAIN c = {}
    BY <1>3
  <2>3. DOMAIN c # {}
    BY <1>1 DEF IsStatic
  <2> QED
    BY <2>1, <2>2, <2>3
<1>5. Len(c) <= Len(Texts)
  <2>1. Len(c) \in DOMAIN c
    BY <1>3, <1>4
  <2> QED
    BY <1>1, <2>1 DEF Fits
<1> QED
  BY <1>1, <1>2, <1>3, <1>4, <1>5 DEF Key

\* Where a candidate goes from a node that it goes by.
LEMMA Parting ==
  ASSUME TablesInv, Asked, OnTheWay, Len(node) < Len(Texts),
         NEW k \in Candidates(asked.method, asked.target), Ahead(k[1].segments)
  PROVE  LET c == k[1].segments
             x == c[Len(node) + 1] IN
         /\ Len(node) + 1 \in 1..Len(c) /\ x \in Segment /\ Rank[x.kind] >= Rank[at]
         /\ Upto(c, Len(node)) = node /\ Upto(c, Len(node) + 1) = Append(node, x)
         /\ Append(node, x) \in nodes /\ Append(node, x) \in Children(x.kind) /\ Last(Append(node, x)) = x
<1> DEFINE c == k[1].segments
           L == Len(node)
           x == c[L + 1]
<1>1. /\ c \in nodes /\ c \in Seq(Segment) /\ Len(c) \in Nat \ {0} /\ DOMAIN c = 1..Len(c)
      /\ ~IsStatic(c) /\ Fits(c, Texts) /\ c # <<>>
  BY CandidateIs
<1>2. node \in Seq(Segment) /\ L \in Nat /\ DOMAIN node = 1..L
  BY LenProperties DEF OnTheWay, Walked, TablesInv, TreeInv
<1>3. Len(c) >= L /\ Upto(c, L) = node /\ (Len(c) > L => Rank[x.kind] >= Rank[at])
  BY DEF Ahead
<1>4. Len(c) # L
  <2> SUFFICES ASSUME Len(c) = L PROVE FALSE
    OBVIOUS
  <2>1. c = node
    <3>1. Len(c) \in 0..Len(c)
      BY <1>1
    <3>2. Upto(c, Len(c)) = c
      BY <1>1, <3>1, Beginning
    <3> QED
      BY <1>3, <3>2
  <2>2. Last(c) = c[Len(c)] /\ Len(c) \in DOMAIN c
    BY <1>1 DEF Last
  <2>3. Last(c).kind # "wild"
    BY <2>1, <2>2 DEF OnTheWay, Walked
  <2>4. Len(c) = Len(Texts)
    BY <1>1, <2>3 DEF Fits
  <2> QED
    BY <2>4
<1>5. L + 1 \in 1..Len(c) /\ Rank[x.kind] >= Rank[at]
  BY <1>1, <1>2, <1>3, <1>4
<1>6. x \in Segment
  BY <1>1, <1>5, ElementOfSeq
<1>7. L + 1 \in 0..Len(c) /\ L + 1 - 1 = L
  BY <1>1, <1>2, <1>5
<1>8. Upto(c, L + 1) \in nodes /\ Upto(c, L + 1) \in Seq(Segment) /\ Len(Upto(c, L + 1)) = L + 1
  BY <1>1, <1>7, Beginning DEF TablesInv, TreeInv
<1>9. Upto(c, L + 1) # <<>> /\ Front(Upto(c, L + 1)) = node /\ Last(Upto(c, L + 1)) = x
  BY <1>1, <1>3, <1>5, <1>7, FrontOfBeginning
<1>10. Append(node, x) \in Seq(Segment) /\ Append(node, x) # <<>> /\ Front(Append(node, x)) = node /\ Last(Append(node, x)) = x
  BY <1>2, <1>6, OneMore
<1>11. Upto(c, L + 1) = Append(node, x)
  BY <1>8, <1>9, <1>10, SamePath
<1>12. Append(node, x) \in nodes /\ Append(node, x) \in Children(x.kind)
  <2>1. Len(Append(node, x)) = Len(node) + 1 /\ Append(node, x) \in nodes
    BY <1>8, <1>11
  <2> QED
    BY <1>10, <2>1 DEF Children
<1> QED
  BY <1>3, <1>5, <1>6, <1>10, <1>11, <1>12

\* Static segments come first, then parameters, then wildcards.
LEMMA Ranks ==
  /\ Rank["static"] = 1 /\ Rank["param"] = 2 /\ Rank["wild"] = 3
  /\ \A x \in Segment : x.kind \in Kind /\ Rank[x.kind] \in 1..3
  BY DEF Rank, Kind, Segment

\* Different kinds have different ranks.
LEMMA RanksDiffer ==
  ASSUME NEW a \in Kind, NEW b \in Kind, a # b, Rank[a] >= Rank[b]
  PROVE  Rank[a] > Rank[b]
  BY Ranks DEF Kind

\* A segment is its kind and its text.
LEMMA SameSegment ==
  ASSUME NEW x \in Segment, NEW y \in Segment, x.kind = y.kind, x.text = y.text
  PROVE  x = y
  BY DEF Segment

\* The segments of a path have ranks.
LEMMA RankOf ==
  ASSUME NEW s \in Seq(Segment)
  PROVE  \A i \in DOMAIN s : s[i] \in Segment /\ s[i].kind \in Kind /\ Rank[s[i].kind] \in 1..3
<1> SUFFICES ASSUME NEW i \in DOMAIN s PROVE s[i] \in Segment
  BY Ranks
<1> QED
  BY LenProperties, ElementOfSeq

\* Of two candidates one at most comes before the other.
LEMMA BeforeOne ==
  ASSUME TablesInv, Asked, NEW k \in Candidates(asked.method, asked.target), NEW l \in Candidates(asked.method, asked.target)
  PROVE  ~(Before(k, l) /\ Before(l, k))
<1> SUFFICES ASSUME Before(k, l), Before(l, k) PROVE FALSE
  OBVIOUS
<1> DEFINE c == k[1].segments
           d == l[1].segments
           Sooner(e, f, i) == /\ \A j \in 1..(i - 1) : e[j].kind = f[j].kind
                              /\ Rank[e[i].kind] < Rank[f[i].kind]
<1>1. /\ k \in DOMAIN routes /\ c \in Seq(Segment) /\ DOMAIN c = 1..Len(c) /\ Len(c) \in Nat
      /\ l \in DOMAIN routes /\ d \in Seq(Segment) /\ DOMAIN d = 1..Len(d) /\ Len(d) \in Nat
  BY CandidateIs
<1>2. routes[k].handle \in Nat /\ routes[l].handle \in Nat
  BY <1>1 DEF TablesInv, MapInv
<1>3. \A i \in DOMAIN c : Rank[c[i].kind] \in 1..3
  BY <1>1, RankOf
<1>4. \A i \in DOMAIN d : Rank[d[i].kind] \in 1..3
  BY <1>1, RankOf
<1>5. /\ (c = d /\ routes[k].handle > routes[l].handle) \/ \E i \in DOMAIN c \cap DOMAIN d : Sooner(c, d, i)
      /\ (d = c /\ routes[l].handle > routes[k].handle) \/ \E i \in DOMAIN d \cap DOMAIN c : Sooner(d, c, i)
  BY DEF Before
<1>6. CASE c = d
  <2>1. ASSUME NEW i \in DOMAIN c \cap DOMAIN d PROVE ~Sooner(c, d, i) /\ ~Sooner(d, c, i)
    BY <1>3, <1>6
  <2> HIDE DEF Sooner
  <2> QED
    BY <1>2, <1>5, <2>1
<1>7. CASE c # d
  <2>1. PICK i \in DOMAIN c \cap DOMAIN d : Sooner(c, d, i)
    BY <1>5, <1>7
  <2>2. PICK j \in DOMAIN c \cap DOMAIN d : Sooner(d, c, j)
    BY <1>5, <1>7
  <2>3. i \in Nat /\ j \in Nat /\ i > 0 /\ j > 0
    BY <1>1
  <2>4. CASE i < j
    <3>1. i \in 1..(j - 1)
      BY <2>3, <2>4
    <3>2. c[i].kind = d[i].kind
      BY <2>2, <3>1
    <3> QED
      BY <1>3, <2>1, <3>2
  <2>5. CASE j < i
    <3>1. j \in 1..(i - 1)
      BY <2>3, <2>5
    <3>2. c[j].kind = d[j].kind
      BY <2>1, <3>1
    <3> QED
      BY <1>3, <2>2, <3>2
  <2>6. CASE i = j
    BY <1>3, <1>4, <2>1, <2>2, <2>6
  <2> QED
    BY <2>3, <2>4, <2>5, <2>6
<1> QED
  BY <1>6, <1>7

\* A path of the map and of the table of static paths is asked for.
LEMMA FixedIs ==
  ASSUME TablesInv, NEW t \in Target, NEW method
  PROVE  LET fixed == <<AsRoute(t), method>> IN
         /\ fixed \in DOMAIN direct <=> fixed \in DOMAIN routes
         /\ fixed \in DOMAIN direct => direct[fixed] = routes[fixed].handle
<1> DEFINE fixed == <<AsRoute(t), method>>
<1>1. AsRoute(t).segments = [i \in DOMAIN t.segments |-> [kind |-> "static", text |-> t.segments[i]]]
  BY TargetAssumption DEF AsRoute
<1>2. IsStatic(AsRoute(t).segments)
  BY <1>1 DEF IsStatic
<1>3. IsStatic(fixed[1].segments)
  BY <1>2
<1> HIDE DEF fixed
<1> QED
  BY <1>3 DEF TablesInv, DirectInv, fixed

\* The best candidate comes before the others.
LEMMA BestIs ==
  ASSUME TablesInv, Asked, Missed, NEW k \in Candidates(asked.method, asked.target),
         \A l \in Candidates(asked.method, asked.target) \ {k} : Before(k, l)
  PROVE  Best(asked.method, asked.target) =
            [handle |-> routes[k].handle, params |-> Captures(k[1].segments, Texts)]
<1> DEFINE C == Candidates(asked.method, asked.target)
           best == CHOOSE r \in C : \A s \in C \ {r} : Before(r, s)
<1>1. <<AsRoute(asked.target), asked.method>> \notin DOMAIN routes
  BY FixedIs DEF Asked, Missed
<1>2. ASSUME NEW l \in C, \A s \in C \ {l} : Before(l, s)
      PROVE  l = k
  BY <1>2, BeforeOne
<1>3. best = k
  <2> HIDE DEF C
  <2> QED
    BY <1>2 DEF C
<1>4. C # {}
  OBVIOUS
<1>5. Best(asked.method, asked.target) = [handle |-> routes[best].handle, params |-> Captures(best[1].segments, asked.target.segments)]
  BY <1>1, <1>4 DEF Best
<1> QED
  BY <1>3, <1>5 DEF Texts

\* Without candidates nothing is found.
LEMMA NoneIsBest ==
  ASSUME TablesInv, Asked, Missed, Candidates(asked.method, asked.target) = {}
  PROVE  Best(asked.method, asked.target) = NotFound(<<>>)
<1>1. <<AsRoute(asked.target), asked.method>> \notin DOMAIN routes
  BY FixedIs DEF Asked, Missed
<1> QED
  BY <1>1 DEF Best

\* A path that parts where it is tried later comes later.
LEMMA LaterIsBefore ==
  ASSUME NEW k, NEW l, k[1].segments \in Seq(Segment), l[1].segments \in Seq(Segment), Later(l[1].segments, k[1].segments)
  PROVE  Before(k, l)
<1> DEFINE c == k[1].segments
           d == l[1].segments
<1>1. PICK i \in DOMAIN c : i <= Len(d) /\ Upto(d, i - 1) = Upto(c, i - 1) /\ Rank[d[i].kind] > Rank[c[i].kind]
  BY DEF Later
<1>2. /\ DOMAIN c = 1..Len(c) /\ DOMAIN d = 1..Len(d) /\ Len(c) \in Nat /\ Len(d) \in Nat
      /\ i \in DOMAIN d /\ i - 1 \in 0..Len(c) /\ i - 1 \in 0..Len(d)
  BY <1>1, LenProperties
<1>3. \A j \in 1..(i - 1) : Upto(c, i - 1)[j] = c[j]
  BY <1>2, Beginning
<1>4. \A j \in 1..(i - 1) : Upto(d, i - 1)[j] = d[j]
  BY <1>2, Beginning
<1>5. \A j \in 1..(i - 1) : c[j].kind = d[j].kind
  BY <1>1, <1>3, <1>4
<1>6. Rank[c[i].kind] \in 1..3 /\ Rank[d[i].kind] \in 1..3
  BY <1>2, RankOf
<1>7. Rank[c[i].kind] < Rank[d[i].kind]
  BY <1>1, <1>6
<1> QED
  BY <1>1, <1>2, <1>5, <1>7 DEF Before

\* The constraints of a node are those of the routes that lead to it.
LEMMA ConstraintsAgree ==
  ASSUME TablesInv, SameConstraints, NEW k \in DOMAIN routes, Key(k) \in DOMAIN constraints
  PROVE  constraints[Key(k)] = routes[k].constraints
<1>1. PICK r \in Route : r.segments = Key(k)[1] /\ constraints[Key(k)] = r.constraints
  BY DEF TablesInv, HandlersInv
<1>2. PICK q \in Route, method \in Method : k = <<Path(q), method>> /\ routes[k].constraints = q.constraints
  BY DEF TablesInv, MapInv
<1>3. r.segments = q.segments
  BY <1>1, <1>2, RoutesAre DEF Key
<1> QED
  BY <1>1, <1>2, <1>3 DEF SameConstraints

\* What a node answers is best if the candidates are here or come later.
LEMMA FoundIsBest ==
  ASSUME TablesInv, SameConstraints, Asked, Missed, NEW n \in nodes, Fits(n, Texts), Allowed(n, Captures(n, Texts)),
         \A k \in Candidates(asked.method, asked.target) : k[1].segments = n \/ Later(k[1].segments, n)
  PROVE  Best(asked.method, asked.target) = [handle |-> handlers[<<n, asked.method>>], params |-> Captures(n, Texts)]
<1> DEFINE key == <<n, asked.method>>
           C == Candidates(asked.method, asked.target)
<1>1. key \in DOMAIN handlers /\ (key \in DOMAIN constraints => Satisfied(constraints[key], Captures(n, Texts)))
  BY DEF Allowed
<1>2. PICK k \in DOMAIN routes : ~IsStatic(k[1].segments) /\ key = Key(k) /\ routes[k].handle = handlers[key]
  BY <1>1 DEF TablesInv, HandlersInv
<1>3. k[1].segments = n /\ k[2] = asked.method
  BY <1>2 DEF Key
<1>4. Satisfied(routes[k].constraints, Captures(n, Texts))
  <2>1. CASE key \in DOMAIN constraints
    BY <1>1, <1>2, <2>1, ConstraintsAgree
  <2>2. CASE key \notin DOMAIN constraints
    <3>1. routes[k].constraints = {}
      BY <1>2, <2>2 DEF TablesInv, HandlersInv
    <3> QED
      BY <3>1 DEF Satisfied
  <2> QED
    BY <2>1, <2>2
<1>5. k \in C
  BY <1>2, <1>3, <1>4 DEF Candidates, Texts
<1>6. ASSUME NEW l \in C \ {k}
      PROVE  Before(k, l)
  <2>1. l \in DOMAIN routes /\ Key(l) = <<l[1].segments, asked.method>> /\ routes[l].handle <= handlers[Key(l)]
    BY CandidateIs
  <2>2. CASE l[1].segments = n
    <3>1. routes[l].handle <= routes[k].handle /\ routes[l].handle # routes[k].handle
      BY <1>2, <2>1, <2>2 DEF TablesInv, MapInv
    <3>2. routes[l].handle \in Nat /\ routes[k].handle \in Nat
      BY <1>2, <2>1 DEF TablesInv, MapInv
    <3>3. routes[k].handle > routes[l].handle
      BY <3>1, <3>2
    <3> QED
      BY <1>3, <2>2, <3>3 DEF Before
  <2>3. CASE Later(l[1].segments, n)
    <3>1. l[1].segments \in Seq(Segment) /\ n \in Seq(Segment)
      BY CandidateIs DEF TablesInv, TreeInv
    <3> QED
      BY <1>3, <2>3, <3>1, LaterIsBefore
  <2> QED
    BY <2>2, <2>3
<1> QED
  BY <1>2, <1>3, <1>5, <1>6, BestIs

\* Where the node is not allowed there is no candidate.
LEMMA NotAllowed ==
  ASSUME TablesInv, SameConstraints, Asked, NEW n, ~Allowed(n, Captures(n, Texts)),
         NEW k \in Candidates(asked.method, asked.target)
  PROVE  k[1].segments # n
<1> SUFFICES ASSUME k[1].segments = n PROVE FALSE
  OBVIOUS
<1> DEFINE key == <<n, asked.method>>
<1>1. k \in DOMAIN routes /\ key = Key(k) /\ key \in DOMAIN handlers /\ Satisfied(routes[k].constraints, Captures(n, Texts))
  BY CandidateIs
<1>2. key \in DOMAIN constraints => constraints[key] = routes[k].constraints
  BY <1>1, ConstraintsAgree
<1> QED
  BY <1>1, <1>2 DEF Allowed

-----------------------------------------------------------------------------
(* The steps of a lookup.                                                  *)

\* The tables and the arguments stay, and so does what there is to find.
LEMMA Same ==
  ASSUME UNCHANGED <<tables, asked>>
  PROVE  /\ Candidates(asked.method, asked.target)' = Candidates(asked.method, asked.target)
         /\ Best(asked.method, asked.target)' = Best(asked.method, asked.target)
         /\ Texts' = Texts /\ Asked' = Asked /\ Missed' = Missed /\ nodes' = nodes
<1>1. UNCHANGED <<routes, direct, nodes, asked>>
  BY DEF tables
<1>2. Texts' = Texts /\ Asked' = Asked /\ Missed' = Missed
  BY Stay
<1>3. Candidates(asked.method, asked.target)' = Candidates(asked.method, asked.target)
  BY <1>1 DEF Candidates
<1>4. \A r, s : Before(r, s)' = Before(r, s)
  BY <1>1 DEF Before
<1>5. Best(asked.method, asked.target)' = Best(asked.method, asked.target)
  BY <1>1, <1>3, <1>4 DEF Best
<1> QED
  BY <1>1, <1>2, <1>3, <1>5

\* What comes later than a node comes later than what is below it.
LEMMA LaterBelow ==
  ASSUME NEW c, NEW n \in Seq(Segment), NEW x \in Segment, Later(c, n)
  PROVE  Later(c, Append(n, x))
<1> DEFINE m == Append(n, x)
<1>1. PICK i \in DOMAIN n : i <= Len(c) /\ Upto(c, i - 1) = Upto(n, i - 1) /\ Rank[c[i].kind] > Rank[n[i].kind]
  BY DEF Later
<1>2. DOMAIN n = 1..Len(n) /\ Len(n) \in Nat
  BY LenProperties
<1>3. /\ m \in Seq(Segment) /\ Len(m) = Len(n) + 1 /\ \A j \in 1..Len(n) : m[j] = n[j]
      /\ \A j \in 0..Len(n) : Upto(m, j) = Upto(n, j)
  BY OneMore
<1>4. DOMAIN m = 1..Len(m)
  BY <1>3, LenProperties
<1>5. i \in DOMAIN m /\ m[i] = n[i] /\ i - 1 \in 0..Len(n)
  BY <1>1, <1>2, <1>3, <1>4
<1>6. Upto(m, i - 1) = Upto(n, i - 1)
  BY <1>3, <1>5
<1> QED
  BY <1>1, <1>5, <1>6 DEF Later

\* match_node() calls itself for the static child, or for the parameter.
LEMMA DescendKeeps ==
  ASSUME TablesInv, Asked, Missed, OnTheWay, NonePassed, UNCHANGED <<tables, asked>>,
         NEW n \in Children(at), Len(node) < Len(Texts),
         \/ at = "static" /\ Last(n).text = Text
         \/ at = "param" /\ Text # Refused,
         node' = n, at' = "static", params' = Captures(n, Texts)
  PROVE  LookupInv'
<1> DEFINE L == Len(node)
           x == Last(n)
<1>1. /\ node \in Seq(Segment) /\ L \in Nat /\ DOMAIN node = 1..L
      /\ n \in Seq(Segment) /\ n \in nodes /\ Len(n) = L + 1 /\ Front(n) = node /\ x.kind = at /\ DOMAIN n = 1..(L + 1)
  BY LenProperties DEF OnTheWay, Walked, TablesInv, TreeInv, Children
<1>2. n # <<>>
  BY <1>1, EmptySeq
<1>3. x \in Segment /\ x = n[L + 1]
  BY <1>1, <1>2, FrontAndLast
<1>4. n = Append(node, x)
  BY <1>1, <1>2, <1>3, OneMore, SamePath
<1>5. (\A i \in 1..L : n[i] = node[i]) /\ Upto(n, L) = node
  <2>1. L \in 0..Len(node)
    BY <1>1
  <2>2. (\A i \in 1..L : Append(node, x)[i] = node[i]) /\ Upto(Append(node, x), L) = Upto(node, L)
    BY <1>1, <1>3, <2>1, OneMore
  <2>3. Upto(node, L) = node
    BY <1>1, <2>1, Beginning
  <2> QED
    BY <1>4, <2>2, <2>3
<1>6. OnTheWay'
  BY Same, DescendWalks DEF OnTheWay
<1>7. ASSUME NEW k \in Candidates(asked.method, asked.target)
      PROVE  \/ Later(k[1].segments, n)
             \/ Len(k[1].segments) >= L + 1 /\ Upto(k[1].segments, L + 1) = n
  <2> DEFINE c == k[1].segments
             y == c[L + 1]
  <2>0. Later(c, node) \/ Ahead(c)
    BY DEF NonePassed
  <2>1. CASE Later(c, node)
    BY <1>1, <1>3, <1>4, <2>1, LaterBelow
  <2>2. CASE Ahead(c)
    <3>1. /\ L + 1 \in 1..Len(c) /\ y \in Segment /\ Rank[y.kind] >= Rank[at]
          /\ Upto(c, L) = node /\ Upto(c, L + 1) = Append(node, y)
          /\ Append(node, y) \in nodes /\ Append(node, y) \in Children(y.kind) /\ Last(Append(node, y)) = y
      BY <2>2, Parting
    <3>2. c \in Seq(Segment) /\ DOMAIN c = 1..Len(c) /\ Len(c) \in Nat /\ Fits(c, Texts)
      BY CandidateIs
    <3>3. CASE y.kind = at
      <4>1. CASE at = "static"
        <5>1. y.text = Texts[L + 1] /\ x.text = Texts[L + 1]
          BY <3>1, <3>2, <3>3, <4>1 DEF Fits, Text
        <5>2. x.kind = y.kind
          BY <1>1, <3>3
        <5>3. y = x
          BY <1>3, <3>1, <5>1, <5>2, SameSegment
        <5> QED
          BY <1>4, <3>1, <3>2, <5>3
      <4>2. CASE at = "param"
        <5>1. Append(node, y) # <<>> /\ Front(Append(node, y)) = node
          BY <1>1, <3>1, OneMore
        <5>2. Append(node, y) = n
          BY <1>1, <1>2, <3>1, <3>3, <4>2, <5>1 DEF TablesInv, TreeInv
        <5> QED
          BY <3>1, <3>2, <5>2
      <4> QED
        BY <4>1, <4>2
    <3>4. CASE y.kind # at
      <4>1. Rank[y.kind] > Rank[at]
        <5>1. y.kind \in Kind /\ at \in Kind
          BY <1>1, <1>3, <3>1, Ranks
        <5> QED
          BY <3>1, <3>4, <5>1, RanksDiffer
      <4>2. L + 1 \in DOMAIN n /\ L + 1 <= Len(c) /\ L + 1 - 1 = L
        BY <1>1, <3>1
      <4>3. Upto(c, L + 1 - 1) = Upto(n, L + 1 - 1)
        BY <1>5, <3>1, <4>2
      <4>4. Later(c, n)
        BY <1>1, <1>3, <4>1, <4>2, <4>3 DEF Later
      <4> QED
        BY <4>4
    <3> QED
      BY <3>3, <3>4
  <2> QED
    BY <2>0, <2>1, <2>2
<1>8. NonePassed'
  <2> SUFFICES ASSUME NEW k \in Candidates(asked.method, asked.target)
               PROVE  Later(k[1].segments, n) \/ Ahead(k[1].segments)'
    BY Same DEF NonePassed
  <2> DEFINE c == k[1].segments
  <2>1. CASE Later(c, n)
    BY <2>1
  <2>2. CASE Len(c) >= L + 1 /\ Upto(c, L + 1) = n
    <3>1. c \in Seq(Segment) /\ DOMAIN c = 1..Len(c) /\ Len(c) \in Nat
      BY CandidateIs
    <3>2. ASSUME Len(c) > L + 1
          PROVE  Rank[c[L + 1 + 1].kind] >= Rank["static"]
      <4>1. L + 1 + 1 \in DOMAIN c
        BY <1>1, <3>1, <3>2
      <4>2. Rank[c[L + 1 + 1].kind] \in 1..3
        BY <3>1, <4>1, RankOf
      <4> QED
        BY <4>2, Ranks
    <3> QED
      BY <1>1, <2>2, <3>2 DEF Ahead
  <2> QED
    BY <1>7, <2>1, <2>2
<1> QED
  BY <1>6, <1>8, Same DEF LookupInv, Kind

\* There is nothing of this kind that fits, and the next kind is tried.
LEMMA ForwardKeeps ==
  ASSUME TablesInv, Asked, Missed, OnTheWay, NonePassed, UNCHANGED <<tables, asked, node, params>>,
         Len(node) < Len(Texts),
         \/ at = "static" /\ at' = "param"
         \/ at = "param" /\ at' = "wild",
         \A k \in Candidates(asked.method, asked.target) :
            Ahead(k[1].segments) => k[1].segments[Len(node) + 1].kind # at
  PROVE  LookupInv'
<1>1. OnTheWay'
  BY Same DEF OnTheWay, Walked
<1>2. NonePassed'
  <2> SUFFICES ASSUME NEW k \in Candidates(asked.method, asked.target)
               PROVE  Later(k[1].segments, node) \/ Ahead(k[1].segments)'
    BY Same DEF NonePassed
  <2> DEFINE c == k[1].segments
             y == c[Len(node) + 1]
  <2>1. CASE Later(c, node)
    BY <2>1
  <2>2. CASE Ahead(c)
    <3>1. Len(node) + 1 \in 1..Len(c) /\ y \in Segment /\ Rank[y.kind] >= Rank[at] /\ Upto(c, Len(node)) = node
      BY <2>2, Parting
    <3>2. y.kind \in Kind /\ at \in Kind /\ y.kind # at
      BY <2>2, <3>1, Ranks DEF Kind
    <3>3. Rank[y.kind] > Rank[at]
      BY <3>1, <3>2, RanksDiffer
    <3>4. Rank[at'] = Rank[at] + 1
      BY Ranks
    <3>5. Rank[y.kind] \in 1..3 /\ Rank[at] \in 1..3
      BY <3>1, Ranks
    <3>6. Rank[y.kind] >= Rank[at']
      BY <3>3, <3>4, <3>5
    <3> QED
      BY <2>2, <3>6 DEF Ahead
  <2> QED
    BY <2>1, <2>2 DEF NonePassed
<1> QED
  BY <1>1, <1>2, Same DEF LookupInv, Kind

\* There is nothing below the node, and its caller goes on.
LEMMA BackKeeps ==
  ASSUME TablesInv, NamesDiffer, Asked, Missed, OnTheWay, UNCHANGED <<tables, asked>>,
         \A k \in Candidates(asked.method, asked.target) : Later(k[1].segments, node),
         Back(Captures(node, Texts))
  PROVE  LookupInv'
<1>0. node \in Seq(Segment) /\ Len(node) \in Nat /\ DOMAIN node = 1..Len(node)
  BY LenProperties DEF OnTheWay, Walked, TablesInv, TreeInv
<1>1. CASE node = <<>>
  <2>1. DOMAIN node = {}
    BY <1>1
  <2>2. Candidates(asked.method, asked.target) = {}
    BY <2>1 DEF Later
  <2>3. Captures(node, Texts) = <<>>
    BY <2>1, CapturesNothing
  <2>4. Return(NotFound(<<>>))
    BY <1>1, <2>3 DEF Back
  <2>5. Best(asked.method, asked.target) = NotFound(<<>>)
    BY <2>2, NoneIsBest
  <2>6. at' = "returned" /\ node' = <<>> /\ params' = <<>> /\ answer' = NotFound(<<>>)
    BY <2>4 DEF Return
  <2>7. MatchIsBest'
    BY <2>5, <2>6, Same DEF MatchIsBest
  <2> QED
    BY <2>6, <2>7, Same DEF LookupInv, Kind
<1>2. CASE node # <<>>
  <2> DEFINE up == Front(node)
             x == Last(node)
  <2>1. /\ Len(node) \in Nat \ {0} /\ x = node[Len(node)] /\ x \in Segment
        /\ up \in Seq(Segment) /\ Len(up) = Len(node) - 1 /\ up = Upto(node, Len(node) - 1)
        /\ \A i \in 0..(Len(node) - 1) : Upto(up, i) = Upto(node, i)
        /\ \A i \in 1..(Len(node) - 1) : up[i] = node[i]
    BY <1>0, <1>2, FrontAndLast
  <2>2. DOMAIN up = 1..(Len(node) - 1) /\ Len(node) \in DOMAIN node /\ Len(node) - 1 \in 0..Len(node)
    BY <1>0, <2>1, LenProperties
  <2>3. node = Append(up, x)
    <3>1. Append(up, x) \in Seq(Segment) /\ Append(up, x) # <<>> /\ Front(Append(up, x)) = up /\ Last(Append(up, x)) = x
      BY <2>1, OneMore
    <3> QED
      BY <1>0, <1>2, <3>1, SamePath
  <2>4. NamesApart(node)
    BY NodesApart DEF OnTheWay, Walked
  <2>5. /\ x.kind = "static" => Captures(node, Texts) = Captures(up, Texts)
        /\ x.kind # "static" => Captures(up, Texts) = Forgotten(Captures(node, Texts), x.text)
    <3>1. NamesApart(Append(up, x))
      BY <2>3, <2>4
    <3>2. /\ x.kind = "static" => Captures(Append(up, x), Texts) = Captures(up, Texts)
          /\ x.kind # "static" => Captures(up, Texts) = Forgotten(Captures(Append(up, x), Texts), x.text)
      BY <2>1, <3>1, CapturesGrow
    <3> QED
      BY <2>3, <3>2
  <2>6. /\ node' = up /\ params' = Captures(up, Texts)
        /\ \/ x.kind = "static" /\ at' = "param"
           \/ x.kind = "param" /\ at' = "wild"
    BY <1>2, <2>5 DEF Back
  <2>7. OnTheWay'
    <3>1. Walked'
      BY <1>2, <2>6, BackWalks DEF OnTheWay
    <3> QED
      BY <2>6, <3>1, Same DEF OnTheWay
  <2>8. NonePassed'
    <3> SUFFICES ASSUME NEW k \in Candidates(asked.method, asked.target)
                 PROVE  Later(k[1].segments, up) \/ Ahead(k[1].segments)'
      BY <2>6, Same DEF NonePassed
    <3> DEFINE c == k[1].segments
    <3>1. c \in Seq(Segment) /\ DOMAIN c = 1..Len(c) /\ Len(c) \in Nat
      BY CandidateIs
    <3>2. PICK i \in DOMAIN node : i <= Len(c) /\ Upto(c, i - 1) = Upto(node, i - 1) /\ Rank[c[i].kind] > Rank[node[i].kind]
      BY DEF Later
    <3>3. CASE i = Len(node)
      <4>1. Len(c) >= Len(up) /\ Upto(c, Len(up)) = up /\ Len(up) + 1 = i
        BY <2>1, <3>1, <3>2, <3>3
      <4>2. Rank[c[i].kind] > Rank[x.kind]
        BY <2>1, <3>2, <3>3
      <4>3. i \in DOMAIN c
        BY <1>0, <3>1, <3>2
      <4>4. Rank[c[i].kind] \in 1..3 /\ Rank[at'] = Rank[x.kind] + 1 /\ Rank[x.kind] \in 1..3
        BY <2>1, <2>6, <3>1, <4>3, RankOf, Ranks
      <4>5. Rank[c[i].kind] >= Rank[at']
        BY <4>2, <4>4
      <4> QED
        BY <2>6, <4>1, <4>5 DEF Ahead
    <3>4. CASE i # Len(node)
      <4>1. i \in DOMAIN up /\ i - 1 \in 0..(Len(node) - 1)
        BY <1>0, <2>2, <3>4
      <4>2. up[i] = node[i] /\ Upto(up, i - 1) = Upto(node, i - 1)
        BY <2>1, <2>2, <4>1
      <4> QED
        BY <3>2, <4>1, <4>2 DEF Later
    <3> QED
      BY <3>3, <3>4
  <2> QED
    BY <2>6, <2>7, <2>8, Same DEF LookupInv, Kind
<1> QED
  BY <1>1, <1>2

\* A lookup that returns the best route is over.
LEMMA ReturnKeeps ==
  ASSUME Asked, UNCHANGED <<tables, asked>>, Return(Best(asked.method, asked.target))
  PROVE  LookupInv'
<1>1. at' = "returned" /\ node' = <<>> /\ params' = <<>> /\ answer' = Best(asked.method, asked.target)
  BY DEF Return
<1>2. MatchIsBest'
  BY <1>1, Same DEF MatchIsBest
<1> QED
  BY <1>1, <1>2, Same DEF LookupInv, Kind

\* No text is left: the node answers or its caller goes on.
LEMMA TryHereKeeps ==
  ASSUME TablesInv, Tame, LookupInv, TryHere, UNCHANGED <<tables, asked>>
  PROVE  LookupInv'
<1>1. at = "static" /\ Len(node) = Len(Texts) /\ Asked /\ Missed /\ OnTheWay /\ NonePassed
  BY DEF TryHere, LookupInv, Kind
<1>2. node \in nodes /\ params = Captures(node, Texts) /\ Len(Texts) \in Nat
  BY <1>1, TextsAre DEF OnTheWay, Walked
<1>3. ASSUME NEW k \in Candidates(asked.method, asked.target)
      PROVE  k[1].segments = node \/ Later(k[1].segments, node)
  <2> DEFINE c == k[1].segments
  <2>1. CASE Ahead(c)
    <3>1. c \in Seq(Segment) /\ Len(c) <= Len(Texts) /\ Len(c) \in Nat
      BY <1>1, CandidateIs
    <3>2. Len(c) = Len(node) /\ Upto(c, Len(node)) = node
      BY <1>1, <1>2, <2>1, <3>1 DEF Ahead
    <3>3. Len(c) \in 0..Len(c)
      BY <3>1
    <3>4. Upto(c, Len(c)) = c
      BY <3>1, <3>3, Beginning
    <3> QED
      BY <3>2, <3>4
  <2> QED
    BY <1>1, <2>1 DEF NonePassed
<1>4. CASE Allowed(node, params) /\ Found(node, params)
  <2>1. Fits(node, Texts)
    BY <1>1, NodeFits DEF OnTheWay
  <2>2. Best(asked.method, asked.target) = [handle |-> handlers[<<node, asked.method>>], params |-> params]
    BY <1>1, <1>2, <1>3, <1>4, <2>1, FoundIsBest DEF Tame
  <2> QED
    BY <1>1, <1>4, <2>2, ReturnKeeps DEF Found
<1>5. CASE ~Allowed(node, params) /\ Back(params)
  <2>1. \A k \in Candidates(asked.method, asked.target) : Later(k[1].segments, node)
    BY <1>1, <1>2, <1>3, <1>5, NotAllowed DEF Tame
  <2> QED
    BY <1>1, <1>2, <1>5, <2>1, BackKeeps DEF Tame
<1> QED
  BY <1>4, <1>5 DEF TryHere

\* The static child is next, or there is none for the text.
LEMMA TryStaticKeeps ==
  ASSUME TablesInv, Tame, LookupInv, TryStatic, UNCHANGED <<tables, asked>>
  PROVE  LookupInv'
<1> DEFINE x == [kind |-> "static", text |-> Text]
           n == Append(node, x)
<1>1. /\ at = "static" /\ Len(node) < Len(Texts) /\ Asked /\ Missed /\ OnTheWay /\ NonePassed
      /\ node \in Seq(Segment) /\ Len(node) \in Nat /\ UNCHANGED params
  BY LenProperties DEF TryStatic, LookupInv, Kind, OnTheWay, Walked, TablesInv, TreeInv
<1>2. x \in Segment /\ x.kind = "static" /\ x.text = Text
  <2>1. Len(node) + 1 \in 1..Len(Texts)
    BY <1>1, TextsAre
  <2>2. Text \in STRING
    BY <1>1, <2>1, TextsAre, ElementOfSeq DEF Text
  <2> QED
    BY <2>2 DEF Segment, Kind
<1>3. n \in Seq(Segment) /\ n # <<>> /\ Len(n) = Len(node) + 1 /\ Front(n) = node /\ Last(n) = x
  BY <1>1, <1>2, OneMore
<1>4. CASE n \in nodes /\ node' = n /\ UNCHANGED at
  <2>1. n \in Children(at)
    BY <1>1, <1>2, <1>3, <1>4 DEF Children
  <2>2. NamesApart(n)
    BY <1>4, NodesApart DEF Tame
  <2>3. Captures(n, Texts) = Captures(node, Texts)
    BY <1>1, <1>2, <2>2, CapturesGrow
  <2>4. params' = Captures(n, Texts)
    BY <1>1, <2>3 DEF OnTheWay, Walked
  <2>5. Last(n).text = Text
    BY <1>2, <1>3
  <2> HIDE DEF n
  <2> QED
    BY <1>1, <1>4, <2>1, <2>4, <2>5, DescendKeeps
<1>5. CASE n \notin nodes /\ at' = "param" /\ UNCHANGED node
  <2>1. ASSUME NEW k \in Candidates(asked.method, asked.target), Ahead(k[1].segments)
        PROVE  k[1].segments[Len(node) + 1].kind # at
    <3> DEFINE c == k[1].segments
               y == c[Len(node) + 1]
    <3> SUFFICES ASSUME y.kind = at PROVE FALSE
      OBVIOUS
    <3>1. Len(node) + 1 \in 1..Len(c) /\ y \in Segment /\ Append(node, y) \in nodes
      BY <1>1, <2>1, Parting
    <3>2. Fits(c, Texts) /\ DOMAIN c = 1..Len(c)
      BY <1>1, CandidateIs
    <3>3. y.text = Text
      BY <1>1, <3>1, <3>2 DEF Fits, Text
    <3>4. y = x
      BY <1>1, <1>2, <3>1, <3>3, SameSegment
    <3> QED
      BY <1>5, <3>1, <3>4
  <2> QED
    BY <1>1, <1>5, <2>1, ForwardKeeps
<1> QED
  BY <1>4, <1>5 DEF TryStatic

\* The parameter is next, or there is none, or the text is refused.
LEMMA TryParameterKeeps ==
  ASSUME TablesInv, Tame, LookupInv, TryParameter, UNCHANGED <<tables, asked>>
  PROVE  LookupInv'
<1>1. /\ at = "param" /\ Len(node) < Len(Texts) /\ Asked /\ Missed /\ OnTheWay /\ NonePassed
      /\ node \in nodes /\ params = Captures(node, Texts)
  BY DEF TryParameter, LookupInv, Kind, OnTheWay, Walked
<1>2. CASE /\ Text # Refused
           /\ \E n \in Children("param") :
                 /\ node' = n /\ at' = "static"
                 /\ params' = With(params, Last(n).text, <<Text>>)
  <2>1. PICK n \in Children("param") : node' = n /\ at' = "static" /\ params' = With(params, Last(n).text, <<Text>>)
    BY <1>2
  <2>2. /\ node \in Seq(Segment) /\ n \in nodes /\ n = Append(node, Last(n))
        /\ Last(n) \in Segment /\ Last(n).kind = "param" /\ Last(n) = n[Len(node) + 1]
    BY <1>1, ChildIs
  <2>3. NamesApart(Append(node, Last(n)))
    BY <2>2, NodesApart DEF Tame
  <2>4. Captures(Append(node, Last(n)), Texts) =
           With(Captures(node, Texts), Last(n).text, Value(Append(node, Last(n)), Len(node) + 1, Texts))
    BY <2>2, <2>3, CapturesGrow
  <2>5. Value(n, Len(node) + 1, Texts) = <<Text>>
    BY <2>2 DEF Value, Text
  <2>6. params' = Captures(n, Texts)
    BY <1>1, <2>1, <2>2, <2>4, <2>5
  <2> QED
    BY <1>1, <1>2, <2>1, <2>6, DescendKeeps
<1>3. CASE (Children("param") = {} \/ Text = Refused) /\ at' = "wild" /\ UNCHANGED <<node, params>>
  <2>1. ASSUME NEW k \in Candidates(asked.method, asked.target), Ahead(k[1].segments)
        PROVE  k[1].segments[Len(node) + 1].kind # at
    <3> DEFINE c == k[1].segments
               y == c[Len(node) + 1]
    <3> SUFFICES ASSUME y.kind = at PROVE FALSE
      OBVIOUS
    <3>1. Len(node) + 1 \in 1..Len(c) /\ Append(node, y) \in Children(y.kind)
      BY <1>1, <2>1, Parting
    <3>2. Fits(c, Texts) /\ DOMAIN c = 1..Len(c)
      BY <1>1, CandidateIs
    <3>3. Text # Refused
      BY <1>1, <3>1, <3>2 DEF Fits, Text
    <3> QED
      BY <1>1, <1>3, <3>1, <3>3
  <2> QED
    BY <1>1, <1>3, <2>1, ForwardKeeps
<1> QED
  BY <1>2, <1>3 DEF TryParameter

\* What is left to try at the node is below its wildcard.
LEMMA OnlyTheWildcard ==
  ASSUME TablesInv, LookupInv, at = "wild", NEW k \in Candidates(asked.method, asked.target)
  PROVE  \/ Later(k[1].segments, node)
         \/ k[1].segments \in Children("wild") /\ ~Contains(Rest, Refused)
<1> DEFINE c == k[1].segments
           y == c[Len(node) + 1]
<1>1. Asked /\ OnTheWay /\ NonePassed /\ Len(node) < Len(Texts)
  BY DEF LookupInv, Kind, OnTheWay, Walked
<1>2. CASE Later(c, node)
  BY <1>2
<1>3. CASE Ahead(c)
  <2>1. /\ Len(node) + 1 \in 1..Len(c) /\ y \in Segment /\ Rank[y.kind] >= Rank[at]
        /\ Upto(c, Len(node) + 1) = Append(node, y)
        /\ Append(node, y) \in Children(y.kind)
    BY <1>1, <1>3, Parting
  <2>2. c \in Seq(Segment) /\ c \in nodes /\ Fits(c, Texts) /\ DOMAIN c = 1..Len(c) /\ Len(c) \in Nat
    BY <1>1, CandidateIs
  <2>3. y.kind = "wild"
    BY <2>1, Ranks DEF Kind
  <2>4. Len(node) + 1 = Len(c)
    BY <2>1, <2>2, <2>3 DEF TablesInv, TreeInv
  <2>5. c = Append(node, y)
    <3>1. Len(c) \in 0..Len(c)
      BY <2>2
    <3>2. Upto(c, Len(c)) = c
      BY <2>2, <3>1, Beginning
    <3> QED
      BY <2>1, <2>4, <3>2
  <2>6. ~Contains(Rest, Refused)
    BY <2>1, <2>2, <2>3 DEF Fits, Rest
  <2> QED
    BY <2>1, <2>3, <2>5, <2>6
<1> QED
  BY <1>1, <1>2, <1>3 DEF NonePassed

\* The wildcard answers with the rest of the texts, or the caller goes on.
LEMMA TryWildcardKeeps ==
  ASSUME TablesInv, Tame, LookupInv, TryWildcard, UNCHANGED <<tables, asked>>
  PROVE  LookupInv'
<1>1. /\ at = "wild" /\ Len(node) < Len(Texts) /\ Asked /\ Missed /\ OnTheWay
      /\ node \in nodes /\ params = Captures(node, Texts)
  BY DEF TryWildcard, LookupInv, Kind, OnTheWay, Walked
<1>2. ASSUME ~Contains(Rest, Refused), NEW n \in Children("wild"), NEW captured,
             captured = With(params, Last(n).text, Rest),
             \/ Allowed(n, captured) /\ Found(n, captured)
             \/ ~Allowed(n, captured) /\ Back(Forgotten(captured, Last(n).text))
      PROVE  LookupInv'
  <2>1. /\ node \in Seq(Segment) /\ Len(node) \in Nat /\ n \in nodes /\ n \in Seq(Segment) /\ n # <<>>
        /\ n = Append(node, Last(n)) /\ Len(n) = Len(node) + 1 /\ DOMAIN n = 1..(Len(node) + 1)
        /\ Last(n) \in Segment /\ Last(n).kind = "wild" /\ Last(n) = n[Len(node) + 1]
        /\ \A i \in 1..Len(node) : n[i] = node[i]
    BY <1>1, <1>2, ChildIs
  <2>2. NamesApart(Append(node, Last(n)))
    BY <2>1, NodesApart DEF Tame
  <2>3. /\ Captures(Append(node, Last(n)), Texts) =
              With(Captures(node, Texts), Last(n).text, Value(Append(node, Last(n)), Len(node) + 1, Texts))
        /\ Captures(node, Texts) = Forgotten(Captures(Append(node, Last(n)), Texts), Last(n).text)
    BY <2>1, <2>2, CapturesGrow
  <2>4. Value(n, Len(node) + 1, Texts) = Rest
    BY <2>1 DEF Value, Rest
  <2>5. captured = Captures(n, Texts) /\ Captures(node, Texts) = Forgotten(captured, Last(n).text)
    BY <1>1, <1>2, <2>1, <2>3, <2>4
  <2>6. ASSUME NEW k \in Candidates(asked.method, asked.target)
        PROVE  k[1].segments = n \/ Later(k[1].segments, node)
    <3>1. CASE k[1].segments \in Children("wild")
      <4>1. k[1].segments \in nodes /\ k[1].segments # <<>>
        BY <1>1, <3>1, ChildIs
      <4>2. /\ Front(k[1].segments) = node /\ Front(n) = node
            /\ Last(k[1].segments).kind = "wild" /\ Last(n).kind = "wild"
        BY <1>2, <3>1 DEF Children
      <4> QED
        BY <2>1, <4>1, <4>2 DEF TablesInv, TreeInv
    <3> QED
      BY <1>1, <3>1, OnlyTheWildcard
  <2>7. CASE Allowed(n, captured) /\ Found(n, captured)
    <3>1. Fits(n, Texts)
      BY <1>1, <1>2, ChildFits DEF OnTheWay
    <3>2. ASSUME NEW k \in Candidates(asked.method, asked.target)
          PROVE  k[1].segments = n \/ Later(k[1].segments, n)
      BY <2>1, <2>6, LaterBelow
    <3>3. Best(asked.method, asked.target) = [handle |-> handlers[<<n, asked.method>>], params |-> captured]
      BY <1>1, <2>1, <2>5, <2>7, <3>1, <3>2, FoundIsBest DEF Tame
    <3> QED
      BY <1>1, <2>7, <3>3, ReturnKeeps DEF Found
  <2>8. CASE ~Allowed(n, captured) /\ Back(Forgotten(captured, Last(n).text))
    <3>1. \A k \in Candidates(asked.method, asked.target) : Later(k[1].segments, node)
      BY <1>1, <2>5, <2>6, <2>8, NotAllowed DEF Tame
    <3> QED
      BY <1>1, <2>5, <2>8, <3>1, BackKeeps DEF Tame
  <2> QED
    BY <1>2, <2>7, <2>8
<1>3. CASE (Children("wild") = {} \/ Contains(Rest, Refused)) /\ Back(params)
  <2>1. \A k \in Candidates(asked.method, asked.target) : Later(k[1].segments, node)
    BY <1>1, <1>3, OnlyTheWildcard
  <2> QED
    BY <1>1, <1>3, <2>1, BackKeeps DEF Tame
<1> QED
  BY <1>2, <1>3 DEF TryWildcard

\* match() answers from the static table, or goes to the root of the tree.
LEMMA MatchKeeps ==
  ASSUME TablesInv, LookupInv, NEW method \in Method, NEW t \in Target, Match(method, t)
  PROVE  LookupInv'
<1> DEFINE fixed == <<AsRoute(t), method>>
<1>1. /\ asked' = [method |-> method, target |-> t] /\ node' = <<>> /\ params' = <<>>
      /\ UNCHANGED <<routes, direct, nodes, handlers, constraints, added, rejected>>
  BY DEF Match, tables
<1>2. asked'.method = method /\ asked'.target = t /\ Asked'
  BY <1>1 DEF Asked
<1>3. CASE fixed \in DOMAIN direct /\ at' = "returned" /\ answer' = [handle |-> direct[fixed], params |-> <<>>]
  <2>1. fixed \in DOMAIN routes /\ direct[fixed] = routes[fixed].handle
    BY <1>3, FixedIs
  <2>2. Best(method, t) = answer'
    BY <1>3, <2>1 DEF Best
  <2>3. Best(asked.method, asked.target)' = Best(method, t)
    BY <1>1, <1>2, <2>1 DEF Best
  <2>4. MatchIsBest'
    BY <2>2, <2>3 DEF MatchIsBest
  <2> QED
    BY <1>1, <1>2, <1>3, <2>4 DEF LookupInv, Kind
<1>4. CASE fixed \notin DOMAIN direct /\ at' = "static" /\ answer' = NotFound(<<>>)
  <2>1. Missed'
    BY <1>1, <1>2, <1>4 DEF Missed
  <2>2. DOMAIN <<>> = {} /\ Len(<<>>) = 0 /\ <<>> \in nodes
    BY EmptySeq DEF TablesInv, TreeInv
  <2>3. OnTheWay'
    <3>1. Texts' = t.segments
      BY <1>2 DEF Texts
    <3>2. Len(Texts') \in Nat
      BY <3>1, TargetAssumption, LenProperties
    <3>3. params' = Captures(node', Texts')
      <4>1. DOMAIN node' = {}
        BY <1>1, <2>2
      <4>2. Captures(node', Texts') = <<>>
        BY <4>1, CapturesNothing
      <4> QED
        BY <1>1, <4>2
    <3>4. Len(node') <= Len(Texts') /\ node' \in nodes' /\ \A i \in DOMAIN node' : FALSE
      BY <1>1, <2>2, <3>2
    <3> QED
      BY <1>4, <3>3, <3>4 DEF OnTheWay, Walked
  <2>4. NonePassed'
    <3>1. Candidates(asked.method, asked.target)' = Candidates(method, t)
      BY <1>1, <1>2 DEF Candidates
    <3> SUFFICES ASSUME NEW k \in Candidates(method, t)
                 PROVE  Ahead(k[1].segments)'
      BY <3>1 DEF NonePassed
    <3> DEFINE c == k[1].segments
    <3>2. c \in Seq(Segment)
      BY DEF Candidates, TablesInv, HandlersInv, TreeInv
    <3>3. Len(c) \in Nat /\ DOMAIN c = 1..Len(c) /\ 0 \in 0..Len(c)
      BY <3>2, LenProperties
    <3>4. Upto(c, 0) = <<>>
      BY <3>2, <3>3, Beginning
    <3>5. ASSUME Len(c) > 0
          PROVE  Rank[c[1].kind] >= Rank["static"]
      <4>1. 1 \in DOMAIN c
        BY <3>3, <3>5
      <4>2. Rank[c[1].kind] \in 1..3
        BY <3>2, <4>1, RankOf
      <4> QED
        BY <4>2, Ranks
    <3>6. Len(node') = 0 /\ node' = <<>> /\ Len(node') + 1 = 1
      BY <1>1, <2>2
    <3> QED
      BY <1>4, <3>3, <3>4, <3>5, <3>6 DEF Ahead
  <2> QED
    BY <1>2, <1>4, <2>1, <2>3, <2>4 DEF LookupInv, Kind
<1> QED
  BY <1>3, <1>4 DEF Match

\* Nothing is looked up at first.
LEMMA LookupInit == Init => LookupInv
  BY DEF Init, LookupInv, Kind

\* Routes are added between lookups, and every step of a lookup keeps its invariant.
LEMMA LookupStep == Tame /\ TablesInv /\ LookupInv /\ [Next]_vars => LookupInv'
<1> SUFFICES ASSUME Tame, TablesInv, LookupInv, [Next]_vars PROVE LookupInv'
  OBVIOUS
<1>1. ASSUME NEW method \in Method, NEW r \in Route, Add(method, r) PROVE LookupInv'
  BY <1>1 DEF Add, LookupInv, Kind
<1>2. ASSUME NEW method \in Method, NEW t \in Target, Match(method, t) PROVE LookupInv'
  BY <1>2, MatchKeeps
<1>3. CASE MatchNode
  BY <1>3, TryHereKeeps, TryStaticKeeps, TryParameterKeeps, TryWildcardKeeps DEF MatchNode
<1>4. CASE Taken
  BY <1>4 DEF Taken, LookupInv, Kind
<1>5. CASE UNCHANGED vars
  <2>1. UNCHANGED <<tables, asked, at, node, params, answer>>
    BY <1>5 DEF vars
  <2>2. OnTheWay' = OnTheWay
    BY <2>1, Same DEF OnTheWay, Walked
  <2>3. NonePassed' = NonePassed
    BY <2>1, Same DEF NonePassed, Ahead
  <2>4. MatchIsBest' = MatchIsBest
    BY <2>1, Same DEF MatchIsBest
  <2> QED
    BY <2>1, <2>2, <2>3, <2>4, Same DEF LookupInv
<1> QED
  BY <1>1, <1>2, <1>3, <1>4, <1>5 DEF Next

\* MatchIsBest: a lookup answers the best route of the map, with what it captures, where
\* no name is captured twice on a path and a path comes with the same constraints each
\* time (route_table::match, match_node).
THEOREM LookupIsBest == Tame => (Spec => []MatchIsBest)
<1>1. LookupInv => MatchIsBest
  BY DEF LookupInv, MatchIsBest
<1>2. Init => TablesInv /\ LookupInv
  BY TablesInit, LookupInit
<1>3. Tame /\ TablesInv /\ LookupInv /\ [Next]_vars => (TablesInv /\ LookupInv)'
  BY TablesStep, LookupStep
<1> SUFFICES ASSUME Tame PROVE Spec => []MatchIsBest
  OBVIOUS
<1>4. TablesInv /\ LookupInv /\ [Next]_vars => (TablesInv /\ LookupInv)'
  BY <1>3
<1> QED
  BY <1>1, <1>2, <1>4, PTL DEF Spec

-----------------------------------------------------------------------------
(* What holds of any routes.                                               *)

\* The answer is a handler of a route that fits.
Sound ==
    answer.handle # None =>
        \E k \in DOMAIN routes :
            /\ k[2] = asked.method /\ routes[k].handle = answer.handle
            /\ k[1] = AsRoute(asked.target) \/ Fits(k[1].segments, Texts)

WalkInv ==
    /\ at \in Kind => Asked /\ Walked
    /\ at \notin Kind => at \in {"idle", "returned"}
    /\ at = "returned" => Asked /\ Sound

\* The handler of a node that fits is one of a route that fits.
LEMMA FoundIsSound ==
  ASSUME TablesInv, Asked, UNCHANGED <<tables, asked>>, NEW n, NEW captured, Fits(n, Texts),
         Allowed(n, captured), Found(n, captured)
  PROVE  WalkInv'
<1> DEFINE key == <<n, asked.method>>
<1>1. key \in DOMAIN handlers /\ at' = "returned" /\ answer'.handle = handlers[key]
  BY DEF Allowed, Found, Return
<1>2. PICK k \in DOMAIN routes : ~IsStatic(k[1].segments) /\ key = Key(k) /\ routes[k].handle = handlers[key]
  BY <1>1 DEF TablesInv, HandlersInv
<1>3. k[1].segments = n /\ k[2] = asked.method
  BY <1>2 DEF Key
<1>4. UNCHANGED <<routes, asked>>
  BY DEF tables
<1>5. Sound'
  BY <1>1, <1>2, <1>3, <1>4, Stay DEF Sound
<1> QED
  BY <1>1, <1>5, Stay DEF WalkInv, Kind

\* match_node() that goes back stays on the way, or finds nothing.
LEMMA BackIsSound ==
  ASSUME TablesInv, Asked, Walked, UNCHANGED <<tables, asked>>, NEW captured, Back(captured)
  PROVE  WalkInv'
<1>1. CASE node = <<>>
  <2>1. at' = "returned" /\ answer'.handle = None
    BY <1>1 DEF Back, Return, NotFound
  <2>2. Sound'
    BY <2>1 DEF Sound
  <2> QED
    BY <2>1, <2>2, Stay DEF WalkInv, Kind
<1>2. CASE node # <<>>
  <2>1. node' = Front(node) /\ at' \in {"param", "wild"}
    BY <1>2 DEF Back
  <2>2. Walked'
    BY <1>2, <2>1, BackWalks
  <2> QED
    BY <2>1, <2>2, Stay DEF WalkInv, Kind
<1> QED
  BY <1>1, <1>2

\* A turn of match_node() stays on the way, or answers what is sound.
LEMMA MatchNodeIsSound ==
  ASSUME TablesInv, WalkInv, MatchNode
  PROVE  WalkInv'
<1>0. UNCHANGED <<tables, asked>>
  BY DEF MatchNode
<1>1. ASSUME at \in Kind PROVE Asked /\ Walked /\ node \in nodes /\ (at # "static" => Len(node) < Len(Texts))
  BY <1>1 DEF WalkInv, Walked
<1>2. CASE TryHere
  <2>1. at = "static" /\ Len(node) = Len(Texts) /\ Asked /\ Walked
    BY <1>1, <1>2 DEF TryHere, Kind
  <2>2. Fits(node, Texts)
    BY <2>1, NodeFits
  <2> QED
    BY <1>0, <1>2, <2>1, <2>2, FoundIsSound, BackIsSound DEF TryHere
<1>3. CASE TryStatic
  <2> DEFINE x == [kind |-> "static", text |-> Text]
             n == Append(node, x)
  <2>1. at = "static" /\ Len(node) < Len(Texts) /\ Asked /\ Walked /\ node \in Seq(Segment) /\ Len(node) \in Nat
    BY <1>1, <1>3, LenProperties DEF TryStatic, Kind, TablesInv, TreeInv
  <2>2. CASE n \in nodes /\ node' = n /\ UNCHANGED at
    <3>1. x \in Segment
      <4>1. Len(node) + 1 \in 1..Len(Texts)
        BY <2>1, TextsAre
      <4>2. Text \in STRING
        BY <2>1, <4>1, TextsAre, ElementOfSeq DEF Text
      <4> QED
        BY <4>2 DEF Segment, Kind
    <3>2. Len(n) = Len(node) + 1 /\ Front(n) = node /\ Last(n) = x
      BY <2>1, <3>1, OneMore
    <3>3. n \in Children(at) /\ Last(n).text = Text
      BY <2>1, <2>2, <3>2 DEF Children
    <3> HIDE DEF n
    <3>4. Walked'
      BY <1>0, <2>1, <2>2, <3>3, DescendWalks
    <3> QED
      BY <1>0, <2>1, <2>2, <3>4, Stay DEF WalkInv, Kind
  <2>3. CASE n \notin nodes /\ at' = "param" /\ UNCHANGED node
    <3>1. Walked'
      BY <1>0, <2>1, <2>3, Stay DEF Walked
    <3> QED
      BY <1>0, <2>1, <2>3, <3>1, Stay DEF WalkInv, Kind
  <2> QED
    BY <1>3, <2>2, <2>3 DEF TryStatic
<1>4. CASE TryParameter
  <2>1. at = "param" /\ Len(node) < Len(Texts) /\ Asked /\ Walked
    BY <1>1, <1>4 DEF TryParameter, Kind
  <2>2. ASSUME Text # Refused, NEW n \in Children("param"), node' = n, at' = "static"
        PROVE  WalkInv'
    <3>1. Walked'
      BY <1>0, <2>1, <2>2, DescendWalks
    <3> QED
      BY <1>0, <2>1, <2>2, <3>1, Stay DEF WalkInv, Kind
  <2>3. CASE at' = "wild" /\ UNCHANGED node
    <3>1. Walked'
      BY <1>0, <2>1, <2>3, Stay DEF Walked
    <3> QED
      BY <1>0, <2>1, <2>3, <3>1, Stay DEF WalkInv, Kind
  <2> QED
    BY <1>4, <2>2, <2>3 DEF TryParameter
<1>5. CASE TryWildcard
  <2>1. at = "wild" /\ Len(node) < Len(Texts) /\ Asked /\ Walked
    BY <1>1, <1>5 DEF TryWildcard, Kind
  <2>2. ASSUME ~Contains(Rest, Refused), NEW n \in Children("wild"), NEW captured,
               \/ Allowed(n, captured) /\ Found(n, captured)
               \/ ~Allowed(n, captured) /\ Back(Forgotten(captured, Last(n).text))
        PROVE  WalkInv'
    <3>1. Fits(n, Texts)
      BY <2>1, <2>2, ChildFits
    <3> QED
      BY <1>0, <2>1, <2>2, <3>1, FoundIsSound, BackIsSound
  <2>3. CASE Back(params)
    BY <1>0, <2>1, <2>3, BackIsSound
  <2> QED
    BY <1>5, <2>2, <2>3 DEF TryWildcard
<1> QED
  BY <1>2, <1>3, <1>4, <1>5 DEF MatchNode

\* match() begins at the root, or answers the static route of the path.
LEMMA MatchIsSound ==
  ASSUME TablesInv, NEW method \in Method, NEW t \in Target, Match(method, t)
  PROVE  WalkInv'
<1> DEFINE fixed == <<AsRoute(t), method>>
<1>1. asked' = [method |-> method, target |-> t] /\ node' = <<>> /\ UNCHANGED <<routes, nodes>>
  BY DEF Match, tables
<1>2. Asked' /\ Texts' = t.segments /\ asked'.method = method /\ asked'.target = t
  BY <1>1 DEF Asked, Texts
<1>3. CASE fixed \in DOMAIN direct /\ at' = "returned" /\ answer' = [handle |-> direct[fixed], params |-> <<>>]
  <2>1. fixed \in DOMAIN routes /\ direct[fixed] = routes[fixed].handle
    BY <1>3, FixedIs
  <2>2. fixed[1] = AsRoute(t) /\ fixed[2] = method
    OBVIOUS
  <2>3. Sound'
    BY <1>1, <1>2, <1>3, <2>1, <2>2 DEF Sound
  <2> QED
    BY <1>2, <1>3, <2>3 DEF WalkInv, Kind
<1>4. CASE fixed \notin DOMAIN direct /\ at' = "static" /\ answer' = NotFound(<<>>)
  <2>1. DOMAIN <<>> = {} /\ Len(<<>>) = 0 /\ <<>> \in nodes
    BY EmptySeq DEF TablesInv, TreeInv
  <2>2. Len(Texts') \in Nat
    BY <1>2, TargetAssumption, LenProperties
  <2>3. Len(node') <= Len(Texts') /\ node' \in nodes' /\ \A i \in DOMAIN node' : FALSE
    BY <1>1, <2>1, <2>2
  <2>4. Walked'
    BY <1>4, <2>3 DEF Walked
  <2> QED
    BY <1>2, <1>4, <2>4 DEF WalkInv, Kind
<1> QED
  BY <1>3, <1>4 DEF Match

\* Routes are added between lookups, and a lookup goes its way.
LEMMA WalkStep == TablesInv /\ WalkInv /\ [Next]_vars => WalkInv'
<1> SUFFICES ASSUME TablesInv, WalkInv, [Next]_vars PROVE WalkInv'
  OBVIOUS
<1>1. ASSUME NEW method \in Method, NEW r \in Route, Add(method, r) PROVE WalkInv'
  BY <1>1 DEF Add, WalkInv, Kind
<1>2. ASSUME NEW method \in Method, NEW t \in Target, Match(method, t) PROVE WalkInv'
  BY <1>2, MatchIsSound
<1>3. CASE MatchNode
  BY <1>3, MatchNodeIsSound
<1>4. CASE Taken
  BY <1>4 DEF Taken, WalkInv, Kind
<1>5. CASE UNCHANGED vars
  <2>1. UNCHANGED <<tables, asked, at, node, answer>> /\ UNCHANGED routes
    BY <1>5 DEF vars, tables
  <2>2. Walked' = Walked
    BY <2>1, Stay DEF Walked
  <2>3. Sound' = Sound
    BY <2>1, Stay DEF Sound
  <2> QED
    BY <2>1, <2>2, <2>3, Stay DEF WalkInv
<1> QED
  BY <1>1, <1>2, <1>3, <1>4, <1>5 DEF Next

\* Whatever the routes, also where MatchIsBest fails: an answer is the handler of a route
\* for this method that fits the target, and so is in the map (route_table::match).
THEOREM LookupIsSound == Spec => [](at = "returned" => Sound)
<1>1. WalkInv => (at = "returned" => Sound)
  BY DEF WalkInv
<1>2. Init => TablesInv /\ WalkInv
  BY TablesInit DEF Init, WalkInv, Kind
<1>3. TablesInv /\ WalkInv /\ [Next]_vars => (TablesInv /\ WalkInv)'
  BY TablesStep, WalkStep
<1> QED
  BY <1>1, <1>2, <1>3, PTL DEF Spec

=============================================================================
