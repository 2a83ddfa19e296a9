----------------------------- MODULE HttpRouter -----------------------------
(***************************************************************************)
(* The route tables of the HTTP router (net/http_router.hpp): routes are   *)
(* added one after the other to a map, and to a table of static paths or a *)
(* tree of segments; a request is looked up in the latter two.  A call of  *)
(* match() goes on by steps, one for each place of match_node() where it   *)
(* calls itself or returns; its stack is the node it stands at.            *)
(*                                                                         *)
(* A path is its segments and whether it has slashes that split_path()     *)
(* drops.  A segment of a route is static, a parameter or a wildcard; a    *)
(* segment of a target is a text.  A value that a capture refuses is the   *)
(* one text Refused, and a constraint on a parameter accepts some values.  *)
(***************************************************************************)
EXTENDS Naturals, SequencesExt

CONSTANTS
    Method,
    Route,       \* what may be registered: [segments, slashes, constraints]
    Target,      \* what may be asked for: [segments, slashes]
    Accepted,    \* the values that a constraint accepts
    Refused,     \* a text that no parameter or wildcard captures
    MaxAdds      \* bound on the routes that are added

Kind == {"static", "param", "wild"}
Segment == [kind : Kind, text : STRING]

ASSUME RouteAssumption ==
    \A r \in Route : r.segments \in Seq(Segment) /\ r.slashes \in BOOLEAN /\ r.constraints \in SUBSET STRING
ASSUME TargetAssumption == \A t \in Target : t \in [segments : Seq(STRING), slashes : BOOLEAN]
ASSUME MaxAddsAssumption == MaxAdds \in Nat

VARIABLES
    routes,        \* per path and method, the handler and its constraints
    direct,        \* direct_routes: per path and method, the handler
    nodes,         \* the nodes of the tree, each the segments that lead to it
    handlers,      \* per node and method, the handler
    constraints,   \* per node and method, the constrained parameters
    added,         \* calls so far: a handler is the number of its call
    rejected,      \* the segments of the routes that were rejected
    at,            \* match(): "idle", what it tries next at the node, or "returned"
    asked,         \* its arguments
    node,          \* where match_node() is
    params,        \* what is captured on the way there
    answer         \* what match() returns

tables == <<routes, direct, nodes, handlers, constraints, added, rejected>>
vars == <<tables, at, asked, node, params, answer>>

None == 0
With(f, x, v) == [y \in DOMAIN f \cup {x} |-> IF y = x THEN v ELSE f[y]]
Without(f, x) == [y \in DOMAIN f \ {x} |-> f[y]]
Path(r) == [segments |-> r.segments, slashes |-> r.slashes]
NotFound(captured) == [handle |-> None, params |-> captured]

Init ==
    /\ routes = <<>> /\ direct = <<>>
    /\ nodes = {<<>>} /\ handlers = <<>> /\ constraints = <<>>
    /\ added = 0 /\ rejected = {}
    /\ at = "idle" /\ asked = <<>> /\ node = <<>> /\ params = <<>> /\ answer = NotFound(<<>>)

-----------------------------------------------------------------------------
IsStatic(segments) == \A i \in DOMAIN segments : segments[i].kind = "static"
Upto(segments, i) == SubSeq(segments, 1, i)

\* Faulty: parameters are compared with those of every other branch.
ConflictAtDepth(segments, i) ==
    \/ segments[i].kind = "wild" /\ i # Len(segments)
    \/ /\ segments[i].kind # "static"
       /\ \E n \in nodes : Len(n) = i /\ Last(n).kind = segments[i].kind /\ Last(n).text # segments[i].text

\* A node takes one parameter and one wildcard, and nothing follows a wildcard.
Conflict(segments, i) ==
    \/ segments[i].kind = "wild" /\ i # Len(segments)
    \/ /\ segments[i].kind # "static"
       /\ \E n \in nodes : /\ Len(n) = i /\ Front(n) = Upto(segments, i - 1)
                           /\ Last(n).kind = segments[i].kind /\ Last(n).text # segments[i].text

Conflicts(segments) == {i \in DOMAIN segments : Conflict(segments, i)}

AddStatic(method, r) ==
    /\ IsStatic(r.segments)
    /\ direct' = With(direct, <<Path(r), method>>, added')
    /\ routes' = With(routes, <<Path(r), method>>, [handle |-> added', constraints |-> r.constraints])
    /\ UNCHANGED <<nodes, handlers, constraints, rejected>>

\* The constraints of the last time stay if there are none this time.
AddToTree(method, r) ==
    /\ ~IsStatic(r.segments) /\ Conflicts(r.segments) = {}
    /\ nodes' = nodes \cup {Upto(r.segments, i) : i \in DOMAIN r.segments}
    /\ handlers' = With(handlers, <<r.segments, method>>, added')
    /\ constraints' = IF r.constraints = {} THEN constraints
                      ELSE With(constraints, <<r.segments, method>>, r.constraints)
    /\ routes' = With(routes, <<Path(r), method>>, [handle |-> added', constraints |-> r.constraints])
    /\ UNCHANGED <<direct, rejected>>

\* add_route() throws on its way down, and leaves the nodes that it has made.
Reject(method, r) ==
    /\ ~IsStatic(r.segments) /\ Conflicts(r.segments) # {}
    /\ nodes' = nodes \cup {Upto(r.segments, i) : i \in {j \in DOMAIN r.segments : \A k \in Conflicts(r.segments) : j < k}}
    /\ rejected' = rejected \cup {r.segments}
    /\ UNCHANGED <<routes, direct, handlers, constraints>>

\* route_table::add(), while nobody looks up anything.
Add(method, r) ==
    /\ added < MaxAdds /\ at = "idle"
    /\ added' = added + 1
    /\ AddStatic(method, r) \/ AddToTree(method, r) \/ Reject(method, r)
    /\ UNCHANGED <<at, asked, node, params, answer>>

-----------------------------------------------------------------------------
(* match()                                                                 *)

\* A path without parameters, as a route has it.
AsRoute(t) == [t EXCEPT !.segments = [i \in DOMAIN t.segments |-> [kind |-> "static", text |-> t.segments[i]]]]

\* The table of static paths is asked first, then match_node() at the root.
Match(method, t) ==
    /\ at = "idle"
    /\ asked' = [method |-> method, target |-> t]
    /\ node' = <<>> /\ params' = <<>>
    /\ LET fixed == <<AsRoute(t), method>> IN
       \/ /\ fixed \in DOMAIN direct
          /\ at' = "returned" /\ answer' = [handle |-> direct[fixed], params |-> <<>>]
       \/ fixed \notin DOMAIN direct /\ at' = "static" /\ answer' = NotFound(<<>>)
    /\ UNCHANGED tables

Texts == asked.target.segments
Text == Texts[Len(node) + 1]
Rest == SubSeq(Texts, Len(node) + 1, Len(Texts))

Satisfied(names, captured) == \A x \in names \cap DOMAIN captured : captured[x] \in Accepted

\* The node has a handler for the method and the constraints allow it.
Allowed(n, captured) ==
    LET key == <<n, asked.method>> IN
    key \in DOMAIN handlers /\ (key \in DOMAIN constraints => Satisfied(constraints[key], captured))

\* The children of a node: at most one of each kind, a static one for a text.
Children(kind) == {n \in nodes : Len(n) = Len(node) + 1 /\ Front(n) = node /\ Last(n).kind = kind}

\* Faulty: a capture that led nowhere stays.
ForgottenNot(captured, name) == captured

\* params.erase()
Forgotten(captured, name) == Without(captured, name)

Return(result) == at' = "returned" /\ answer' = result /\ node' = <<>> /\ params' = <<>>
Found(n, captured) == Return([handle |-> handlers[<<n, asked.method>>], params |-> captured])

\* match_node() returns false, and its caller goes on with what comes next.
Back(captured) ==
    \/ node = <<>> /\ Return(NotFound(captured))
    \/ /\ node # <<>> /\ node' = Front(node)
       /\ \/ Last(node).kind = "static" /\ at' = "param" /\ params' = captured
          \/ Last(node).kind = "param" /\ at' = "wild" /\ params' = Forgotten(captured, Last(node).text)
       /\ UNCHANGED answer

\* index == segments.size()
TryHere ==
    /\ at = "static" /\ Len(node) = Len(Texts)
    /\ \/ Allowed(node, params) /\ Found(node, params)
       \/ ~Allowed(node, params) /\ Back(params)

TryStatic ==
    /\ at = "static" /\ Len(node) < Len(Texts)
    /\ LET n == Append(node, [kind |-> "static", text |-> Text]) IN
       \/ n \in nodes /\ node' = n /\ UNCHANGED at
       \/ n \notin nodes /\ at' = "param" /\ UNCHANGED node
    /\ UNCHANGED <<params, answer>>

TryParameter ==
    /\ at = "param"
    /\ \/ /\ Text # Refused
          /\ \E n \in Children("param") :
                /\ node' = n /\ at' = "static"
                /\ params' = With(params, Last(n).text, <<Text>>)
       \/ (Children("param") = {} \/ Text = Refused) /\ at' = "wild" /\ UNCHANGED <<node, params>>
    /\ UNCHANGED answer

TryWildcard ==
    /\ at = "wild"
    /\ \/ /\ ~Contains(Rest, Refused)
          /\ \E n \in Children("wild") :
                LET captured == With(params, Last(n).text, Rest) IN
                \/ Allowed(n, captured) /\ Found(n, captured)
                \/ ~Allowed(n, captured) /\ Back(Forgotten(captured, Last(n).text))
       \/ (Children("wild") = {} \/ Contains(Rest, Refused)) /\ Back(params)

(* A turn of match_node(): static, then the parameter, then the wildcard,  *)
(* each with what is below it; a capture that leads nowhere is erased.     *)
MatchNode ==
    /\ TryHere \/ TryStatic \/ TryParameter \/ TryWildcard
    /\ UNCHANGED <<tables, asked>>

\* The caller has its answer.
Taken ==
    /\ at = "returned"
    /\ at' = "idle" /\ asked' = <<>> /\ answer' = NotFound(<<>>)
    /\ UNCHANGED <<tables, node, params>>

Next ==
    \/ \E method \in Method, r \in Route : Add(method, r)
    \/ \E method \in Method, t \in Target : Match(method, t)
    \/ MatchNode
    \/ Taken
Spec == Init /\ [][Next]_vars

-----------------------------------------------------------------------------
(* What a table of these routes should answer: of the routes that fit, the *)
(* one that is static longest, then a parameter rather than a wildcard.    *)

Fits(segments, texts) ==
    /\ \A i \in DOMAIN segments :
          \/ segments[i].kind = "static" /\ i <= Len(texts) /\ texts[i] = segments[i].text
          \/ segments[i].kind = "param" /\ i <= Len(texts) /\ texts[i] # Refused
          \/ segments[i].kind = "wild" /\ i <= Len(texts) /\ ~Contains(SubSeq(texts, i, Len(texts)), Refused)
    /\ Len(segments) = Len(texts) \/ Last(segments).kind = "wild"

Captures(segments, texts) ==
    LET Of(name) == CHOOSE i \in DOMAIN segments : segments[i].kind # "static" /\ segments[i].text = name
        names == {segments[i].text : i \in {j \in DOMAIN segments : segments[j].kind # "static"}}
    IN [name \in names |-> IF segments[Of(name)].kind = "wild" THEN SubSeq(texts, Of(name), Len(texts))
                           ELSE <<texts[Of(name)]>>]

Rank == [kind \in Kind |-> CASE kind = "static" -> 1 [] kind = "param" -> 2 [] OTHER -> 3]

\* The first segment in which they differ decides; the same path again replaces the route.
Before(s, t) ==
    \/ s[1].segments = t[1].segments /\ routes[s].handle > routes[t].handle
    \/ \E i \in DOMAIN s[1].segments \cap DOMAIN t[1].segments :
          /\ \A j \in 1..(i - 1) : s[1].segments[j].kind = t[1].segments[j].kind
          /\ Rank[s[1].segments[i].kind] < Rank[t[1].segments[i].kind]

Candidates(method, t) ==
    {r \in DOMAIN routes :
        /\ r[2] = method
        /\ ~IsStatic(r[1].segments) /\ Fits(r[1].segments, t.segments)
        /\ Satisfied(routes[r].constraints, Captures(r[1].segments, t.segments))}

Best(method, t) ==
    LET fixed == <<AsRoute(t), method>> IN
    IF fixed \in DOMAIN routes THEN [handle |-> routes[fixed].handle, params |-> <<>>]
    ELSE IF Candidates(method, t) = {} THEN NotFound(<<>>)
    ELSE LET best == CHOOSE r \in Candidates(method, t) : \A s \in Candidates(method, t) \ {r} : Before(r, s)
         IN [handle |-> routes[best].handle, params |-> Captures(best[1].segments, t.segments)]

(* Routes of which no path captures a name twice, and a path comes with    *)
(* the same constraints every time: the tree and the map agree about them. *)
NamesDiffer ==
    \A r \in Route : \A i, j \in DOMAIN r.segments :
        r.segments[i].kind # "static" /\ r.segments[j].kind # "static" /\ r.segments[i].text = r.segments[j].text => i = j
SameConstraints == \A r, s \in Route : r.segments = s.segments => r.constraints = s.constraints
Tame == NamesDiffer /\ SameConstraints

(* The static table and the tree, with its backtracking, answer as the map *)
(* of routes says: the best route that fits, with the values it captures   *)
(* and no others (route_table::match, match_node).                         *)
MatchIsBest == at = "returned" => answer = Best(asked.method, asked.target)

(* A route is rejected for what is wrong with it, or for a route that was  *)
(* there before it: one in the map, or one that was itself rejected and    *)
(* has left what precedes its fault in the tree (add_route).               *)
RejectedForAReason ==
    [][\A method \in Method, r \in Route :
         added' > added /\ Reject(method, r) =>
            \E i \in DOMAIN r.segments :
                \/ r.segments[i].kind = "wild" /\ i # Len(r.segments)
                \/ \E other \in {s[1].segments : s \in DOMAIN routes} \cup rejected :
                      /\ i <= Len(other) /\ Upto(other, i - 1) = Upto(r.segments, i - 1)
                      /\ other[i].kind = r.segments[i].kind /\ other[i].text # r.segments[i].text]_vars
=============================================================================
