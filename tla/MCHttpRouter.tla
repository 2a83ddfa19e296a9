---------------------------- MODULE MCHttpRouter ----------------------------
EXTENDS HttpRouter

CONSTANTS GET, POST

Static(text) == [kind |-> "static", text |-> text]
Param(name) == [kind |-> "param", text |-> name]
Wild(name) == [kind |-> "wild", text |-> name]
Plain(segments) == [segments |-> segments, slashes |-> FALSE, constraints |-> {}]
Checked(segments, names) == [segments |-> segments, slashes |-> FALSE, constraints |-> names]

\* Routes that overlap in every way, two that conflict with others, and one
\* that is wrong in itself, behind a parameter.
SomeRoutes == {
    Plain(<<Static("a")>>),
    [Plain(<<Static("a")>>) EXCEPT !.slashes = TRUE],
    Plain(<<Param("x"), Static("b")>>),
    Plain(<<Static("a"), Param("y")>>),
    Plain(<<Static("a"), Param("z")>>),
    Checked(<<Param("x"), Param("y")>>, {"y"}),
    Plain(<<Static("a"), Param("y"), Static("b")>>),
    Plain(<<Param("x"), Wild("w")>>),
    Checked(<<Static("a"), Wild("w")>>, {"w"}),
    Plain(<<Wild("w")>>),
    Plain(<<Wild("v")>>),
    Plain(<<Static("a"), Param("z"), Wild("w"), Static("a")>>)}

\* Targets that go below every route, with a capture that is refused at either end.
Targets ==
    [segments : BoundedSeq({"a", "b"}, 3) \cup {<<Refused>>, <<"a", Refused>>, <<Refused, "b">>, <<"a", "b", Refused>>},
     slashes : {FALSE}]
    \cup {[segments |-> <<"a">>, slashes |-> TRUE]}
OnlyA == {<<"a">>, <<"a", "a">>}
MethodSymmetry == Permutations(Method)

\* The routes are such as the theorem about lookups speaks of.
ASSUME RoutesAreTame == Tame
=============================================================================
