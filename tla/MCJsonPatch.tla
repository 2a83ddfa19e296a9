----------------------------- MODULE MCJsonPatch -----------------------------
(***************************************************************************)
(* Documents of two levels, and a key that reads like an index.            *)
(***************************************************************************)
EXTENDS JsonPatch

Zero == [type |-> "number", value |-> 0]
One == [type |-> "number", value |-> 1]
Arrays(S) == {Array(e) : e \in BoundedSeq(S, 2)}
Objects(keys, S) == UNION {{Object(m) : m \in [K -> S]} : K \in SUBSET keys}

Small == {Zero, Array(<<>>), Array(<<Zero>>), Object([a |-> Zero]), Object([b |-> One])}
TwoLevels ==
    {Null, Zero, One} \cup Arrays({Zero, One}) \cup {Array(<<x, y, Zero>>) : x, y \in {Zero, One}}
    \cup Arrays(Small) \cup Objects({"a", "0"}, Small \cup {Null})

Some ==
    {Null, Zero, Array(<<Zero, One>>), Array(<<Zero, One, Null>>), Object([a |-> Zero]),
     Array(<<Object([a |-> Null]), Array(<<One>>)>>),
     Object([a |-> Array(<<Zero, One>>), b |-> Null]),
     Object("0" :> Object([a |-> Zero]) @@ "a" :> One)}

Tokens == {"a", "0", "1", "-", "", Malformed}
Paths == BoundedSeq(Tokens, 2)
Values == {Zero, Array(<<>>)}
Singles ==
    [op : {"add", "replace", "test"}, path : Paths, value : Values \cup {Nothing}, from : {NoPath}]
    \cup [op : {"remove"}, path : Paths, value : {Nothing}, from : {NoPath}]
    \cup [op : {"move", "copy"}, path : Paths, value : {Nothing}, from : Paths \cup {NoPath}]

\* One operation, or one that adds a value and one that moves it on or copies it.
SomeScripts ==
    {<<o>> : o \in Singles} \cup {<<Op("add", <<"1">>, One, NoPath), o>> : o \in {x \in Singles : x.op \in {"move", "test"}}}

FiveDigits == <<"0", "1", "2", "3", "4">>
=============================================================================
