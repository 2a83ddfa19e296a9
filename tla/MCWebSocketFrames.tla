-------------------------- MODULE MCWebSocketFrames --------------------------
EXTENDS WebSocketFrames
F(op, fin, data) == [op |-> op, fin |-> fin, data |-> data]
\* Text whose characters, fragments and mistakes fall on every side of a boundary.
SomeFrames ==
    {F("text", FALSE, <<"l">>), F("text", TRUE, <<"l">>),
     F("text", TRUE, <<"l", "t">>), F("text", TRUE, <<"a", "t">>), F("text", TRUE, <<"a", "a", "a">>),
     F("cont", TRUE, <<"t">>), F("cont", FALSE, <<"a", "l">>),
     F("binary", FALSE, <<"t">>), F("ping", TRUE, <<"a">>), F("close", TRUE, <<>>)}
    \cup {F(op, TRUE, <<>>) : op \in {"badclose", "unknown", "reserved"}}
=============================================================================
