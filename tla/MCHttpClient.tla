---------------------------- MODULE MCHttpClient ----------------------------
EXTENDS HttpClient
CONSTANTS r1, r2, a, b, s1, s2, s3, s4
OneVaried == [r \in Request |-> IF r = r1 THEN {"chunked", "bodiless"} ELSE {"length", "eof"}]
Bare == [r \in Request |-> {"length", "bare"}]
=============================================================================
