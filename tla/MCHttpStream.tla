---------------------------- MODULE MCHttpStream ----------------------------
EXTENDS HttpStream
AllFramings == {"none", "length", "chunked", "eof"}
=============================================================================
