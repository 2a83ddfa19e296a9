---------------------------- MODULE MCThreadPool ----------------------------
EXTENDS ThreadPool
CONSTANTS u1, u2, j1, j2, j3
=============================================================================
