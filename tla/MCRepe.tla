------------------------------- MODULE MCRepe -------------------------------
EXTENDS Repe
CONSTANTS c1, c2
=============================================================================
