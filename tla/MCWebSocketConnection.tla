---------------------- MODULE MCWebSocketConnection ----------------------
EXTENDS WebSocketConnection, TLC
CONSTANTS a1, i1, i2
IoSymmetry == Permutations(Io)
==========================================================================
