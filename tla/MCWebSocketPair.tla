-------------------------- MODULE MCWebSocketPair --------------------------
EXTENDS WebSocketPair
CONSTANTS sa, si, si2, ca, ci, ci2
=============================================================================
