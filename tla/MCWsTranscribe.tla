--------------------------- MODULE MCWsTranscribe ---------------------------
EXTENDS WsTranscribe
=============================================================================
