--------------------------- MODULE MCStreamingVAD ---------------------------
EXTENDS StreamingVAD
=============================================================================
