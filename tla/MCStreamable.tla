---------------------------- MODULE MCStreamable ----------------------------
EXTENDS StreamableHTTP
=============================================================================
