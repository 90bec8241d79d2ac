------------------------------ MODULE MCClient ------------------------------
EXTENDS Client
=============================================================================
