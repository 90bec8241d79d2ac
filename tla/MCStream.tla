------------------------------ MODULE MCStream ------------------------------
EXTENDS ToolStream
=============================================================================
